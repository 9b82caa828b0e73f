----------------------------- MODULE TrapEntry ------------------------------
(***************************************************************************)
(* Traps into the kernel of RISC-V and the way back, on one CPU: the stack *)
(* pointer, sscratch and the frame that arch/riscv/entry.S saves, and what *)
(* arch/riscv/traps.c, arch/riscv/vmm/vmm.c and kernel/task.c do with it.  *)
(* The stack grows down; the frame that is saved at stack pointer a is at  *)
(* address a - 1.                                                          *)
(***************************************************************************)
EXTENDS Integers

CONSTANTS
  Procs, Guests,   \* tasks
  NULL

TOP == 12                            \* the end of the CPU's stack
KernelStack == 7 .. TOP
UserSp(t) == IF t \in Guests THEN 5 ELSE 3     \* in the task's own address space

Owners == Procs \cup Guests
Context(owner, version, sp) == [x |-> <<owner, version>>, sp |-> sp]

VARIABLES
  mode, x, sp, sscratch,   \* registers: the mode, those that a frame has, and two more
  spp, spv,                \* SR_SPP and HSTATUS_SPV: the mode before the trap
  frames,                  \* what is in memory at an address
  current_task, idling,
  regs, vs,                \* task->regs, vregs.vs
  cause, pc,
  due                      \* what the registers of a task have to be when it runs

vars == <<mode, x, sp, sscratch, spp, spv, frames, current_task, idling, regs, vs, cause, pc, due>>
hardware == <<mode, x, sp, sscratch, spp, spv>>

KernelX == <<NULL, 0>>

(* The CPU has booted and has nothing to do: cmain() or secondary_cmain() is *)
(* in prepare_user_return().                                                 *)
Init ==
    /\ mode = "S" /\ x = KernelX /\ sp = TOP - 1 /\ sscratch = 0
    /\ spp = "U" /\ spv = FALSE
    /\ regs = [t \in Owners |-> Context(t, 0, UserSp(t))]
    /\ frames = [a \in 0 .. TOP |-> Context(NULL, 0, 0)]
    /\ current_task = NULL /\ idling = FALSE
    /\ vs = [t \in Owners |-> t \in Guests]
    /\ cause = "none" /\ pc = "prepare"
    /\ due = [t \in Owners |-> Context(t, 0, UserSp(t))]

Changed(c) == [c EXCEPT !.x = <<@[1], 1 - @[2]>>]

(* A program computes; a guest that starts sets its stack pointer. *)
Compute ==
    /\ pc = "run" /\ mode # "S"
    /\ x' = Changed([x |-> x]).x
    /\ sp' = UserSp(current_task)
    /\ due' = [due EXCEPT ![current_task] = [x |-> x', sp |-> sp']]
    /\ UNCHANGED <<mode, sscratch, spp, spv, frames, current_task, idling, regs, vs, cause, pc>>

----------------------------------------------------------------------------
(* excp_handler: a trap from a process finds the CPU's stack in sscratch, one *)
(* from the kernel goes on with its stack.                                    *)
Base == IF sscratch # 0 THEN sscratch ELSE sp

Trap(why) ==
    /\ pc = "run"
    /\ mode = "S" => why # "exception"
    /\ spp' = (IF mode = "U" THEN "U" ELSE "S") /\ spv' = (mode = "VS")
    /\ frames' = [frames EXCEPT ![Base - 1] = [x |-> x, sp |-> sp]]
    /\ mode' = "S" /\ x' = KernelX /\ sp' = Base - 1 /\ sscratch' = 0
    /\ cause' = why /\ pc' = "handle"
    /\ UNCHANGED <<current_task, idling, regs, vs, due>>

(* task_save() and, for a guest, arch_vmachine_save() *)
TaskSave(t, frame) ==
    /\ regs' = [regs EXCEPT ![t] = frame]
    /\ vs' = IF t \in Guests THEN [vs EXCEPT ![t] = spp = "S"] ELSE vs

(* arch_handle_irq(): an interrupt of a device goes back the way it came *)
HandleIrq ==
    /\ pc = "handle" /\ cause # "exception"
    /\ IF idling THEN UNCHANGED <<regs, vs>> ELSE TaskSave(current_task, frames[sp])
    /\ pc' = IF cause = "device" \/ idling THEN "return" ELSE "prepare"
    /\ UNCHANGED <<hardware, frames, current_task, idling, cause, due>>

(* arch_handle_exception(): a call changes the registers of the task that    *)
(* made it (handle_syscall(), vmm_handle_ecall()).                           *)
HandleException ==
    /\ pc = "handle" /\ cause = "exception"
    /\ TaskSave(current_task, Changed(frames[sp]))
    /\ due' = [due EXCEPT ![current_task] = Changed(@)]
    /\ pc' = "prepare"
    /\ UNCHANGED <<hardware, frames, current_task, idling, cause>>

----------------------------------------------------------------------------
(* arch_process_activate() and arch_vmachine_activate(), of another task *)
Activate(t) ==
    /\ spv' = IF t = current_task THEN spv ELSE t \in Guests
    /\ spp' = IF t \in Guests THEN (IF vs[t] THEN "S" ELSE "U")      \* arch_vmachine_restore()
              ELSE IF t = current_task THEN spp ELSE "U"

(* Mutant: the frame of a task that goes on is left as it is. *)
RestoreOther(t) == IF t = current_task THEN frames ELSE [frames EXCEPT ![TOP - 1] = regs[t]]

(* task_restore(): to the frame at the end of the stack *)
Restore(t) == [frames EXCEPT ![TOP - 1] = regs[t]]

(* prepare_user_return() with a task: the one that was current, or another    *)
(* one that schedule() has chosen                                             *)
PrepareUserReturn(t) ==
    /\ pc = "prepare"
    /\ Activate(t)
    /\ frames' = Restore(t)
    /\ current_task' = t
    /\ pc' = "return"
    /\ UNCHANGED <<mode, x, sp, sscratch, idling, regs, vs, cause, due>>

(* ... and without one: do_idle() waits with interrupts enabled. *)
DoIdle ==
    /\ pc = "prepare"
    /\ idling' = TRUE /\ current_task' = NULL
    /\ sp' = sp - 2
    /\ pc' = "run"
    /\ UNCHANGED <<mode, x, sscratch, spp, spv, frames, regs, vs, cause, due>>

WakeUp ==
    /\ pc = "run" /\ mode = "S"
    /\ idling' = FALSE
    /\ sp' = sp + 2
    /\ pc' = "prepare"
    /\ UNCHANGED <<mode, x, sscratch, spp, spv, frames, current_task, regs, vs, cause, due>>

(* return_from_trap: to user mode, or as to the kernel *)
ReturnFromTrap ==
    /\ pc = "return" /\ pc' = "run"
    /\ x' = frames[sp].x
    /\ IF spp = "U" THEN sscratch' = sp + 1 /\ sp' = frames[sp].sp
       ELSE sscratch' = 0 /\ sp' = sp + 1
    /\ mode' = IF spp = "U" THEN "U" ELSE IF spv THEN "VS" ELSE "S"     \* sret
    /\ spp' = "U"
    /\ UNCHANGED <<spv, frames, current_task, idling, regs, vs, cause, due>>

Next ==
    \/ Compute
    \/ \E why \in {"timer", "device", "exception"}: Trap(why)
    \/ HandleIrq
    \/ HandleException
    \/ \E t \in Owners: PrepareUserReturn(t)
    \/ DoIdle
    \/ WakeUp
    \/ ReturnFromTrap

Spec == Init /\ [][Next]_vars

----------------------------------------------------------------------------
(* A task runs with the registers with which it was interrupted, as far as   *)
(* the kernel did not change them for it, in its own mode, whichever other   *)
(* tasks ran in between and however many interrupts came while the CPU was   *)
(* idle, which goes on with its own stack (arch_handle_irq(), task_save(),   *)
(* task_restore(), return_from_trap).                                        *)
ContextKept ==
    pc = "run" =>
      IF current_task = NULL THEN mode = "S" /\ x = KernelX /\ sp = TOP - 3
      ELSE /\ [x |-> x, sp |-> sp] = due[current_task]
           /\ mode = IF current_task \in Guests THEN "VS" ELSE "U"

(* What arch/riscv/entry.S says of a trap that does not come from user mode: *)
(* "sp is already the kernel stack".                                         *)
KernelOnItsStack == mode = "S" => sp \in KernelStack
=============================================================================
