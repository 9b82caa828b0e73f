------------------------------- MODULE MCLive -------------------------------
(***************************************************************************)
(* Liveness of the scheduler, for TLC, on two machines: one with four      *)
(* tasks that yield and fork, and one with three tasks that also sleep.    *)
(***************************************************************************)
EXTENDS TaskSched

CONSTANTS t1, t2, t3

VARIABLE part

Three == INSTANCE TaskSched WITH Tasks <- {t1, t2, t3}, Calls <- {"yield", "fork", "sleep"}

liveVars == <<part, vars>>
OnFour == part = "four" /\ UNCHANGED part
OnThree == part = "three" /\ UNCHANGED part

InitLive ==
    \/ part = "four" /\ Init
    \/ part = "three" /\ Three!Init

NextLive ==
    \/ OnFour /\ Next
    \/ OnThree /\ Three!Next

Kernels(c) == (OnFour /\ Kernel(c)) \/ (OnThree /\ Three!Kernel(c))
Ticks(c) == (OnFour /\ IrqTimer(c)) \/ (OnThree /\ Three!IrqTimer(c))

(* A CPU in the kernel makes progress, the tick comes again and again (it  *)
(* is enabled only while interrupts are, hence strong fairness), and time  *)
(* passes.  Programs are under no fairness: they may compute forever; nor  *)
(* are software and device interrupts.                                     *)
SpecLive ==
    /\ InitLive /\ [][NextLive]_liveVars
    /\ \A c \in Cpus: WF_liveVars(Kernels(c)) /\ SF_liveVars(Ticks(c))
    /\ \A t \in {t1, t2, t3}: WF_liveVars(OnThree /\ Three!TimeExpire(t))

(* Every task that is runnable runs eventually, although others compute    *)
(* for as long as they like: schedule() goes round the list from the       *)
(* current task on.  So does every task that called nanosleep(), no matter *)
(* which CPU walks the timer list and whether the task is still current on *)
(* its CPU.  (The tasks other than PID 1 are interchangeable: t2 stands    *)
(* for them.)                                                              *)
TasksRun ==
    \A t \in {t1, t2}: (state[t] = "RUNNABLE" \/ wfe[t] = "TIMER") ~> (state[t] = "RUNNING")
=============================================================================
