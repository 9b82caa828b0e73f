------------------------------ MODULE FifoLock ------------------------------
(***************************************************************************)
(* A lock that serves its callers in the order of their arrival: what      *)
(* spin_lock() and spin_unlock() of ARM64 promise.                         *)
(***************************************************************************)
EXTENDS Integers, Sequences

CONSTANTS Cpus

VARIABLES queue,    \* who asked for the lock, in this order
          holders   \* who has it: nobody or the first of them

vars == <<queue, holders>>

Init == queue = << >> /\ holders = {}

Arrive(c) ==
    /\ \A i \in DOMAIN queue: queue[i] # c
    /\ queue' = Append(queue, c)
    /\ UNCHANGED holders

Enter ==
    /\ queue # << >> /\ holders = {}
    /\ holders' = {Head(queue)}
    /\ UNCHANGED queue

Leave ==
    /\ holders # {}
    /\ holders' = {}
    /\ queue' = Tail(queue)

Next == (\E c \in Cpus: Arrive(c)) \/ Enter \/ Leave

Spec == Init /\ [][Next]_vars
=============================================================================
