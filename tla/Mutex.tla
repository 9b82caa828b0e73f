------------------------------- MODULE Mutex --------------------------------
(***************************************************************************)
(* A lock that one CPU at a time holds: all that spin_lock() and           *)
(* spin_unlock() of RISC-V promise.                                        *)
(***************************************************************************)
CONSTANTS Cpus

VARIABLES holders

Init == holders = {}

Acquire(c) == holders = {} /\ holders' = {c}

Release == holders # {} /\ holders' = {}

Next == (\E c \in Cpus: Acquire(c)) \/ Release

Spec == Init /\ [][Next]_holders
=============================================================================
