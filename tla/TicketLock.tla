----------------------------- MODULE TicketLock -----------------------------
(***************************************************************************)
(* The spinlock of ARM64 (common/include/arch/arm64/asm/spinlock.h), one   *)
(* instruction that touches the lock per step.  Exclusive loads and stores *)
(* follow the architecture: a store to the lock by anyone ends every       *)
(* reservation, and an exclusive store succeeds only with a reservation.   *)
(* A reservation that ends is an event for the CPU that had it, and wfe    *)
(* waits for an event.                                                     *)
(***************************************************************************)
EXTENDS Integers, Sequences, FiniteSets

CONSTANTS Cpus,
          Width     \* bits of owner and next: TICKET_SHIFT

(* A ticket may only be reused when nobody holds it any more.  (That a     *)
(* power of 2 is a natural number is for the provers, which do not know.)  *)
ASSUME TicketLockAssumption ==
    /\ IsFiniteSet(Cpus)
    /\ Width \in Nat \ {0} /\ 2^Width \in Nat
    /\ Cardinality(Cpus) < 2^Width

VARIABLES owner, next,   \* spinlock_t
          lockval,       \* the lock as each CPU loaded it
          reserved,      \* CPUs whose exclusive monitor is set
          event,         \* CPUs whose event register is set
          pc

vars == <<owner, next, lockval, reserved, event, pc>>

Wrap == 2^Width

Places == {"idle", "load", "store", "test", "wfe", "spin", "critical"}

(* A register whose value is not used any more *)
Dead == [owner |-> 0, next |-> 0]

Goto(c, place) == pc' = [pc EXCEPT ![c] = place]

(* A store of c to the lock ends all reservations. *)
EndReservations(c) ==
    /\ reserved' = {}
    /\ event' = event \cup (reserved \ {c})

(* spin_init() *)
Init ==
    /\ owner = 0 /\ next = 0
    /\ lockval = [c \in Cpus |-> Dead]
    /\ reserved = {} /\ event = {}
    /\ pc = [c \in Cpus |-> "idle"]

(* spin_lock() is called. *)
SpinLock(c) ==
    /\ pc[c] = "idle"
    /\ Goto(c, "load")
    /\ UNCHANGED <<owner, next, lockval, reserved, event>>

(* 1: ldaxr *)
LoadExclusive(c) ==
    /\ pc[c] = "load"
    /\ lockval' = [lockval EXCEPT ![c] = [owner |-> owner, next |-> next]]
    /\ reserved' = reserved \cup {c}
    /\ Goto(c, "store")
    /\ UNCHANGED <<owner, next, event>>

(* Mutant: a plain store. *)
StoreAlways(c) ==
    /\ pc[c] = "store"
    /\ next' = (lockval[c].next + 1) % Wrap
    /\ EndReservations(c)
    /\ Goto(c, "test")
    /\ UNCHANGED <<owner, lockval>>

(* stxr of the incremented ticket, cbnz 1b *)
StoreExclusive(c) ==
    /\ pc[c] = "store"
    /\ IF c \in reserved
       THEN /\ next' = (lockval[c].next + 1) % Wrap
            /\ EndReservations(c)
            /\ Goto(c, "test")
            /\ UNCHANGED lockval
       ELSE /\ Goto(c, "load")
            /\ lockval' = [lockval EXCEPT ![c] = Dead]
            /\ UNCHANGED <<next, reserved, event>>
    /\ UNCHANGED owner

(* eor of the two halves, cbz 3f, sevl *)
Test(c) ==
    /\ pc[c] = "test"
    /\ IF lockval[c].owner = lockval[c].next
       THEN Goto(c, "critical") /\ UNCHANGED event
       ELSE Goto(c, "wfe") /\ event' = event \cup {c}
    /\ UNCHANGED <<owner, next, lockval, reserved>>

(* 2: wfe *)
WaitForEvent(c) ==
    /\ pc[c] = "wfe" /\ c \in event
    /\ event' = event \ {c}
    /\ Goto(c, "spin")
    /\ UNCHANGED <<owner, next, lockval, reserved>>

(* Mutant: the loop looks at the owner that the first load returned. *)
SpinOnStaleOwner(c) ==
    /\ pc[c] = "spin"
    /\ reserved' = reserved \cup {c}
    /\ Goto(c, IF lockval[c].owner = lockval[c].next THEN "critical" ELSE "spin")
    /\ UNCHANGED <<owner, next, lockval, event>>

(* ldaxrh of the owner, which sets the monitor, cbnz 2b *)
Spin(c) ==
    /\ pc[c] = "spin"
    /\ reserved' = reserved \cup {c}
    /\ Goto(c, IF owner = lockval[c].next THEN "critical" ELSE "wfe")
    /\ UNCHANGED <<owner, next, lockval, event>>

(* Mutant: the carry of owner goes into next. *)
UnlockNoWrap(c) ==
    /\ pc[c] = "critical"
    /\ owner' = owner + 1
    /\ EndReservations(c)
    /\ Goto(c, "idle")
    /\ lockval' = [lockval EXCEPT ![c] = Dead]
    /\ UNCHANGED next

(* spin_unlock(): only the holder writes owner, so that it may load and    *)
(* store it separately.                                                    *)
SpinUnlock(c) ==
    /\ pc[c] = "critical"
    /\ owner' = (owner + 1) % Wrap
    /\ EndReservations(c)
    /\ Goto(c, "idle")
    /\ lockval' = [lockval EXCEPT ![c] = Dead]
    /\ UNCHANGED next

Locking(c) ==
    LoadExclusive(c) \/ StoreExclusive(c) \/ Test(c) \/ WaitForEvent(c) \/ Spin(c)

Next == \E c \in Cpus: SpinLock(c) \/ Locking(c) \/ SpinUnlock(c)

Spec == Init /\ [][Next]_vars

(* CPUs execute their instructions, and no critical section is endless. *)
FairSpec == Spec /\ \A c \in Cpus: WF_vars(Locking(c)) /\ WF_vars(SpinUnlock(c))

-----------------------------------------------------------------------------
(* Types of the two halves and of the registers. *)
TypeOK ==
    /\ owner \in 0..(Wrap - 1) /\ next \in 0..(Wrap - 1)
    /\ lockval \in [Cpus -> [owner: 0..(Wrap - 1), next: 0..(Wrap - 1)]]
    /\ reserved \subseteq Cpus /\ event \subseteq Cpus
    /\ pc \in [Cpus -> Places]

(* CPUs that have a ticket *)
Ticketed == {c \in Cpus: pc[c] \in {"test", "wfe", "spin", "critical"}}

(* The queue that the tickets between owner and next stand for *)
TicketQueue ==
    [i \in 1..((next - owner) % Wrap) |->
       CHOOSE c \in Ticketed: lockval[c].next = (owner + i - 1) % Wrap]

Fifo == INSTANCE FifoLock
          WITH queue <- TicketQueue,
               holders <- {c \in Cpus: pc[c] = "critical"}

(* spin_lock() and spin_unlock() let one CPU at a time in, in the order in *)
(* which they drew their tickets, across the wraparound of the tickets.    *)
ImplementsFifo == Fifo!Spec

(* Every CPU that drew a ticket gets the lock: between its looks at owner  *)
(* it sleeps in wfe, and no unlock may go by unnoticed ("Send a local      *)
(* event to avoid missing an unlock before the exclusive load").           *)
TicketServed == \A c \in Cpus: pc[c] = "test" ~> pc[c] = "critical"
=============================================================================
