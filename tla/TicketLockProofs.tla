-------------------------- MODULE TicketLockProofs --------------------------
(***************************************************************************)
(* Proofs about the ticket lock of ARM64, for any number of CPUs that is   *)
(* less than the number of tickets.                                        *)
(***************************************************************************)
EXTENDS TicketLock, FiniteSetTheorems, SequenceTheorems, TLAPS

(* The prover of the steps that name none. *)
USE ZenonT(60)

-----------------------------------------------------------------------------
(***************************************************************************)
(* Tickets are numbers modulo Wrap.                                        *)
(***************************************************************************)
Tickets == 0 .. Wrap - 1

(* How far the ticket b is behind the ticket a. *)
Behind(a, b) == (b - a) % Wrap

LEMMA WrapType == Wrap \in Nat \ {0} /\ Cardinality(Cpus) \in Nat /\ Cardinality(Cpus) < Wrap
<1>1. Cardinality(Cpus) \in Nat
  BY TicketLockAssumption, FS_CardinalityType DEF TicketLockAssumption
<1> QED
  BY SMT, Z3T(30), <1>1, TicketLockAssumption DEF TicketLockAssumption, Wrap

LEMMA Mod ==
  ASSUME NEW W \in Nat \ {0}, NEW x \in Int, -W <= x, x < 2 * W
  PROVE  x % W = IF x < 0 THEN x + W ELSE IF x < W THEN x ELSE x - W
<1> DEFINE q == x \div W
           r == x % W
<1>1. q \in Int /\ r \in Int /\ x = W * q + r /\ 0 <= r /\ r < W
  BY SMT, Z3T(30)
<1> HIDE DEF q, r
<1>2. q < 2
  BY SMTT(20), Z3T(40), <1>1
<1>3. q >= -1
  BY SMTT(20), Z3T(40), <1>1
<1>4. CASE q = 0
  BY SMT, Z3T(30), <1>1, <1>4 DEF r
<1>5. CASE q = 1
  BY SMT, Z3T(30), <1>1, <1>5 DEF r
<1>6. CASE q = -1
  BY SMT, Z3T(30), <1>1, <1>6 DEF r
<1> QED
  BY SMT, Z3T(30), <1>1, <1>2, <1>3, <1>4, <1>5, <1>6

LEMMA BehindIs ==
  ASSUME NEW a \in Tickets, NEW b \in Tickets
  PROVE  Behind(a, b) = IF a <= b THEN b - a ELSE b - a + Wrap
<1>1. a \in Int /\ b \in Int /\ 0 <= a /\ a < Wrap /\ 0 <= b /\ b < Wrap
  BY SMT, Z3T(30), WrapType DEF Tickets
<1>2. b - a \in Int /\ -Wrap <= b - a /\ b - a < 2 * Wrap
  BY SMT, Z3T(30), <1>1, WrapType
<1>3. (b - a) % Wrap = IF b - a < 0 THEN b - a + Wrap
                       ELSE IF b - a < Wrap THEN b - a ELSE b - a - Wrap
  BY <1>2, Mod, WrapType
<1> QED
  BY SMT, Z3T(30), <1>1, <1>3, WrapType DEF Behind

LEMMA NextTicket ==
  ASSUME NEW a \in Tickets
  PROVE  (a + 1) % Wrap = IF a + 1 = Wrap THEN 0 ELSE a + 1
<1>1. a \in Int /\ 0 <= a /\ a < Wrap
  BY SMT, Z3T(30), WrapType DEF Tickets
<1>2. PICK x \in Int : x = a + 1 /\ -Wrap <= x /\ x < 2 * Wrap
  BY SMT, Z3T(30), <1>1, WrapType
<1>3. x % Wrap = IF x < 0 THEN x + Wrap ELSE IF x < Wrap THEN x ELSE x - Wrap
  BY <1>2, Mod, WrapType
<1> QED
  BY SMT, Z3T(30), <1>1, <1>2, <1>3, WrapType

(* The ticket at place i of the queue. *)
LEMMA TicketAt ==
  ASSUME NEW a \in Tickets, NEW b \in Tickets, NEW i \in 1 .. Wrap
  PROVE  b = (a + i - 1) % Wrap <=> Behind(a, b) = i - 1
<1>1. a \in Int /\ b \in Int /\ 0 <= a /\ a < Wrap /\ 0 <= b /\ b < Wrap
      /\ i \in Int /\ 1 <= i /\ i <= Wrap
  BY SMT, Z3T(30), WrapType DEF Tickets
<1>2. PICK x \in Int : x = a + i - 1 /\ -Wrap <= x /\ x < 2 * Wrap
  BY SMT, Z3T(30), <1>1, WrapType
<1>3. x % Wrap = IF x < 0 THEN x + Wrap ELSE IF x < Wrap THEN x ELSE x - Wrap
  BY <1>2, Mod, WrapType
<1> QED
  BY SMT, Z3T(30), <1>1, <1>2, <1>3, BehindIs, WrapType

Succ(a) == (a + 1) % Wrap

LEMMA BehindFacts ==
  ASSUME NEW a \in Tickets, NEW b \in Tickets
  PROVE  /\ Behind(a, b) \in Tickets /\ Succ(a) \in Tickets
         /\ Behind(a, b) = 0 <=> a = b
         /\ \A d \in Tickets: Behind(a, b) = Behind(a, d) => b = d
         /\ a # b => Behind(Succ(a), b) = Behind(a, b) - 1
         /\ Behind(a, b) + 1 < Wrap => Behind(a, Succ(b)) = Behind(a, b) + 1
<1>1. /\ Succ(a) = IF a + 1 = Wrap THEN 0 ELSE a + 1
      /\ Succ(b) = IF b + 1 = Wrap THEN 0 ELSE b + 1
  BY NextTicket DEF Succ
<1>2. Succ(a) \in Tickets /\ Succ(b) \in Tickets
  BY SMT, Z3T(30), <1>1, WrapType DEF Tickets
<1>3. /\ Behind(a, b) = IF a <= b THEN b - a ELSE b - a + Wrap
      /\ Behind(Succ(a), b) = IF Succ(a) <= b THEN b - Succ(a) ELSE b - Succ(a) + Wrap
      /\ Behind(a, Succ(b)) = IF a <= Succ(b) THEN Succ(b) - a ELSE Succ(b) - a + Wrap
      /\ \A d \in Tickets: Behind(a, d) = IF a <= d THEN d - a ELSE d - a + Wrap
  BY <1>2, BehindIs
<1>4. Behind(a, b) \in Tickets /\ (Behind(a, b) = 0 <=> a = b)
  BY SMT, Z3T(30), <1>3, WrapType DEF Tickets
<1>5. \A d \in Tickets: Behind(a, b) = Behind(a, d) => b = d
  BY SMT, Z3T(30), <1>3, WrapType DEF Tickets
<1>6. a # b => Behind(Succ(a), b) = Behind(a, b) - 1
  BY SMT, Z3T(30), <1>1, <1>3, WrapType DEF Tickets
<1>7. Behind(a, b) + 1 < Wrap => Behind(a, Succ(b)) = Behind(a, b) + 1
  BY SMT, Z3T(30), <1>1, <1>3, WrapType DEF Tickets
<1> QED
  BY <1>2, <1>4, <1>5, <1>6, <1>7

-----------------------------------------------------------------------------
(***************************************************************************)
(* The inductive invariant.  The CPUs with tickets and the places of the   *)
(* queue correspond one to one.                                            *)
(***************************************************************************)
Ticket(c) == lockval[c].next

Length == Behind(owner, next)

(* No ticket is out twice, and tickets are out from owner up to next. *)
QueueInv ==
    /\ \A c, d \in Ticketed: Ticket(c) = Ticket(d) => c = d
    /\ \A c \in Ticketed: Behind(owner, Ticket(c)) < Length
    /\ \A i \in 0 .. Length - 1: \E c \in Ticketed: Behind(owner, Ticket(c)) = i

(* What a CPU knows of the lock at each place. *)
KnowInv ==
    \A c \in Cpus:
      /\ pc[c] = "store" /\ c \in reserved => lockval[c] = [owner |-> owner, next |-> next]
      /\ pc[c] = "test" /\ lockval[c].owner = lockval[c].next => owner = Ticket(c)
      /\ pc[c] = "critical" => owner = Ticket(c)

LockInv == TypeOK /\ QueueInv /\ KnowInv

(* There are fewer tickets out than CPUs, if one of these has none. *)
LEMMA RoomForOne ==
  ASSUME LockInv, NEW c \in Cpus, c \notin Ticketed
  PROVE  Length + 1 < Wrap
<1>1. /\ owner \in Tickets /\ next \in Tickets
      /\ \A d \in Cpus: Ticket(d) \in Tickets
  BY DEF LockInv, TypeOK, Tickets, Ticket
<1>2. Length \in 0 .. Wrap - 1
  BY <1>1, BehindFacts DEF Length, Tickets
<1>3. PICK S : S = Cpus \ {c}
  OBVIOUS
<1>4. IsFiniteSet(S) /\ Cardinality(S) = Cardinality(Cpus) - 1
  BY <1>3, FS_RemoveElement, TicketLockAssumption DEF TicketLockAssumption
<1>5. PICK f : f = [i \in 0 .. Length - 1 |->
                      CHOOSE d \in Ticketed: Behind(owner, Ticket(d)) = i]
  OBVIOUS
<1>6. \A i \in 0 .. Length - 1: f[i] \in Ticketed /\ Behind(owner, Ticket(f[i])) = i
  BY <1>5 DEF LockInv, QueueInv
<1>7. f \in Injection(0 .. Length - 1, S)
  <2>1. f \in [0 .. Length - 1 -> S]
    BY <1>3, <1>5, <1>6 DEF Ticketed
  <2>2. \A i, j \in 0 .. Length - 1: f[i] = f[j] => i = j
    BY <1>6
  <2> QED
    BY <2>1, <2>2 DEF Injection, IsInjective
<1>8. Cardinality(0 .. Length - 1) <= Cardinality(S)
  BY <1>4, <1>7, FS_Injection
<1>9. Cardinality(0 .. Length - 1) = Length
  <2>1. Length - 1 \in Int
    BY SMT, Z3T(30), <1>2
  <2>2. Cardinality(0 .. Length - 1) = IF 0 > Length - 1 THEN 0 ELSE (Length - 1) - 0 + 1
    BY SMT, Z3T(30), <2>1, FS_Interval
  <2> QED
    BY SMT, Z3T(30), <1>2, <2>2
<1> QED
  BY SMT, Z3T(30), <1>2, <1>4, <1>8, <1>9, WrapType

LEMMA LockTypes ==
  ASSUME TypeOK
  PROVE  /\ owner \in Tickets /\ next \in Tickets /\ Length \in Tickets
         /\ \A c \in Cpus: Ticket(c) \in Tickets /\ Behind(owner, Ticket(c)) \in Tickets
<1>1. owner \in Tickets /\ next \in Tickets /\ \A c \in Cpus: Ticket(c) \in Tickets
  BY DEF TypeOK, Tickets, Ticket
<1> QED
  BY <1>1, BehindFacts DEF Length

(* Most steps leave the queue alone. *)
QueueSame ==
    /\ owner' = owner /\ next' = next
    /\ Ticketed' = Ticketed
    /\ \A c \in Ticketed: lockval'[c] = lockval[c]

LEMMA QueueSameKeeps == QueueInv /\ QueueSame => QueueInv'
<1> SUFFICES ASSUME QueueInv, QueueSame PROVE QueueInv'
  OBVIOUS
<1>1. \A c \in Ticketed': c \in Ticketed /\ Ticket(c)' = Ticket(c)
  BY DEF QueueSame, Ticket
<1>2. Length' = Length /\ owner' = owner
  BY DEF QueueSame, Length, Behind
<1>3. \A c \in Ticketed': Behind(owner, Ticket(c))' = Behind(owner, Ticket(c))
  BY <1>1, <1>2 DEF Behind
<1>4. \A c, d \in Ticketed': Ticket(c)' = Ticket(d)' => c = d
  BY <1>1 DEF QueueInv
<1>5. \A c \in Ticketed': Behind(owner, Ticket(c))' < Length'
  BY <1>1, <1>2, <1>3 DEF QueueInv
<1>6. ASSUME NEW i \in 0 .. Length' - 1
      PROVE  \E c \in Ticketed': Behind(owner, Ticket(c))' = i
  <2>1. PICK c \in Ticketed: Behind(owner, Ticket(c)) = i
    BY <1>2, <1>6 DEF QueueInv
  <2>2. c \in Ticketed'
    BY DEF QueueSame
  <2> QED
    BY <1>3, <2>1, <2>2
<1> QED
  BY <1>4, <1>5, <1>6 DEF QueueInv

LEMMA InvInit == Init => LockInv
<1> SUFFICES ASSUME Init PROVE LockInv
  OBVIOUS
<1>0. 0 \in Tickets
  BY SMT, Z3T(30), WrapType DEF Tickets
<1>1. TypeOK
  BY <1>0 DEF Init, TypeOK, Dead, Places, Tickets
<1>2. Ticketed = {} /\ Length = 0
  BY <1>0, BehindFacts DEF Init, Ticketed, Length
<1>3. 0 .. Length - 1 = {}
  BY SMT, Z3T(30), <1>2
<1>4. QueueInv
  BY <1>2, <1>3 DEF QueueInv
<1>5. KnowInv
  BY DEF Init, KnowInv
<1> QED
  BY <1>1, <1>4, <1>5 DEF LockInv

-----------------------------------------------------------------------------
(***************************************************************************)
(* The three steps that change the queue or its holder: a CPU draws a      *)
(* ticket, enters and leaves.                                              *)
(***************************************************************************)
Draws(c) ==
    /\ pc[c] = "store" /\ c \notin Ticketed
    /\ lockval[c] = [owner |-> owner, next |-> next] /\ Ticket(c) = next
    /\ next' = Succ(next) /\ owner' = owner /\ lockval' = lockval
    /\ reserved' = {} /\ pc' = [pc EXCEPT ![c] = "test"]
    /\ Ticketed' = Ticketed \cup {c}

Enters(c) ==
    /\ pc[c] \in {"test", "spin"} /\ c \in Ticketed
    /\ Ticket(c) = owner
    /\ next' = next /\ owner' = owner /\ lockval' = lockval
    /\ pc' = [pc EXCEPT ![c] = "critical"] /\ reserved' \subseteq reserved \cup {c}
    /\ Ticketed' = Ticketed

Leaves(c) ==
    /\ pc[c] = "critical" /\ c \in Ticketed
    /\ Ticket(c) = owner
    /\ next' = next /\ owner' = Succ(owner)
    /\ reserved' = {} /\ pc' = [pc EXCEPT ![c] = "idle"]
    /\ Ticketed' = Ticketed \ {c}
    /\ \A d \in Cpus \ {c}: lockval'[d] = lockval[d]

(* Any other step of c: it goes to another place outside the critical      *)
(* section.                                                                *)
Goes(c) ==
    /\ QueueSame
    /\ \A d \in Cpus \ {c}: pc'[d] = pc[d] /\ lockval'[d] = lockval[d]
                            /\ (d \in reserved' => d \in reserved)
    /\ pc[c] # "critical" /\ pc'[c] \notin {"test", "critical"}
    /\ pc'[c] = "store" => lockval'[c] = [owner |-> owner, next |-> next]

LEMMA StepKinds ==
  ASSUME LockInv, NEW c \in Cpus, SpinLock(c) \/ Locking(c) \/ SpinUnlock(c)
  PROVE  Draws(c) \/ Enters(c) \/ Leaves(c) \/ Goes(c)
<1> USE DEF LockInv, TypeOK
<1>1. CASE SpinLock(c)
  <2>1. /\ pc[c] = "idle" /\ pc' = [pc EXCEPT ![c] = "load"]
        /\ UNCHANGED <<owner, next, lockval, reserved, event>>
    BY <1>1 DEF SpinLock, Goto
  <2>2. Ticketed' = Ticketed
    BY <2>1 DEF Ticketed
  <2> QED
    BY <2>1, <2>2 DEF Goes, QueueSame
<1>2. CASE LoadExclusive(c)
  <2>1. /\ pc[c] = "load" /\ pc' = [pc EXCEPT ![c] = "store"]
        /\ lockval' = [lockval EXCEPT ![c] = [owner |-> owner, next |-> next]]
        /\ reserved' = reserved \cup {c}
        /\ UNCHANGED <<owner, next, event>>
    BY <1>2 DEF LoadExclusive, Goto
  <2>2. Ticketed' = Ticketed /\ c \notin Ticketed
    BY <2>1 DEF Ticketed
  <2>3. \A d \in Ticketed: d \in Cpus
    BY DEF Ticketed
  <2> QED
    BY <2>1, <2>2, <2>3 DEF Goes, QueueSame
<1>3. CASE StoreExclusive(c)
  <2>1. CASE c \in reserved
    <3>1. /\ pc[c] = "store" /\ pc' = [pc EXCEPT ![c] = "test"]
          /\ next' = (lockval[c].next + 1) % Wrap
          /\ reserved' = {} /\ lockval' = lockval /\ owner' = owner
      BY <1>3, <2>1 DEF StoreExclusive, Goto, EndReservations
    <3>2. lockval[c] = [owner |-> owner, next |-> next] /\ Ticket(c) = next
      <4>1. lockval[c] = [owner |-> owner, next |-> next]
        BY <2>1, <3>1 DEF KnowInv
      <4> QED
        BY SMT, Z3T(30), <4>1 DEF Ticket
    <3>3. Ticketed' = Ticketed \cup {c} /\ c \notin Ticketed
      BY <3>1 DEF Ticketed
    <3> QED
      BY <3>1, <3>2, <3>3 DEF Draws, Succ, Ticket
  <2>2. CASE c \notin reserved
    <3>1. /\ pc[c] = "store" /\ pc' = [pc EXCEPT ![c] = "load"]
          /\ lockval' = [lockval EXCEPT ![c] = Dead]
          /\ UNCHANGED <<owner, next, reserved, event>>
      BY <1>3, <2>2 DEF StoreExclusive, Goto
    <3>2. Ticketed' = Ticketed /\ c \notin Ticketed
      BY <3>1 DEF Ticketed
    <3>3. \A d \in Ticketed: d \in Cpus
      BY DEF Ticketed
    <3> QED
      BY <3>1, <3>2, <3>3 DEF Goes, QueueSame
  <2> QED
    BY <2>1, <2>2
<1>4. CASE Test(c)
  <2>1. CASE lockval[c].owner = lockval[c].next
    <3>1. /\ pc[c] = "test" /\ pc' = [pc EXCEPT ![c] = "critical"]
          /\ UNCHANGED <<owner, next, lockval, reserved>>
      BY <1>4, <2>1 DEF Test, Goto
    <3>2. Ticketed' = Ticketed /\ c \in Ticketed
      BY <3>1 DEF Ticketed
    <3> QED
      BY <2>1, <3>1, <3>2 DEF Enters, KnowInv
  <2>2. CASE lockval[c].owner # lockval[c].next
    <3>1. /\ pc[c] = "test" /\ pc' = [pc EXCEPT ![c] = "wfe"]
          /\ UNCHANGED <<owner, next, lockval, reserved>>
      BY <1>4, <2>2 DEF Test, Goto
    <3>2. Ticketed' = Ticketed
      BY <3>1 DEF Ticketed
    <3> QED
      BY <3>1, <3>2 DEF Goes, QueueSame
  <2> QED
    BY <2>1, <2>2
<1>5. CASE WaitForEvent(c)
  <2>1. /\ pc[c] = "wfe" /\ pc' = [pc EXCEPT ![c] = "spin"]
        /\ UNCHANGED <<owner, next, lockval, reserved>>
    BY <1>5 DEF WaitForEvent, Goto
  <2>2. Ticketed' = Ticketed
    BY <2>1 DEF Ticketed
  <2> QED
    BY <2>1, <2>2 DEF Goes, QueueSame
<1>6. CASE Spin(c)
  <2>1. /\ pc[c] = "spin" /\ reserved' = reserved \cup {c}
        /\ UNCHANGED <<owner, next, lockval>>
        /\ pc' = [pc EXCEPT ![c] = IF owner = lockval[c].next THEN "critical" ELSE "wfe"]
    BY <1>6 DEF Spin, Goto
  <2>2. Ticketed' = Ticketed /\ c \in Ticketed
    BY <2>1 DEF Ticketed
  <2>3. CASE owner = lockval[c].next
    BY <2>1, <2>2, <2>3 DEF Enters, Ticket
  <2>4. CASE owner # lockval[c].next
    BY <2>1, <2>2, <2>4 DEF Goes, QueueSame
  <2> QED
    BY <2>3, <2>4
<1>7. CASE SpinUnlock(c)
  <2>1. /\ pc[c] = "critical" /\ pc' = [pc EXCEPT ![c] = "idle"]
        /\ owner' = (owner + 1) % Wrap /\ next' = next /\ reserved' = {}
        /\ lockval' = [lockval EXCEPT ![c] = Dead]
    BY <1>7 DEF SpinUnlock, Goto, EndReservations
  <2>2. Ticketed' = Ticketed \ {c} /\ c \in Ticketed
    BY <2>1 DEF Ticketed
  <2> QED
    BY <2>1, <2>2 DEF Leaves, KnowInv, Succ
<1> QED
  BY <1>1, <1>2, <1>3, <1>4, <1>5, <1>6, <1>7 DEF Locking

LEMMA TypeStep == TypeOK /\ [Next]_vars => TypeOK'
<1> SUFFICES ASSUME TypeOK, NEW c \in Cpus, SpinLock(c) \/ Locking(c) \/ SpinUnlock(c)
             PROVE  TypeOK'
  BY DEF Next, TypeOK, vars
<1>1. /\ Dead \in [owner: Tickets, next: Tickets]
      /\ [owner |-> owner, next |-> next] \in [owner: Tickets, next: Tickets]
  <2>1. 0 \in Tickets
    BY SMT, Z3T(30), WrapType DEF Tickets
  <2> QED
    BY <2>1 DEF TypeOK, Dead, Tickets
<1>2. /\ [lockval EXCEPT ![c] = Dead] \in [Cpus -> [owner: Tickets, next: Tickets]]
      /\ [lockval EXCEPT ![c] = [owner |-> owner, next |-> next]]
           \in [Cpus -> [owner: Tickets, next: Tickets]]
  BY <1>1 DEF TypeOK, Tickets
<1>3. (owner + 1) % Wrap \in Tickets /\ (lockval[c].next + 1) % Wrap \in Tickets
  BY LockTypes, BehindFacts DEF Succ, Ticket
<1>4. SpinLock(c) => TypeOK'
  BY DEF SpinLock, Goto, TypeOK, Places
<1>5. LoadExclusive(c) => TypeOK'
  BY <1>2 DEF LoadExclusive, Goto, TypeOK, Places, Tickets
<1>6. StoreExclusive(c) => TypeOK'
  BY <1>2, <1>3 DEF StoreExclusive, Goto, EndReservations, TypeOK, Places, Tickets
<1>7. Test(c) \/ WaitForEvent(c) \/ Spin(c) => TypeOK'
  BY DEF Test, WaitForEvent, Spin, Goto, TypeOK, Places
<1>8. SpinUnlock(c) => TypeOK'
  BY <1>2, <1>3 DEF SpinUnlock, Goto, EndReservations, TypeOK, Places, Tickets
<1> QED
  BY <1>4, <1>5, <1>6, <1>7, <1>8 DEF Locking

(* A ticket is drawn: the queue is one longer, and its last place is that  *)
(* of c.                                                                   *)
LEMMA DrawsEffect ==
  ASSUME LockInv, NEW c \in Cpus, Draws(c)
  PROVE  /\ Length' = Length + 1
         /\ \A d \in Ticketed: Behind(owner, Ticket(d))' = Behind(owner, Ticket(d))
         /\ Behind(owner, Ticket(c))' = Length
<1>1. TypeOK /\ owner \in Tickets /\ next \in Tickets
  BY LockTypes DEF LockInv
<1>2. Length + 1 < Wrap
  BY RoomForOne DEF Draws
<1>3. Behind(owner, Succ(next)) = Length + 1
  BY <1>1, <1>2, BehindFacts DEF Length
<1> QED
  BY <1>3 DEF Draws, Length, Behind, Ticket

LEMMA DrawsKeeps ==
  ASSUME LockInv, NEW c \in Cpus, Draws(c)
  PROVE  QueueInv' /\ KnowInv'
<1>1. /\ TypeOK /\ owner \in Tickets /\ next \in Tickets /\ Length \in Tickets
      /\ \A d \in Cpus: Ticket(d) \in Tickets /\ Behind(owner, Ticket(d)) \in Tickets
  BY LockTypes DEF LockInv
<1>2. Ticketed' = Ticketed \cup {c} /\ \A d \in Cpus: Ticket(d)' = Ticket(d)
  BY DEF Draws, Ticket
<1>3. \A d \in Ticketed: d \in Cpus /\ Ticket(d) # Ticket(c)
  <2>1. ASSUME NEW d \in Ticketed, Ticket(d) = Ticket(c) PROVE FALSE
    <3>1. Behind(owner, Ticket(d)) = Length
      BY <2>1 DEF Draws, Length
    <3>2. Behind(owner, Ticket(d)) < Length
      BY DEF LockInv, QueueInv
    <3> QED
      BY SMT, Z3T(30), <1>1, <3>1, <3>2, WrapType DEF Tickets
  <2> QED
    BY <2>1 DEF Ticketed
<1>4. \A d, e \in Ticketed': Ticket(d)' = Ticket(e)' => d = e
  <2> SUFFICES ASSUME NEW d \in Ticketed', NEW e \in Ticketed', Ticket(d)' = Ticket(e)'
               PROVE  d = e
    OBVIOUS
  <2>1. d \in Ticketed \cup {c} /\ e \in Ticketed \cup {c} /\ Ticket(d) = Ticket(e)
    BY <1>2, <1>3
  <2> QED
    BY <1>3, <2>1 DEF LockInv, QueueInv
<1>5. \A d \in Ticketed': Behind(owner, Ticket(d))' < Length'
  <2>1. ASSUME NEW d \in Ticketed PROVE Behind(owner, Ticket(d))' < Length'
    <3>1. /\ Behind(owner, Ticket(d))' = Behind(owner, Ticket(d)) /\ Length' = Length + 1
          /\ Behind(owner, Ticket(d)) < Length /\ Behind(owner, Ticket(d)) \in Tickets
      BY <1>1, <1>3, DrawsEffect DEF LockInv, QueueInv
    <3> QED
      BY SMT, Z3T(30), <1>1, <3>1, WrapType DEF Tickets
  <2>2. Behind(owner, Ticket(c))' < Length'
    <3>1. Behind(owner, Ticket(c))' = Length /\ Length' = Length + 1
      BY DrawsEffect
    <3> QED
      BY SMT, Z3T(30), <1>1, <3>1, WrapType DEF Tickets
  <2> QED
    BY <1>2, <2>1, <2>2
<1>6. ASSUME NEW i \in 0 .. Length' - 1
      PROVE  \E d \in Ticketed': Behind(owner, Ticket(d))' = i
  <2>1. i \in 0 .. Length - 1 \/ i = Length
    <3>1. Length' = Length + 1
      BY DrawsEffect
    <3> QED
      BY SMT, Z3T(30), <1>1, <1>6, <3>1, WrapType DEF Tickets
  <2>2. CASE i \in 0 .. Length - 1
    BY <1>2, <2>2, DrawsEffect DEF LockInv, QueueInv
  <2>3. CASE i = Length
    BY <1>2, <2>3, DrawsEffect
  <2> QED
    BY <2>1, <2>2, <2>3
<1>7. KnowInv'
  <2>1. \A d \in Cpus: d # c => pc'[d] = pc[d]
    BY DEF Draws, LockInv, TypeOK
  <2>2. pc'[c] = "test" /\ pc[c] = "store"
    BY <1>1 DEF Draws, TypeOK
  <2>3. lockval[c].owner = lockval[c].next => owner = Ticket(c)
    BY SMT, Z3T(30) DEF Draws, Ticket
  <2> QED
    BY <1>2, <2>1, <2>2, <2>3 DEF KnowInv, Draws, LockInv
<1> QED
  BY <1>4, <1>5, <1>6, <1>7 DEF QueueInv

LEMMA EntersKeeps ==
  ASSUME LockInv, NEW c \in Cpus, Enters(c)
  PROVE  QueueInv' /\ KnowInv'
<1>1. QueueInv'
  BY QueueSameKeeps DEF LockInv, Enters, QueueSame
<1>2. \A d \in Cpus: /\ d # c => pc'[d] = pc[d]
                     /\ Ticket(d)' = Ticket(d) /\ lockval'[d] = lockval[d]
  BY DEF LockInv, TypeOK, Enters, Ticket
<1>3. pc'[c] = "critical" /\ Ticket(c) = owner /\ owner' = owner /\ next' = next
  BY DEF LockInv, TypeOK, Enters
<1>4. \A d \in Cpus: d # c => (d \in reserved' => d \in reserved)
  BY DEF Enters
<1> QED
  BY <1>1, <1>2, <1>3, <1>4 DEF KnowInv, LockInv

(* The ticket at the head of the queue is given back: all others move up.  *)
LEMMA LeavesEffect ==
  ASSUME LockInv, NEW c \in Cpus, Leaves(c)
  PROVE  /\ Length' = Length - 1 /\ Length - 1 \in Nat
         /\ \A d \in Ticketed \ {c}:
              /\ d \in Cpus /\ Ticket(d)' = Ticket(d) /\ Ticket(d) # owner
              /\ Behind(owner, Ticket(d))' = Behind(owner, Ticket(d)) - 1
<1>1. /\ TypeOK /\ owner \in Tickets /\ next \in Tickets /\ Length \in Tickets
      /\ \A d \in Cpus: Ticket(d) \in Tickets
  BY LockTypes DEF LockInv
<1>2. ASSUME NEW d \in Ticketed \ {c}
      PROVE  /\ d \in Cpus /\ Ticket(d)' = Ticket(d) /\ Ticket(d) # owner
             /\ Behind(owner, Ticket(d))' = Behind(owner, Ticket(d)) - 1
  <2>1. d \in Cpus /\ Ticket(d)' = Ticket(d)
    BY DEF Leaves, Ticketed, Ticket
  <2>2. Ticket(d) # owner
    BY DEF Leaves, LockInv, QueueInv
  <2>3. Behind(Succ(owner), Ticket(d)) = Behind(owner, Ticket(d)) - 1
    BY <1>1, <2>1, <2>2, BehindFacts
  <2> QED
    BY <2>1, <2>2, <2>3 DEF Leaves, Behind
<1>3. 0 < Length
  <2>1. Behind(owner, Ticket(c)) = 0
    BY <1>1, BehindFacts DEF Leaves
  <2>2. Behind(owner, Ticket(c)) < Length
    BY DEF Leaves, LockInv, QueueInv
  <2> QED
    BY <2>1, <2>2
<1>4. owner # next
  <2>1. Length # 0
    BY SMT, Z3T(30), <1>1, <1>3, WrapType DEF Tickets
  <2> QED
    BY <1>1, <2>1, BehindFacts DEF Length
<1>5. Length' = Length - 1
  <2>1. Behind(Succ(owner), next) = Behind(owner, next) - 1
    BY <1>1, <1>4, BehindFacts
  <2> QED
    BY <2>1 DEF Leaves, Length, Behind
<1>6. Length - 1 \in Nat
  BY SMT, Z3T(30), <1>1, <1>3, WrapType DEF Tickets
<1> QED
  BY <1>2, <1>5, <1>6

LEMMA LeavesKeeps ==
  ASSUME LockInv, NEW c \in Cpus, Leaves(c)
  PROVE  QueueInv' /\ KnowInv'
<1>1. /\ TypeOK /\ owner \in Tickets /\ Length \in Tickets
      /\ \A d \in Cpus: Ticket(d) \in Tickets /\ Behind(owner, Ticket(d)) \in Tickets
  BY LockTypes DEF LockInv
<1>2. Ticketed' = Ticketed \ {c}
  BY DEF Leaves
<1>3. /\ Length' = Length - 1
      /\ \A d \in Ticketed \ {c}:
           /\ d \in Cpus /\ Ticket(d)' = Ticket(d) /\ Ticket(d) # owner
           /\ Behind(owner, Ticket(d))' = Behind(owner, Ticket(d)) - 1
  BY LeavesEffect
<1>4. \A d, e \in Ticketed': Ticket(d)' = Ticket(e)' => d = e
  <2> SUFFICES ASSUME NEW d \in Ticketed', NEW e \in Ticketed', Ticket(d)' = Ticket(e)'
               PROVE  d = e
    OBVIOUS
  <2>1. d \in Ticketed /\ e \in Ticketed /\ Ticket(d) = Ticket(e)
    BY <1>2, <1>3
  <2> QED
    BY <2>1 DEF LockInv, QueueInv
<1>5. ASSUME NEW d \in Ticketed' PROVE Behind(owner, Ticket(d))' < Length'
  <2>1. /\ Behind(owner, Ticket(d)) < Length /\ Behind(owner, Ticket(d)) \in Tickets
        /\ Behind(owner, Ticket(d))' = Behind(owner, Ticket(d)) - 1
    BY <1>1, <1>2, <1>3, <1>5 DEF LockInv, QueueInv
  <2> QED
    BY SMT, Z3T(30), <1>1, <1>3, <2>1, WrapType DEF Tickets
<1>6. ASSUME NEW i \in 0 .. Length' - 1
      PROVE  \E d \in Ticketed': Behind(owner, Ticket(d))' = i
  <2>1. i + 1 \in 0 .. Length - 1 /\ i + 1 # 0 /\ (i + 1) - 1 = i
    BY SMT, Z3T(30), <1>1, <1>3, <1>6, WrapType DEF Tickets
  <2>2. PICK d \in Ticketed: Behind(owner, Ticket(d)) = i + 1
    BY <2>1 DEF LockInv, QueueInv
  <2>3. d # c
    BY <1>1, <2>1, <2>2, BehindFacts DEF Leaves
  <2> QED
    BY <1>2, <1>3, <2>1, <2>2, <2>3
<1>7. KnowInv'
  <2>1. \A d \in Cpus: d # c => pc'[d] = pc[d] /\ lockval'[d] = lockval[d]
    BY DEF Leaves, LockInv, TypeOK
  <2>2. pc'[c] = "idle" /\ reserved' = {}
    BY <1>1 DEF Leaves, TypeOK
  <2>3. ASSUME NEW d \in Cpus, d # c, Ticket(d) = owner,
               pc[d] = "critical" \/ pc[d] = "test"
        PROVE  FALSE
    <3>1. d \in Ticketed
      BY <2>3 DEF Ticketed
    <3> QED
      BY <1>3, <2>3, <3>1
  <2> QED
    BY <2>1, <2>2, <2>3 DEF KnowInv, LockInv
<1> QED
  BY <1>4, <1>5, <1>6, <1>7 DEF QueueInv

LEMMA GoesKeeps ==
  ASSUME LockInv, NEW c \in Cpus, Goes(c)
  PROVE  QueueInv' /\ KnowInv'
<1>1. QueueInv'
  BY QueueSameKeeps DEF LockInv, Goes
<1>2. owner' = owner /\ next' = next
  BY DEF Goes, QueueSame
<1>3. \A d \in Cpus \ {c}: Ticket(d)' = Ticket(d)
  BY DEF Goes, Ticket
<1> QED
  BY <1>1, <1>2, <1>3 DEF KnowInv, LockInv, Goes

LEMMA InvStep == LockInv /\ [Next]_vars => LockInv'
<1> SUFFICES ASSUME LockInv, [Next]_vars PROVE QueueInv' /\ KnowInv'
  BY TypeStep DEF LockInv
<1>1. CASE UNCHANGED vars
  <2>1. QueueSame
    BY <1>1 DEF vars, QueueSame, Ticketed
  <2> QED
    BY <1>1, <2>1, QueueSameKeeps DEF vars, LockInv, KnowInv, Ticket
<1>2. ASSUME NEW c \in Cpus, SpinLock(c) \/ Locking(c) \/ SpinUnlock(c)
      PROVE  QueueInv' /\ KnowInv'
  BY <1>2, StepKinds, DrawsKeeps, EntersKeeps, LeavesKeeps, GoesKeeps
<1> QED
  BY <1>1, <1>2 DEF Next

LEMMA LockInvariant == Spec => []LockInv
  BY InvInit, InvStep, PTL DEF Spec

-----------------------------------------------------------------------------
(***************************************************************************)
(* The refinement.  In a state of the invariant, the CHOOSE of TicketQueue *)
(* has exactly one CPU to choose.                                          *)
(***************************************************************************)
QueueIs ==
    /\ Length \in Nat
    /\ TicketQueue \in Seq(Cpus) /\ Len(TicketQueue) = Length
    /\ \A i \in 1 .. Length: TicketQueue[i] \in Ticketed
    /\ \A i \in 1 .. Length, c \in Ticketed:
         TicketQueue[i] = c <=> Behind(owner, Ticket(c)) = i - 1

LEMMA QueueAt == LockInv => QueueIs
<1> SUFFICES ASSUME LockInv PROVE QueueIs
  OBVIOUS
<1>1. /\ owner \in Tickets /\ Length \in Tickets
      /\ \A c \in Cpus: Ticket(c) \in Tickets
  BY LockTypes DEF LockInv
<1>2. Length \in Nat /\ 1 .. Length \subseteq 1 .. Wrap
  BY SMT, Z3T(30), <1>1, WrapType DEF Tickets
<1>3. TicketQueue = [i \in 1 .. Length |->
                       CHOOSE c \in Ticketed: Ticket(c) = (owner + i - 1) % Wrap]
  BY DEF TicketQueue, Length, Behind, Ticket
<1>4. ASSUME NEW i \in 1 .. Length
      PROVE  /\ TicketQueue[i] \in Ticketed
             /\ \A c \in Ticketed: TicketQueue[i] = c <=> Behind(owner, Ticket(c)) = i - 1
  <2>1. i \in 1 .. Wrap
    BY <1>2
  <2>2. \A c \in Ticketed: Ticket(c) = (owner + i - 1) % Wrap <=>
                           Behind(owner, Ticket(c)) = i - 1
    BY <1>1, <2>1, TicketAt DEF Ticketed
  <2>3. i - 1 \in 0 .. Length - 1
    BY SMT, Z3T(30), <1>2
  <2>4. PICK c \in Ticketed: Behind(owner, Ticket(c)) = i - 1
    BY <2>3 DEF LockInv, QueueInv
  <2>5. Ticket(c) = (owner + i - 1) % Wrap
    BY <2>2, <2>4
  <2>6. \A d \in Ticketed: Ticket(d) = (owner + i - 1) % Wrap => d = c
    BY <2>5 DEF LockInv, QueueInv
  <2>7. TicketQueue[i] = c
    BY <1>3, <2>5, <2>6
  <2> QED
    BY <2>2, <2>4, <2>6, <2>7
<1>5. TicketQueue \in Seq(Cpus) /\ Len(TicketQueue) = Length
  <2>1. TicketQueue \in [1 .. Length -> Cpus]
    BY <1>3, <1>4 DEF Ticketed
  <2> QED
    BY SMT, Z3T(30), <1>2, <2>1
<1> QED
  BY <1>2, <1>4, <1>5 DEF QueueIs

LEMMA QueueAtNext == LockInv' => QueueIs'
  BY QueueAt, PTL

LEMMA SeqIs ==
  ASSUME NEW S, NEW s \in Seq(S), NEW t \in Seq(S), NEW n,
         Len(s) = n, Len(t) = n, \A i \in 1 .. n : s[i] = t[i]
  PROVE  s = t
  BY SeqEqual

LEMMA QueueSameIs ==
  ASSUME LockInv, LockInv', QueueSame
  PROVE  TicketQueue' = TicketQueue
<1>1. QueueIs /\ QueueIs'
  BY QueueAt, QueueAtNext
<1>2. Length' = Length /\ Ticketed' = Ticketed
  BY DEF QueueSame, Length, Behind
<1>3. \A c \in Ticketed: Behind(owner, Ticket(c))' = Behind(owner, Ticket(c))
  BY DEF QueueSame, Behind, Ticket
<1>4. ASSUME NEW i \in 1 .. Length PROVE TicketQueue'[i] = TicketQueue[i]
  <2>1. PICK c \in Ticketed: TicketQueue[i] = c
    BY <1>1, <1>4 DEF QueueIs
  <2>2. Behind(owner, Ticket(c))' = i - 1
    BY <1>1, <1>3, <1>4, <2>1 DEF QueueIs
  <2> QED
    BY <1>1, <1>2, <1>4, <2>1, <2>2 DEF QueueIs
<1>5. /\ TicketQueue \in Seq(Cpus) /\ Len(TicketQueue) = Length
      /\ TicketQueue' \in Seq(Cpus) /\ Len(TicketQueue') = Length
  BY <1>1, <1>2 DEF QueueIs
<1>6. PICK q, n : q = TicketQueue' /\ n = Length
  OBVIOUS
<1>7. q \in Seq(Cpus) /\ Len(q) = n /\ \A i \in 1 .. n: q[i] = TicketQueue[i]
  BY <1>4, <1>5, <1>6
<1>8. TicketQueue \in Seq(Cpus) /\ Len(TicketQueue) = n
  BY <1>5, <1>6
<1>9. q = TicketQueue
  <2>1. Len(q) = Len(TicketQueue) /\ \A i \in 1 .. Len(q): q[i] = TicketQueue[i]
    BY <1>7, <1>8
  <2>2. q \in Seq(Cpus) /\ TicketQueue \in Seq(Cpus)
    BY <1>7, <1>8
  <2> QED
    BY <2>1, <2>2, SeqEqual
<1> QED
  BY <1>6, <1>9

Holders == {c \in Cpus: pc[c] = "critical"}

LEMMA DrawsArrives ==
  ASSUME LockInv, LockInv', NEW c \in Cpus, Draws(c)
  PROVE  Fifo!Arrive(c)
<1>1. QueueIs /\ QueueIs'
  BY QueueAt, QueueAtNext
<1>2. /\ Length' = Length + 1 /\ Length \in Nat
      /\ \A d \in Ticketed: Behind(owner, Ticket(d))' = Behind(owner, Ticket(d))
      /\ Behind(owner, Ticket(c))' = Length
      /\ Ticketed' = Ticketed \cup {c} /\ c \notin Ticketed
  BY <1>1, DrawsEffect DEF Draws, QueueIs
<1>3. \A i \in DOMAIN TicketQueue: TicketQueue[i] # c
  <2>1. DOMAIN TicketQueue = 1 .. Length
    BY <1>1, LenProperties DEF QueueIs
  <2> QED
    BY <1>1, <1>2, <2>1 DEF QueueIs
<1>4. PICK q : q = Append(TicketQueue, c)
  OBVIOUS
<1>5. /\ q \in Seq(Cpus) /\ Len(q) = Length + 1
      /\ \A i \in 1 .. Length: q[i] = TicketQueue[i]
      /\ q[Length + 1] = c
  <2>1. TicketQueue \in Seq(Cpus) /\ Len(TicketQueue) = Length
    BY <1>1 DEF QueueIs
  <2>2. /\ q \in Seq(Cpus) /\ Len(q) = Len(TicketQueue) + 1
        /\ \A i \in 1 .. Len(TicketQueue): q[i] = TicketQueue[i]
        /\ q[Len(TicketQueue) + 1] = c
    BY <1>4, <2>1, AppendProperties
  <2> QED
    BY <2>1, <2>2
<1>6. ASSUME NEW i \in 1 .. Length + 1 PROVE TicketQueue'[i] = q[i]
  <2>1. i \in 1 .. Length \/ i = Length + 1
    BY SMT, Z3T(30), <1>2, <1>6
  <2>2. CASE i \in 1 .. Length
    <3>1. q[i] \in Ticketed /\ Behind(owner, Ticket(q[i])) = i - 1
      BY <1>1, <1>5, <2>2 DEF QueueIs
    <3>2. q[i] \in Ticketed' /\ Behind(owner, Ticket(q[i]))' = i - 1
      BY <1>2, <3>1
    <3> QED
      BY <1>1, <1>2, <1>6, <3>2 DEF QueueIs
  <2>3. CASE i = Length + 1
    <3>1. i - 1 = Length
      BY SMT, Z3T(30), <1>2, <2>3
    <3>2. c \in Ticketed' /\ Behind(owner, Ticket(c))' = i - 1
      BY <1>2, <3>1
    <3> QED
      BY <1>1, <1>2, <1>5, <1>6, <2>3, <3>2 DEF QueueIs
  <2> QED
    BY <2>1, <2>2, <2>3
<1>7. TicketQueue' = q
  <2>1. TicketQueue' \in Seq(Cpus) /\ Len(TicketQueue') = Length + 1
    BY <1>1, <1>2 DEF QueueIs
  <2> QED
    BY <1>5, <1>6, <2>1, SeqIs
<1>8. Holders' = Holders
  <2>1. \A d \in Cpus: pc'[d] = "critical" <=> pc[d] = "critical"
    BY DEF Draws, LockInv, TypeOK
  <2> QED
    BY <2>1 DEF Holders
<1> QED
  BY <1>3, <1>4, <1>7, <1>8 DEF Fifo!Arrive, Holders

(* The first of the queue is the CPU whose ticket is owner. *)
LEMMA HeadIs ==
  ASSUME LockInv, NEW c \in Ticketed, Ticket(c) = owner
  PROVE  TicketQueue # << >> /\ Head(TicketQueue) = c /\ 1 \in 1 .. Length
<1>1. QueueIs
  BY QueueAt
<1>2. owner \in Tickets /\ Length \in Tickets
  BY LockTypes DEF LockInv
<1>3. Behind(owner, Ticket(c)) = 0
  BY <1>2, BehindFacts
<1>4. Behind(owner, Ticket(c)) < Length
  BY DEF LockInv, QueueInv
<1>5. 1 \in 1 .. Length
  BY SMT, Z3T(30), <1>1, <1>3, <1>4 DEF QueueIs
<1>6. TicketQueue[1] = c
  BY SMT, Z3T(30), <1>1, <1>3, <1>5 DEF QueueIs
<1> QED
  BY SMT, Z3T(30), <1>1, <1>5, <1>6 DEF QueueIs

LEMMA EntersEnters ==
  ASSUME LockInv, LockInv', NEW c \in Cpus, Enters(c)
  PROVE  Fifo!Enter
<1>1. TicketQueue # << >> /\ Head(TicketQueue) = c
  BY HeadIs DEF Enters
<1>2. TicketQueue' = TicketQueue
  BY QueueSameIs DEF Enters, QueueSame
<1>3. ASSUME NEW d \in Cpus, pc[d] = "critical" PROVE FALSE
  <2>1. d \in Ticketed /\ Ticket(d) = owner
    BY <1>3 DEF Ticketed, LockInv, KnowInv
  <2>2. d = c
    BY <2>1 DEF LockInv, QueueInv, Enters
  <2> QED
    BY <1>3, <2>2 DEF Enters
<1>4. Holders = {} /\ Holders' = {c}
  <2>1. \A d \in Cpus: pc'[d] = "critical" <=> d = c
    BY <1>3 DEF Enters, LockInv, TypeOK
  <2> QED
    BY <1>3, <2>1 DEF Holders
<1> QED
  BY <1>1, <1>2, <1>4 DEF Fifo!Enter, Holders

LEMMA LeavesLeaves ==
  ASSUME LockInv, LockInv', NEW c \in Cpus, Leaves(c)
  PROVE  Fifo!Leave
<1>1. QueueIs /\ QueueIs'
  BY QueueAt, QueueAtNext
<1>2. /\ Length' = Length - 1 /\ Length - 1 \in Nat /\ Length \in Nat
      /\ Ticketed' = Ticketed \ {c}
      /\ \A d \in Ticketed \ {c}: Behind(owner, Ticket(d))' = Behind(owner, Ticket(d)) - 1
  BY <1>1, LeavesEffect DEF Leaves, QueueIs
<1>3. TicketQueue # << >> /\ Head(TicketQueue) = c
  BY HeadIs DEF Leaves
<1>4. PICK q : q = Tail(TicketQueue)
  OBVIOUS
<1>5. /\ q \in Seq(Cpus) /\ Len(q) = Length - 1
      /\ \A i \in 1 .. Length - 1: q[i] = TicketQueue[i + 1]
  <2>1. TicketQueue \in Seq(Cpus) /\ Len(TicketQueue) = Length
    BY <1>1 DEF QueueIs
  <2>2. /\ q \in Seq(Cpus) /\ Len(q) = Len(TicketQueue) - 1
        /\ \A i \in 1 .. Len(q): q[i] = TicketQueue[i + 1]
    BY <1>3, <1>4, <2>1, HeadTailProperties
  <2> QED
    BY <2>1, <2>2
<1>6. ASSUME NEW i \in 1 .. Length - 1 PROVE TicketQueue'[i] = q[i]
  <2>1. i + 1 \in 1 .. Length /\ (i + 1) - 1 = i /\ i # 0
    BY SMT, Z3T(30), <1>2, <1>6
  <2>2. q[i] \in Ticketed /\ Behind(owner, Ticket(q[i])) = i
    <3>1. q[i] = TicketQueue[i + 1]
      BY <1>5, <1>6
    <3>2. /\ TicketQueue[i + 1] \in Ticketed
          /\ Behind(owner, Ticket(TicketQueue[i + 1])) = (i + 1) - 1
      BY <1>1, <2>1 DEF QueueIs
    <3> QED
      BY <2>1, <3>1, <3>2
  <2>3. q[i] # c
    <3>1. owner \in Tickets /\ Ticket(c) = owner
      BY LockTypes DEF LockInv, Leaves
    <3>2. Behind(owner, Ticket(c)) = 0
      BY <3>1, BehindFacts
    <3> QED
      BY <2>1, <2>2, <3>2
  <2>4. q[i] \in Ticketed' /\ Behind(owner, Ticket(q[i]))' = i - 1
    BY <1>2, <2>2, <2>3
  <2> QED
    BY <1>1, <1>2, <1>6, <2>4 DEF QueueIs
<1>7. TicketQueue' = q
  <2>1. TicketQueue' \in Seq(Cpus) /\ Len(TicketQueue') = Length - 1
    BY <1>1, <1>2 DEF QueueIs
  <2> QED
    BY <1>5, <1>6, <2>1, SeqIs
<1>8. Holders # {} /\ Holders' = {}
  <2>1. \A d \in Cpus: pc'[d] # "critical"
    <3>1. \A d \in Cpus: pc'[d] = "critical" => d # c /\ pc[d] = "critical"
      BY DEF Leaves, LockInv, TypeOK
    <3>2. \A d \in Cpus: pc[d] = "critical" => d \in Ticketed /\ Ticket(d) = owner
      BY DEF LockInv, KnowInv, Ticketed
    <3> QED
      BY <3>1, <3>2 DEF LockInv, QueueInv, Leaves
  <2> QED
    BY <2>1 DEF Holders, Leaves
<1> QED
  BY <1>4, <1>7, <1>8 DEF Fifo!Leave, Holders

LEMMA GoesStutters ==
  ASSUME LockInv, LockInv', NEW c \in Cpus, Goes(c)
  PROVE  UNCHANGED Fifo!vars
<1>1. TicketQueue' = TicketQueue
  BY QueueSameIs DEF Goes
<1>2. Holders' = Holders
  <2>1. \A d \in Cpus: pc'[d] = "critical" <=> pc[d] = "critical"
    BY DEF Goes
  <2> QED
    BY <2>1 DEF Holders
<1> QED
  BY <1>1, <1>2 DEF Fifo!vars, Holders

(* spin_lock() and spin_unlock() of ARM64 are a first-come first-served    *)
(* lock, for any number of CPUs that is less than the number of tickets,   *)
(* and whatever the CPUs' instructions interleave to.                      *)
THEOREM TicketLockIsFifo == Spec => ImplementsFifo
<1>1. Init => Fifo!Init
  <2> SUFFICES ASSUME Init PROVE TicketQueue = << >> /\ Holders = {}
    BY DEF Fifo!Init, Holders
  <2>1. LockInv /\ QueueIs
    BY InvInit, QueueAt
  <2>2. Length = 0
    BY BehindFacts, LockTypes, <2>1 DEF LockInv, Init, Length
  <2>3. TicketQueue = << >>
    BY <2>1, <2>2, EmptySeq DEF QueueIs
  <2> QED
    BY <2>3 DEF Init, Holders
<1>2. LockInv /\ LockInv' /\ [Next]_vars => [Fifo!Next]_(Fifo!vars)
  <2> SUFFICES ASSUME LockInv, LockInv', [Next]_vars PROVE [Fifo!Next]_(Fifo!vars)
    OBVIOUS
  <2>1. CASE UNCHANGED vars
    <3>1. QueueSame
      BY <2>1 DEF vars, QueueSame, Ticketed
    <3>2. TicketQueue' = TicketQueue
      BY <3>1, QueueSameIs
    <3> QED
      BY <2>1, <3>2 DEF vars, Fifo!vars
  <2>2. ASSUME NEW c \in Cpus, SpinLock(c) \/ Locking(c) \/ SpinUnlock(c)
        PROVE  [Fifo!Next]_(Fifo!vars)
    BY <2>2, StepKinds, DrawsArrives, EntersEnters, LeavesLeaves, GoesStutters DEF Fifo!Next
  <2> QED
    BY <2>1, <2>2 DEF Next
<1> QED
  BY <1>1, <1>2, LockInvariant, PTL DEF Spec, ImplementsFifo, Fifo!Spec

=============================================================================
