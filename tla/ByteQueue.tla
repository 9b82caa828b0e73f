----------------------------- MODULE ByteQueue ------------------------------
(***************************************************************************)
(* What the ring buffer of a character device promises to its writer and   *)
(* its readers: a bounded first-in first-out queue that forgets its oldest *)
(* byte when a byte is written to a full queue.                            *)
(***************************************************************************)
EXTENDS Integers, Sequences

CONSTANTS Bytes

VARIABLES queue,     \* the bytes stored, oldest first
          capacity,
          taken      \* all bytes that readers took, in this order

vars == <<queue, capacity, taken>>

Init ==
    /\ queue = << >>
    /\ capacity \in Nat \ {0}
    /\ taken = << >>

Put(b) ==
    /\ queue' = IF Len(queue) < capacity THEN Append(queue, b)
                ELSE Tail(Append(queue, b))
    /\ UNCHANGED <<capacity, taken>>

Take(n) ==
    /\ taken' = taken \o SubSeq(queue, 1, n)
    /\ queue' = SubSeq(queue, n + 1, Len(queue))
    /\ UNCHANGED capacity

Next ==
    \/ \E b \in Bytes: Put(b)
    \/ \E n \in 1..Len(queue): Take(n)

Spec == Init /\ [][Next]_vars
=============================================================================
