--------------------------- MODULE PrivateMemory ---------------------------
(***************************************************************************)
(* What address spaces promise: every process has pages of its own.        *)
(***************************************************************************)
CONSTANTS Procs, init_proc, Pages, NULL

VARIABLE memory  \* process -> page -> who stored there last, 0, or no page

None == [v \in Pages |-> NULL]

Init == \A p \in Procs \ {init_proc}: memory[p] = None

(* How the memory of p may go from m to n: new pages, which are empty, ... *)
Extend(m, n) == \A v \in Pages: n[v] = m[v] \/ (m[v] = NULL /\ n[v] = 0)

(* ... pages given up, or emptied before they are, ... *)
Discard(m, n) == \A v \in Pages: n[v] = m[v] \/ (m[v] # NULL /\ n[v] \in {0, NULL})

(* ... a store to a page that it has, ... *)
Store(p, m, n) == \E v \in Pages: m[v] # NULL /\ n = [m EXCEPT ![v] = p]

(* ... or the copy that a child of q starts with. *)
Fork(q, m, n) == m = None /\ n = memory[q]

Next ==
  \E p \in Procs:
    LET m == memory[p]
        n == memory'[p]
    IN  /\ \A q \in Procs \ {p}: memory'[q] = memory[q]
        /\ \/ Extend(m, n)
           \/ Discard(m, n)
           \/ Store(p, m, n)
           \/ \E q \in Procs: Fork(q, m, n)

Spec == Init /\ [][Next]_memory
=============================================================================
