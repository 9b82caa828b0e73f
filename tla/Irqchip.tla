------------------------------ MODULE Irqchip -------------------------------
(***************************************************************************)
(* irqchip_init() (drivers/irq/irqchip.c): interrupt controllers that the  *)
(* device tree lists in any order are probed, and cascaded ones after the  *)
(* one that they are attached to.                                          *)
(***************************************************************************)
EXTENDS Naturals, Sequences, SequencesExt

CONSTANT IRQCHIP_MAX_CHIPS

None == 0

VARIABLES
  n_chips,   \* controllers of the device tree that have a driver
  parent,    \* irqchip_parent_node(): controller -> controller, or None
  order,     \* controllers that are probed, in the order of it
  chip,      \* loop variable
  progress,
  pc         \* "collect", "loop", "done", or "failed"

vars == <<n_chips, parent, order, chip, progress, pc>>

Chips == 1 .. n_chips
probed == ToSet(order)

(* Mutant: who is later in the device tree is not waited for. *)
DeferEarlier(c) == \E other \in Chips: other < c /\ other \notin probed /\ other = parent[c]

Defer(c) == \E other \in Chips: other # c /\ other \notin probed /\ other = parent[c]

(* The collection fails without controllers, or with too many of them. *)
Collect ==
  /\ pc = "collect"
  /\ pc' = IF n_chips \in 1 .. IRQCHIP_MAX_CHIPS THEN "loop" ELSE "failed"
  /\ UNCHANGED <<n_chips, parent, order, chip, progress>>

(* The body of the inner loop; a probe that fails counts, unless for memory. *)
Visit ==
  /\ pc = "loop" /\ chip <= n_chips
  /\ \/ /\ chip \in probed \/ Defer(chip)
        /\ chip' = chip + 1
        /\ UNCHANGED <<order, progress, pc>>
     \/ /\ chip \notin probed /\ ~ Defer(chip)
        /\ \/ /\ order' = Append(order, chip)
              /\ progress' = TRUE
              /\ chip' = chip + 1
              /\ UNCHANGED pc
           \/ /\ pc' = "failed"
              /\ UNCHANGED <<order, progress, chip>>
  /\ UNCHANGED <<n_chips, parent>>

(* Mutant: one round. *)
RoundOnce ==
  /\ pc = "loop" /\ chip > n_chips
  /\ chip' = 1
  /\ progress' = FALSE
  /\ pc' = "done"
  /\ UNCHANGED <<n_chips, parent, order>>

(* The condition of the outer loop *)
Round ==
  /\ pc = "loop" /\ chip > n_chips
  /\ chip' = 1
  /\ progress' = FALSE
  /\ pc' = IF progress THEN "loop" ELSE "done"
  /\ UNCHANGED <<n_chips, parent, order>>

Init ==
  /\ n_chips \in 0 .. IRQCHIP_MAX_CHIPS + 1
  /\ parent \in [1 .. n_chips -> 0 .. n_chips]
  /\ order = <<>>
  /\ chip = 1
  /\ progress = FALSE
  /\ pc = "collect"

Next == Collect \/ Visit \/ Round

Spec == Init /\ [][Next]_vars

----------------------------------------------------------------------------
Step(S) == S \union {c \in Chips: parent[c] \in S \union {None, c}}

(* The controllers from which one gets to a root; other device trees have    *)
(* cycles.                                                                   *)
Rooted ==
  LET f[i \in 0 .. n_chips] == IF i = 0 THEN {} ELSE Step(f[i - 1]) IN f[n_chips]

(* A cascaded controller is probed after the one it is attached to, whatever *)
(* the order of the device tree.                                             *)
ParentFirst ==
  \A i \in DOMAIN order:
    parent[order[i]] \in {None, order[i]} \union {order[j]: j \in 1 .. i - 1}

(* irqchip_init() ends with all controllers probed that can be: those that   *)
(* lead to a root, and no others; and each of them once.                     *)
AllProbed ==
  /\ IsInjective(order)
  /\ pc = "done" => probed = Rooted
=============================================================================
