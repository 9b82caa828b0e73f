------------------------------ MODULE MCMemory ------------------------------
(***************************************************************************)
(* Memory management for TLC, one at a time: the address spaces of         *)
(* processes, or a heap.                                                   *)
(***************************************************************************)
EXTENDS AddrSpace, TLC

VARIABLES part,
          chunks, heapSize, call, blocks, lost, status

(* RISC-V with an identifier for every process, and ARM64 with too few. *)
SmallMachines == {[arch |-> "riscv", asids |-> 3], [arch |-> "arm64", asids |-> 2]}

Symmetry == Permutations(Frames) \union Permutations(Cpus)

(* A heap of 5 units that grows by 2 to at most 9; a header is one unit. *)
H == INSTANCE Salloc WITH Header <- 1, InitSize <- 5, MaxSize <- 9, Page <- 2,
                          Sizes <- {0, 2, 3}, Resizes <- {2}

ASSUME HeapAssumption == H!SallocAssumption

heapVars == <<chunks, heapSize, call, blocks, lost, status>>
allVars == <<heapVars, vars, part>>

InitMemory ==
    /\ part \in {"heap", "spaces"}
    /\ Init /\ H!Init
    /\ part # "spaces" => machine.arch = "riscv"

OnHeap == part = "heap" /\ UNCHANGED <<part, vars>>
OnSpaces == part = "spaces" /\ UNCHANGED <<part, heapVars>>

NextMemory ==
    \/ OnHeap /\ H!Next
    \/ OnSpaces /\ Next

SpecMemory == InitMemory /\ [][NextMemory]_allVars

(* The heap is whole after every call: chunks tile it and know their         *)
(* neighbours, what was handed out is in use and disjoint, and no two chunks *)
(* that are next to each other are free; and malloc() asks for more memory   *)
(* once only (salloc_alloc(), salloc_free(), salloc_realloc(),               *)
(* heap_increase()).                                                         *)
HeapSound ==
    /\ H!TypeOK /\ H!ChunksTile /\ H!BlocksAreUsedChunks
    /\ H!NoAdjacentFree /\ H!GrowsOnce
=============================================================================
