------------------------------- MODULE Salloc -------------------------------
(***************************************************************************)
(* The heap allocator of common/src/salloc.c, as kmalloc()/kfree() use it  *)
(* for the kernel heap (mm/alloc.c) and malloc()/realloc()/free() for the  *)
(* heap of a process (user/libc/src/stdlib.c).                             *)
(*                                                                         *)
(* Addresses and sizes count allocation units of 4 bytes from the base of  *)
(* the heap.  The heap is the function `chunks' from the addresses that    *)
(* hold a chunk header with intact canaries to those headers: a header     *)
(* that is cleared leaves the domain.  The kernel heap cannot grow         *)
(* (MaxSize = InitSize: salloc_alloc() fails and kmalloc() returns NULL);  *)
(* a process grows its heap with sbrk() until that fails.                  *)
(***************************************************************************)
EXTENDS Integers, FiniteSets

CONSTANTS Header,     \* sizeof(struct memchunk)
          InitSize,   \* size of the heap given to salloc_init()
          MaxSize,    \* sbrk() fails beyond this size
          Page,       \* heap_increase() rounds up to it
          Sizes,      \* the sizes that callers ask for
          Resizes,    \* those that they ask realloc() for; the kernel has none
          NULL

(* What the heap is given *)
SallocAssumption ==
    /\ Header \in Nat \ {0} /\ Page \in Nat \ {0}
    /\ InitSize \in Nat /\ InitSize > Header
    /\ MaxSize \in Nat /\ MaxSize >= InitSize
    /\ Sizes \subseteq Nat /\ Resizes \subseteq Sizes
    /\ NULL \notin Nat

VARIABLES chunks,    \* struct memchunk, by address
          heapSize,  \* heap.size, vma_kheap.size
          call,      \* the malloc(), kmalloc() or realloc() in progress, or NULL
          blocks,    \* what the callers hold: address of the chunk -> size asked for
          lost,      \* chunks that no caller can free any more
          status     \* "ok", or why the kernel panicked or the process ended

vars == <<chunks, heapSize, call, blocks, lost, status>>

Addr == 0..(MaxSize - 1)

Chunk == [before: Addr \cup {NULL}, size: 0..MaxSize, last: BOOLEAN, used: BOOLEAN]

Call == [size: Sizes, old: Addr \cup {NULL}, grown: BOOLEAN]

-----------------------------------------------------------------------------
(* Chunks *)

(* What check_chunk() finds at an address: past the heap nothing is mapped. *)
CheckChunk(h, a) ==
    IF a >= heapSize THEN "fault"
    ELSE IF a \in DOMAIN h THEN "ok" ELSE "EINVAL"

(* A neighbour that exists and is not a chunk *)
Bad(h, a) == a # NULL /\ CheckChunk(h, a) # "ok"

(* next_chunk(); Following() is the sum alone. *)
Following(h, a) == a + Header + h[a].size

NextChunk(h, a) == IF h[a].last THEN NULL ELSE Following(h, a)

(* set_chunk() *)
SetChunk(h, a, c) == [b \in DOMAIN h \cup {a} |-> IF b = a THEN c ELSE h[b]]

(* memset() of a header *)
ClearChunk(h, a) == [b \in DOMAIN h \ {a} |-> h[b]]

(* Mutant: the back pointer of the chunk behind is forgotten. *)
SetNoBefore(h, a, before) == h

SetBefore(h, a, before) ==
    IF a = NULL THEN h ELSE [h EXCEPT ![a].before = before]

(* Mutant: off by one. *)
FitsNearly(c, n) == ~c.used /\ c.size + 1 >= n

(* The walk of salloc_alloc(): the first free chunk that is large enough,  *)
(* or the last chunk, or the error that ends the walk.                     *)
Fits(c, n) == ~c.used /\ c.size >= n

FirstFit(h, n) ==
    LET walk[a \in 0..(2 * MaxSize)] ==
          IF CheckChunk(h, a) # "ok" THEN [err |-> CheckChunk(h, a), at |-> a]
          ELSE IF Fits(h[a], n) THEN [err |-> "ok", at |-> a]
          ELSE IF NextChunk(h, a) = NULL THEN [err |-> "ENOMEM", at |-> a]
          ELSE walk[NextChunk(h, a)]
    IN  walk[0]

(* The chunk at a takes n units and the rest becomes a chunk of its own. *)
Split(h, a, n) ==
    LET other == a + Header + n
        rest == [before |-> a, size |-> h[a].size - n - Header,
                 last |-> h[a].last, used |-> FALSE]
    IN  SetChunk([SetBefore(h, NextChunk(h, a), other)
                      EXCEPT ![a].size = n, ![a].last = FALSE], other, rest)

(* Mutant: the chunk is split although no header fits behind it. *)
TakeAlwaysSplits(h, a, n) ==
    [err |-> "ok", chunks |-> Split([h EXCEPT ![a].used = TRUE], a, n)]

(* What salloc_alloc() does with the free chunk at a. *)
Take(h, a, n) ==
    LET taken == [h EXCEPT ![a].used = TRUE]
        next == NextChunk(h, a)
    IN  IF ~(h[a].size > n + Header) THEN [err |-> "ok", chunks |-> taken]
        ELSE IF Bad(h, next) THEN [err |-> CheckChunk(h, next), chunks |-> taken]
        ELSE [err |-> "ok", chunks |-> Split(taken, a, n)]

(* Mutant: a free last chunk is taken to be one unit larger than it is. *)
IncreaseShort(h, a, n) == IF h[a].used THEN Header + n ELSE n - h[a].size - 1

(* *increase of salloc_alloc() when the walk ended at the last chunk a. *)
Increase(h, a, n) == IF h[a].used THEN Header + n ELSE n - h[a].size

(* page_up() *)
PageUp(n) == ((n + Page - 1) \div Page) * Page

-----------------------------------------------------------------------------
(* salloc_free() *)

(* Mutant: never merge with the chunk before. *)
NeverBefore(h, a) == FALSE

(* "Merge before", and where the freed memory then starts. *)
FreeBefore(h, a) == h[a].before # NULL /\ ~h[h[a].before].used

Start(h, a) == IF FreeBefore(h, a) THEN h[a].before ELSE a

MergeBefore(h, a) ==
    LET before == h[a].before
    IN  IF FreeBefore(h, a)
        THEN ClearChunk(SetBefore([h EXCEPT ![before].size = @ + Header + h[a].size],
                                  NextChunk(h, a), before), a)
        ELSE h

(* "Merge after" *)
MergeAfter(h, m, after) ==
    ClearChunk(SetBefore([h EXCEPT ![m].size = @ + Header + h[after].size,
                                   ![m].last = h[after].last],
                         NextChunk(h, after), m), after)

(* The checks come in this order, and each failure leaves what was done.   *)
Free(h, a) ==
    LET clear == [h EXCEPT ![a].used = FALSE]
        before == h[a].before
        after == NextChunk(h, a)
        merged == MergeBefore(clear, a)
        tmp == NextChunk(h, after)
    IN  IF Bad(h, after) THEN [err |-> CheckChunk(h, after), chunks |-> clear]
        ELSE IF Bad(h, before) THEN [err |-> CheckChunk(h, before), chunks |-> clear]
        ELSE IF after = NULL THEN [err |-> "ok", chunks |-> merged]
        ELSE IF h[after].used THEN [err |-> "ok", chunks |-> merged]
        ELSE IF Bad(h, tmp) THEN [err |-> CheckChunk(h, tmp), chunks |-> merged]
        ELSE [err |-> "ok", chunks |-> MergeAfter(merged, Start(clear, a), after)]

-----------------------------------------------------------------------------
(* salloc_init() *)
Init ==
    /\ chunks = [a \in {0} |-> [before |-> NULL, size |-> InitSize - Header,
                                last |-> TRUE, used |-> FALSE]]
    /\ heapSize = InitSize
    /\ call = NULL
    /\ blocks = [a \in {} |-> 0]
    /\ lost = {}
    /\ status = "ok"

Idle == call = NULL /\ status = "ok"

(* malloc(), kmalloc() *)
Malloc(n) ==
    /\ Idle
    /\ call' = [size |-> n, old |-> NULL, grown |-> FALSE]
    /\ UNCHANGED <<chunks, heapSize, blocks, lost, status>>

(* realloc(): salloc_realloc() checks the old chunk and then allocates. *)
Realloc(a, n) ==
    /\ Idle
    /\ call' = [size |-> n, old |-> a, grown |-> FALSE]
    /\ UNCHANGED <<chunks, heapSize, blocks, lost, status>>

(* salloc_alloc() succeeds.  realloc() copies the old contents and returns *)
(* the new block; it does not free the old one, which the caller gives up. *)
AllocSucceeds ==
    /\ call # NULL /\ status = "ok"
    /\ LET fit == FirstFit(chunks, call.size)
           take == Take(chunks, fit.at, call.size)
           kept == DOMAIN blocks \ {call.old}
       IN  /\ fit.err = "ok" /\ take.err = "ok"
           /\ chunks' = take.chunks
           /\ blocks' = [a \in kept \cup {fit.at} |->
                            IF a = fit.at THEN call.size ELSE blocks[a]]
           /\ lost' = IF call.old = NULL THEN lost ELSE lost \cup {call.old}
    /\ call' = NULL
    /\ UNCHANGED <<heapSize, status>>

(* salloc_alloc() meets something that is not a chunk: kmalloc() panics, a *)
(* read past the heap is a fault that ends the kernel or the process.      *)
AllocFails ==
    /\ call # NULL /\ status = "ok"
    /\ LET fit == FirstFit(chunks, call.size)
           take == Take(chunks, fit.at, call.size)
       IN  \/ /\ fit.err \in {"EINVAL", "fault"}
              /\ status' = fit.err
              /\ UNCHANGED chunks
           \/ /\ fit.err = "ok" /\ take.err # "ok"
              /\ status' = take.err
              /\ chunks' = take.chunks
    /\ UNCHANGED <<heapSize, call, blocks, lost>>

(* salloc_increase(): its walk ends where that of salloc_alloc() ended. *)
Grow(h, a, increase) ==
    IF h[a].used
    THEN SetChunk([h EXCEPT ![a].last = FALSE], Following(h, a),
                  [before |-> a, size |-> increase - Header, last |-> TRUE, used |-> FALSE])
    ELSE [h EXCEPT ![a].size = @ + increase]

(* -ENOMEM: malloc() and realloc() increase the heap and retry. *)
HeapIncrease ==
    /\ call # NULL /\ status = "ok"
    /\ LET fit == FirstFit(chunks, call.size)
           increase == PageUp(Increase(chunks, fit.at, call.size))
       IN  /\ fit.err = "ENOMEM"
           /\ heapSize + increase <= MaxSize
           /\ heapSize' = heapSize + increase
           /\ chunks' = Grow(chunks, fit.at, increase)
    /\ call' = [call EXCEPT !.grown = TRUE]
    /\ UNCHANGED <<blocks, lost, status>>

(* sbrk() fails, or this is kmalloc(): return NULL. *)
NoMemory ==
    /\ call # NULL /\ status = "ok"
    /\ LET fit == FirstFit(chunks, call.size)
       IN  /\ fit.err = "ENOMEM"
           /\ heapSize + PageUp(Increase(chunks, fit.at, call.size)) > MaxSize
    /\ call' = NULL
    /\ UNCHANGED <<chunks, heapSize, blocks, lost, status>>

(* free(), kfree() of a block that its caller holds; on an error kfree()   *)
(* panics and free() ends the process.                                     *)
FreeBlock(a) ==
    /\ Idle
    /\ chunks' = Free(chunks, a).chunks
    /\ status' = Free(chunks, a).err
    /\ blocks' = [b \in DOMAIN blocks \ {a} |-> blocks[b]]
    /\ UNCHANGED <<heapSize, call, lost>>

Next ==
    \/ \E n \in Sizes: Malloc(n)
    \/ \E a \in DOMAIN blocks, n \in Resizes: Realloc(a, n)
    \/ AllocSucceeds
    \/ AllocFails
    \/ HeapIncrease
    \/ NoMemory
    \/ \E a \in DOMAIN blocks: FreeBlock(a)

Spec == Init /\ [][Next]_vars

-----------------------------------------------------------------------------
(* Types of the heap and of the ghost state: chunk sizes stay in the heap  *)
(* (the unsigned subtraction that sizes the rest of a split never wraps).  *)
TypeOK ==
    /\ DOMAIN chunks \subseteq Addr /\ \A a \in DOMAIN chunks: chunks[a] \in Chunk
    /\ heapSize \in InitSize..MaxSize
    /\ call \in Call \cup {NULL}
    /\ DOMAIN blocks \subseteq Addr /\ \A a \in DOMAIN blocks: blocks[a] \in Sizes
    /\ lost \subseteq Addr
    /\ status \in {"ok", "EINVAL", "fault"}

(* While the kernel or the process lives, the chunks follow each other     *)
(* without a gap or an overlap from the base to the end of the heap, every *)
(* `before' is the chunk in front, and no chunk but the one at the end is  *)
(* marked LAST: salloc_alloc(), salloc_increase() and the two merges of    *)
(* salloc_free() keep both directions of the list consistent, and no call  *)
(* ever ends with -EINVAL, "corrupted heap structures".                    *)
ChunksTile ==
    status # "fault" =>
      /\ status = "ok"
      /\ 0 \in DOMAIN chunks /\ chunks[0].before = NULL
      /\ \A a \in DOMAIN chunks:
           LET end == a + Header + chunks[a].size
           IN  \/ end = heapSize
               \/ end \in DOMAIN chunks /\ chunks[end].before = a /\ ~chunks[a].last
      /\ \A a \in DOMAIN chunks \ {0}:
           LET b == chunks[a].before
           IN  b \in DOMAIN chunks /\ b + Header + chunks[b].size = a

(* The used chunks are exactly the blocks that callers hold or gave up in  *)
(* realloc(), each at least as large as asked for: with ChunksTile, no     *)
(* byte belongs to two blocks, to a block and a header, or to a block and  *)
(* free memory.                                                            *)
BlocksAreUsedChunks ==
    status = "ok" =>
      /\ {a \in DOMAIN chunks: chunks[a].used} = DOMAIN blocks \cup lost
      /\ DOMAIN blocks \cap lost = {}
      /\ \A a \in DOMAIN blocks: chunks[a].size >= blocks[a]

(* salloc_free() merges with both neighbours, so that free memory is never *)
(* split into two adjacent chunks, also not by salloc_increase().          *)
NoAdjacentFree ==
    status = "ok" =>
      \A a, b \in DOMAIN chunks:
        b = a + Header + chunks[a].size => chunks[a].used \/ chunks[b].used

(* The increase that salloc_alloc() asks for is enough: malloc() and       *)
(* realloc() go around their retry loop at most once.                      *)
GrowsOnce ==
    status = "ok" /\ call # NULL /\ call.grown =>
      FirstFit(chunks, call.size).err # "ENOMEM"

(* salloc_fsck(): both runs end and see all of the heap. *)
Fsck ==
    LET forward[a \in 0..(2 * MaxSize)] ==
          IF CheckChunk(chunks, a) # "ok" THEN {}
          ELSE IF chunks[a].last THEN {Header + chunks[a].size}
          ELSE {Header + chunks[a].size + s: s \in forward[Following(chunks, a)]}
        backward[a \in Addr] ==
          IF CheckChunk(chunks, a) # "ok" THEN {}
          ELSE IF chunks[a].before = NULL THEN {Header + chunks[a].size}
          ELSE {Header + chunks[a].size + s: s \in backward[chunks[a].before]}
    IN  /\ forward[0] = {heapSize}
        /\ \A a \in DOMAIN chunks: chunks[a].last => backward[a] = {heapSize}

(* What kmalloc() and kfree() check first when the kernel runs with        *)
(* malloc_fsck, and panic without: salloc_fsck() succeeds.                 *)
HeapPassesFsck == status = "ok" => Fsck
=============================================================================
