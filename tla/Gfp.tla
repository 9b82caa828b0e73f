-------------------------------- MODULE Gfp ---------------------------------
(***************************************************************************)
(* The page frame allocator (mm/gfp.c): area 0 is the kernel's own memory, *)
(* area 1 all of the RAM, which contains the former.  Addresses are page   *)
(* numbers; the RAM begins at 0.                                           *)
(***************************************************************************)
EXTENDS Bitmap, FiniteSets

CONSTANTS
  KMM_PAGES,    \* pages of area 0
  OsPages,      \* of these: pages of the kernel
  InitPages,    \* of these: the last ones are code for booting only
  PerCpus,      \* a page for each CPU, at the end of area 0
  RamPages,     \* pages of area 1
  GrinchBases,  \* where in the RAM the kernel may be
  Reserved,     \* regions of the device tree: <<page, pages>>
  Sizes,        \* of allocations: <<pages, alignment>>
  MaxOwned      \* bound: allocations at a time

Areas == {0, 1}

VARIABLES
  pc,          \* "boot", "kmem", "reserve", "up", "running"; "halt"
  valid,       \* areas that are in use
  bitmap,      \* area -> bitmap
  pbase,       \* area -> its first frame
  marked,      \* regions of the device tree for which phys_mark_used() was called
  percpu,      \* CPUs whose page is in use
  os,          \* pages of the kernel in area 0
  map_pages,   \* pages of area 0 with the bitmap of area 1
  owned        \* allocations: [area, start, pages]

vars == <<pc, valid, bitmap, pbase, marked, percpu, os, map_pages, owned>>

bit_max(a) == IF a = 0 THEN KMM_PAGES ELSE RamPages
Clean(a) == [p \in 0 .. BITS_TO_LONGS(bit_max(a)) - 1 |-> {}]

(* memory_area_alloc_aligned(), where place is not ENOMEM *)
Take(a, place, pages) == bitmap' = [bitmap EXCEPT ![a] = bitmap_set(@, place, pages)]
Give(a, start, pages) == bitmap' = [bitmap EXCEPT ![a] = bitmap_clear(@, start, pages)]

PlaceIn(a, pages, from, align) == FindPlace(bitmap[a], bit_max(a), pages, from, align)

p_in_area(a, addr, pages) ==
  /\ addr >= pbase[a]
  /\ IF pages = 0 THEN addr < pbase[a] + bit_max(a) ELSE addr + pages <= pbase[a] + bit_max(a)

(* v2p() and p2v(); a virtual address is an area and a page of it *)
V2p(v) == v.page + pbase[v.area]

(* Mutant: the areas are searched from the last one. *)
P2vLast(phys) ==
  LET a == IF 1 \in valid /\ p_in_area(1, phys, 0) THEN 1 ELSE 0
  IN  [area |-> a, page |-> phys - pbase[a]]

P2v(phys) ==
  LET a == Least({b \in valid: p_in_area(b, phys, 0)})
  IN  [area |-> a, page |-> phys - pbase[a]]

----------------------------------------------------------------------------
(* kernel_mem_init() *)
KernelMemInit ==
  /\ pc = "boot"
  /\ valid' = {0}
  /\ bitmap' = [bitmap EXCEPT ![0] =
                  bitmap_set(bitmap_set(@, 0, OsPages), KMM_PAGES - PerCpus, PerCpus)]
  /\ os' = OsPages
  /\ percpu' = 0 .. PerCpus - 1
  /\ pc' = "kmem"
  /\ UNCHANGED <<pbase, marked, map_pages, owned>>

(* Mutant: the kernel is not marked in the RAM. *)
GrinchMarkNone(map) == map

(* The kernel's memory is in use also as a part of the RAM. *)
GrinchMark(map) ==
  IF pbase[0] >= pbase[1] /\ pbase[0] + KMM_PAGES < RamPages
  THEN bitmap_set(map, pbase[0] - pbase[1], KMM_PAGES)
  ELSE map

(* phys_mem_init(), create_memory_area(): the bitmap itself is in area 0.    *)
PhysMemInit ==
  LET place == PlaceIn(0, 1, -1, 1)
  IN  /\ pc = "kmem"
      /\ IF place = ENOMEM
         THEN /\ pc' = "halt"
              /\ UNCHANGED <<valid, bitmap, map_pages>>
         ELSE /\ pc' = "reserve"
              /\ valid' = {0, 1}
              /\ bitmap' = [bitmap EXCEPT ![0] = bitmap_set(@, place, 1),
                                          ![1] = GrinchMark(@)]
              /\ map_pages' = {place}
      /\ UNCHANGED <<pbase, marked, percpu, os, owned>>

(* phys_mark_used(), for a region of the device tree: in the first area that *)
(* it is in; errors are not looked at.                                       *)
MarkReserved(r) ==
  LET hit == {a \in valid: p_in_area(a, r[1], r[2])}
      a == Least(hit)
      place == PlaceIn(a, r[2], r[1] - pbase[a], 1)
  IN  /\ pc = "reserve" /\ r \notin marked
      /\ marked' = marked \union {r}
      /\ IF hit = {} \/ place = ENOMEM THEN UNCHANGED bitmap ELSE Take(a, place, r[2])
      /\ UNCHANGED <<pc, valid, pbase, percpu, os, map_pages, owned>>

ReservedDone ==
  /\ pc = "reserve" /\ marked = Reserved
  /\ pc' = "up"
  /\ UNCHANGED <<valid, bitmap, pbase, marked, percpu, os, map_pages, owned>>

(* arch_platform_init(): absent CPUs need no page; CPU 0 has the last one.   *)
FreePerCpu(c) ==
  /\ pc = "up" /\ c \in percpu
  /\ Give(0, KMM_PAGES - 1 - c, 1)
  /\ percpu' = percpu \ {c}
  /\ UNCHANGED <<pc, valid, pbase, marked, os, map_pages, owned>>

(* paging_discard_init() *)
DiscardInit ==
  /\ pc = "up"
  /\ Give(0, OsPages - InitPages, InitPages)
  /\ os' = OsPages - InitPages
  /\ pc' = "running"
  /\ UNCHANGED <<valid, pbase, marked, percpu, map_pages, owned>>

----------------------------------------------------------------------------
(* alloc_pages_aligned(), phys_pages_alloc(): from the first area with room; *)
(* if there is none the call fails and changes nothing.                      *)
AllocPages(size) ==
  LET pages == size[1]
      room == {a \in valid: PlaceIn(a, pages, -1, size[2]) # ENOMEM}
      a == Least(room)
      place == PlaceIn(a, pages, -1, size[2])
  IN  /\ pc \notin {"boot", "halt", "reserve"} /\ Cardinality(owned) < MaxOwned
      /\ room # {}
      /\ Take(a, place, pages)
      /\ owned' = owned \union {[area |-> a, start |-> place, pages |-> pages]}
      /\ UNCHANGED <<pc, valid, pbase, marked, percpu, os, map_pages>>

(* free_pages(), by the virtual address, which tells the area *)
FreePages(o) ==
  /\ pc # "halt"
  /\ Give(o.area, o.start, o.pages)
  /\ owned' = owned \ {o}
  /\ UNCHANGED <<pc, valid, pbase, marked, percpu, os, map_pages>>

(* phys_free_pages(), by the frame: in the first area that has it *)
PhysFreePages(o) ==
  LET phys == pbase[o.area] + o.start
      hit == {a \in valid: p_in_area(a, phys, o.pages)}
      a == Least(hit)
  IN  /\ pc # "halt" /\ hit # {}
      /\ Give(a, phys - pbase[a], o.pages)
      /\ owned' = owned \ {o}
      /\ UNCHANGED <<pc, valid, pbase, marked, percpu, os, map_pages>>

----------------------------------------------------------------------------
(* kmm_set_base() has been called. *)
Init ==
  /\ pc = "boot"
  /\ valid = {}
  /\ bitmap = [a \in Areas |-> Clean(a)]
  /\ \E g \in GrinchBases: pbase = [a \in Areas |-> IF a = 0 THEN g ELSE 0]
  /\ marked = {}
  /\ percpu = {}
  /\ os = 0
  /\ map_pages = {}
  /\ owned = {}

Next ==
  \/ KernelMemInit \/ PhysMemInit \/ ReservedDone \/ DiscardInit
  \/ \E r \in Reserved: MarkReserved(r)
  \/ \E c \in 0 .. PerCpus - 1: FreePerCpu(c)
  \/ \E size \in Sizes: AllocPages(size)
  \/ \E o \in owned: FreePages(o) \/ PhysFreePages(o)

Spec == Init /\ [][Next]_vars

----------------------------------------------------------------------------
Span(start, pages) == start .. start + pages - 1
Frames(o) == Span(pbase[o.area] + o.start, o.pages)

KernelFrames ==
  Span(pbase[0], os) \union {pbase[0] + KMM_PAGES - 1 - c: c \in percpu}
                     \union {pbase[0] + p: p \in map_pages}

ReservedFrames == UNION {Span(r[1], r[2]): r \in marked}

(* No frame is handed out twice, by whichever of the two areas, nor one of   *)
(* the kernel or of a region that the firmware keeps.                        *)
FramesOnce ==
  /\ \A o, q \in owned: o # q => Frames(o) \intersect Frames(q) = {}
  /\ \A o \in owned: Frames(o) \intersect (KernelFrames \union ReservedFrames) = {}

(* Nothing gets lost: a bit that is set, in whatever word, is one of an      *)
(* allocation or of what booting marked, however pages were freed.           *)
BitsAccounted ==
  \A a \in valid:
    SetBits(bitmap[a]) \subseteq
      UNION {Span(o.start, o.pages): o \in {q \in owned: q.area = a}}
      \union (IF a = 0 THEN {f - pbase[0]: f \in KernelFrames}
                       ELSE Span(pbase[0], KMM_PAGES) \union ReservedFrames)

(* A page that was allocated is found again by its frame, as page tables are *)
(* that refer to others by frames: the two areas do not disagree.            *)
AddressesRoundTrip ==
  \A o \in owned: \A page \in Span(o.start, o.pages):
    LET v == [area |-> o.area, page |-> page] IN P2v(V2p(v)) = v

(* The search in words finds the first aligned place, and fails only if      *)
(* there is none.                                                            *)
FindsFirst ==
  \A a \in valid, size \in Sizes:
    PlaceIn(a, size[1], -1, size[2]) = FirstPlace(bitmap[a], bit_max(a), size[1], size[2])
=============================================================================
