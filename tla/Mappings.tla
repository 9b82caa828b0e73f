------------------------------ MODULE Mappings ------------------------------
(***************************************************************************)
(* Page tables (mm/paging.c): map_range(), unmap_range(), and what they do *)
(* to the TLB of the CPU; and a page table in use: the kernel's, with the  *)
(* window that ioremap() maps devices into (mm/ioremap.c), or that of a    *)
(* process, whose areas come and go.  Memory for tables may run out at any *)
(* time.  Addresses are page numbers.  A memory M has                      *)
(*   pt    the tables: table -> index -> entry                             *)
(*   pool  the pages that zalloc_pages() may still return                  *)
(*   tlb   translations that the CPU may have cached                       *)
(*   walk  tables that the CPU may refer to: it may walk at any time       *)
(*   err   whether the call failed                                         *)
(***************************************************************************)
EXTENDS Bitmap, Naturals, Sequences, SequencesExt

CONSTANTS
  Ptes,       \* entries of a table
  Leaf,       \* level of the single pages; the root has level 0
  Block,      \* level from which on entries may be terminal
  Tables,     \* pages for tables, the root is 0
  Pages,      \* virtual pages
  Window,     \* pages of the ioremap window, from page 0 on
  Devices,    \* [paddr, size]
  Requests    \* what processes map: [virt, phys, size, flags]

None == <<>>
Terminal(phys, flags) == <<phys, flags>>
ToTable(t) == <<t>>
IsTable(e) == Len(e) = 1
IsTerminal(e) == Len(e) = 2

Indices == 0 .. Ptes - 1

(* paging_slot_size() *)
Size(l) == Ptes ^ (Leaf - l)
Offset(l, virt) == virt % Size(l)
Index(l, virt) == (virt \div Size(l)) % Ptes
Entry(M, l, t, virt) == M.pt[t][Index(l, virt)]

Empty(M, t) == \A i \in Indices: M.pt[t][i] = None

(* Translations in the table t of level l, at the address base *)
RECURSIVE TerminalsOf(_, _, _, _)
TerminalsOf(M, l, t, base) ==
  UNION {LET e == M.pt[t][i]
             at == base + i * Size(l)
         IN  IF IsTerminal(e) THEN {[virt |-> at, size |-> Size(l), entry |-> e]}
             ELSE IF IsTable(e) THEN TerminalsOf(M, l + 1, e[1], at)
             ELSE {}: i \in Indices}
Terminals(M) == TerminalsOf(M, 0, 0, 0)

RECURSIVE TablesOf(_, _)
TablesOf(M, t) ==
  {t} \union UNION {TablesOf(M, M.pt[t][i][1]): i \in {j \in Indices: IsTable(M.pt[t][j])}}

(* What a CPU that uses the table can see now, it may cache. *)
Seen(M, live) ==
  IF live THEN [M EXCEPT !.tlb = @ \union Terminals(M), !.walk = @ \union TablesOf(M, 0)] ELSE M

(* local_flush_tlb_page(): no translation of that page is left *)
FlushPage(M, virt, live) ==
  Seen([M EXCEPT !.tlb = {x \in @: virt \notin x.virt .. x.virt + x.size - 1}], live)

(* local_flush_tlb_all() *)
FlushAll(M, live) == Seen([M EXCEPT !.tlb = {}, !.walk = {}], live)

Set(M, l, t, virt, e, live) == Seen([M EXCEPT !.pt[t][Index(l, virt)] = e], live)

Fail(M) == [M EXCEPT !.err = TRUE]

(* zalloc_pages() and set_next_pt(); fails if there is no page *)
Link(M, l, t, virt, live) ==
  IF M.pool = {} THEN Fail(M)
  ELSE LET new == CHOOSE p \in M.pool: \A q \in M.pool: p <= q
       IN  Set([M EXCEPT !.pool = @ \ {new}, !.pt[new] = [i \in Indices |-> None]],
               l, t, virt, ToTable(new), live)

RECURSIVE PagingCreate(_, _, _, _, _, _, _, _, _)

(* Mutant: the pages start at the address that is looked for. *)
PopulateHere(S, e, l, t, virt, huge, live) ==
  IF S.err THEN S
  ELSE PagingCreate(S, l + 1, Entry(S, l, t, virt)[1], virt - Offset(l, virt),
                    e[1] + Offset(l, virt), Size(l), e[2], huge, live)

(* The new table in place of the entry e gets its pages. *)
Populate(S, e, l, t, virt, huge, live) ==
  IF S.err THEN S
  ELSE PagingCreate(S, l + 1, Entry(S, l, t, virt)[1], virt - Offset(l, virt),
                    e[1], Size(l), e[2], huge, live)

(* split_hugepage(), for the entry of virt in the table t of level l *)
SplitHugepage(M, l, t, virt, huge, live) ==
  LET e == Entry(M, l, t, virt)
  IN  IF IsTerminal(e) THEN Populate(Link(M, l, t, virt, live), e, l, t, virt, huge, live) ELSE M

----------------------------------------------------------------------------
(* paging_destroy() *)

Covers(l, virt, size) ==
  LET start == virt - Offset(l, virt)
  IN  virt <= start /\ virt + size >= start + Size(l)

(* Down to the entry to clear: path is the tables on the way, S the memory  *)
(* in which the entry of the last one is no larger page any more.            *)
RECURSIVE WalkDown(_, _, _, _, _, _, _)
WalkInto(S, l, path, virt, size, huge, live) ==
  IF S.err THEN [mem |-> S, level |-> l, path |-> path]
  ELSE WalkDown(S, l + 1, Append(path, Entry(S, l, Last(path), virt)[1]), virt, size, huge, live)

WalkDown(M, l, path, virt, size, huge, live) ==
  LET e == Entry(M, l, Last(path), virt)
  IN  IF e = None \/ (IsTerminal(e) /\ Covers(l, virt, size))
      THEN [mem |-> M, level |-> l, path |-> path]
      ELSE WalkInto(SplitHugepage(M, l, Last(path), virt, huge, live),
                    l, path, virt, size, huge, live)

(* Mutant: all tables that get empty are released. *)
KeepsNone(path, kernel) == FALSE

(* Mutant: the tables below every root stay. *)
KeepsAll(path, kernel) == Len(path) = 2

(* The tables below the kernel's root stay, also when they are empty. *)
Keeps(path, kernel) == Len(path) = 2 /\ kernel /\ path[1] = 0

(* Up again, clearing entries; empty are the tables that are unlinked, C the *)
(* memory without the entry.                                                 *)
RECURSIVE WalkUp(_, _, _, _, _, _, _)
WalkOut(C, l, path, virt, kernel, empty, live) ==
  IF Len(path) = 1 \/ ~ Empty(C, Last(path)) \/ Keeps(path, kernel)
  THEN [mem |-> C, empty |-> empty]
  ELSE WalkUp(C, l - 1, Front(path), virt, kernel, empty \union {Last(path)}, live)

WalkUp(M, l, path, virt, kernel, empty, live) ==
  WalkOut(Set(M, l, Last(path), virt, None, live), l, path, virt, kernel, empty, live)

(* Mutant: only the address is flushed. *)
FlushDestroyedPage(M, empty, virt, live) == FlushPage(M, virt, live)

FlushDestroyed(M, empty, virt, live) ==
  IF empty # {} THEN FlushAll(M, live) ELSE FlushPage(M, virt, live)

FreeTables(M, S) ==
  [M EXCEPT !.pool = @ \union S,
            !.pt = [t \in DOMAIN @ |-> IF t \in S THEN [i \in Indices |-> None] ELSE @[t]]]

(* The end of a round: flush, then free *)
Release(up, virt, live) ==
  FreeTables(FlushDestroyed(up.mem, up.empty, virt, live), up.empty)

RECURSIVE PagingDestroy(_, _, _, _, _, _, _, _)
DestroyFrom(down, l, root, virt, size, kernel, huge, live) ==
  LET up == WalkUp(down.mem, down.level, down.path, virt, kernel, {}, live)
      advance == Size(down.level) - Offset(down.level, virt)
      left == IF advance >= size THEN 0 ELSE size - advance
  IN  IF down.mem.err THEN down.mem
      ELSE PagingDestroy(Release(up, virt, live), l, root, virt + advance, left,
                         kernel, huge, live)

PagingDestroy(M, l, root, virt, size, kernel, huge, live) ==
  IF size = 0 THEN M
  ELSE DestroyFrom(WalkDown(M, l, <<root>>, virt, size, huge, live),
                   l, root, virt, size, kernel, huge, live)

----------------------------------------------------------------------------
(* paging_create() *)

Fits(l, virt, phys, size, huge) ==
  /\ l >= Block /\ Size(l) <= size
  /\ virt % Size(l) = 0 /\ phys % Size(l) = 0
  /\ huge \/ l = Leaf

(* Mutant: the tables behind the entry are forgotten. *)
OverwriteOnly(M, l, t, virt, phys, flags, huge, live) ==
  Set(M, l, t, virt, Terminal(phys, flags), live)

(* A larger page replaces what is mapped there. *)
Overwrite(M, l, t, virt, phys, flags, huge, live) ==
  LET D == IF l = Leaf THEN M ELSE PagingDestroy(M, l, t, virt, Size(l), FALSE, huge, live)
  IN  Set([D EXCEPT !.err = FALSE], l, t, virt, Terminal(phys, flags), live)

(* Down to the entry to set, with new tables where there are none: S is the  *)
(* memory in which the entry on the way is a table.                          *)
RECURSIVE Descend(_, _, _, _, _, _, _, _, _)
DescendInto(S, l, t, virt, phys, size, flags, huge, live) ==
  IF S.err THEN [mem |-> S, level |-> l]
  ELSE Descend(S, l + 1, Entry(S, l, t, virt)[1], virt, phys, size, flags, huge, live)

Descend(M, l, t, virt, phys, size, flags, huge, live) ==
  IF Fits(l, virt, phys, size, huge)
  THEN [mem |-> Overwrite(M, l, t, virt, phys, flags, huge, live), level |-> l]
  ELSE DescendInto(IF Entry(M, l, t, virt) = None THEN Link(M, l, t, virt, live)
                   ELSE SplitHugepage(M, l, t, virt, huge, live),
                   l, t, virt, phys, size, flags, huge, live)

(* Mutant: what was mapped is not flushed. *)
FlushCreatedNot(M, virt, live) == M

FlushCreated(M, virt, live) == FlushPage(M, virt, live)

CreateFrom(d, l, root, virt, phys, size, flags, huge, live) ==
  LET step == Size(d.level)
  IN  IF d.mem.err THEN d.mem
      ELSE PagingCreate(FlushCreated(d.mem, virt, live), l, root, virt + step, phys + step,
                        size - step, flags, huge, live)

PagingCreate(M, l, root, virt, phys, size, flags, huge, live) ==
  IF size = 0 THEN M
  ELSE CreateFrom(Descend(M, l, root, virt, phys, size, flags, huge, live),
                  l, root, virt, phys, size, flags, huge, live)

----------------------------------------------------------------------------
(* map_range(), unmap_range() *)
MapRange(M, virt, phys, size, flags, live) ==
  PagingCreate([M EXCEPT !.err = FALSE], 0, 0, virt, phys, size, flags, TRUE, live)

UnmapRange(M, virt, size, kernel, live) ==
  PagingDestroy([M EXCEPT !.err = FALSE], 0, 0, virt, size, kernel, FALSE, live)

(* paging_get_phys() *)
RECURSIVE GetPhysAt(_, _, _, _)
GetPhysAt(M, l, t, virt) ==
  LET e == Entry(M, l, t, virt)
  IN  IF e = None THEN None
      ELSE IF IsTerminal(e) THEN Terminal(e[1] + Offset(l, virt), e[2])
      ELSE GetPhysAt(M, l + 1, e[1], virt)
GetPhys(M, virt) == GetPhysAt(M, 0, 0, virt)

(* paging_prealloc() *)
RECURSIVE PagingPrealloc(_, _, _, _)
PagingPrealloc(M, virt, slots, live) ==
  LET S == IF Entry(M, 0, 0, virt) = None THEN Link(M, 0, 0, virt, live) ELSE M
  IN  IF slots = 0 THEN M
      ELSE IF S.err THEN S
      ELSE PagingPrealloc(S, virt + Size(0), slots - 1, live)

Fresh(pool) ==
  [pt |-> [t \in Tables |-> [i \in Indices |-> None]], pool |-> pool, tlb |-> {}, walk |-> {},
   err |-> FALSE]

-----------------------------------------------------------------------------
VARIABLES
  kernel,     \* whether this is kernel_root
  live,       \* whether this CPU uses the table: tlb_scope_of()
  booted,     \* whether ioremap_init() has been called
  mem,        \* the memory, see above
  taken,      \* pages that others have allocated
  io,         \* ioremap_bitmap
  regions     \* what ioremap() has returned: [virt, paddr, size]

vars == <<kernel, live, booted, mem, taken, io, regions>>

Free == Tables \ {0}

(* The result is for the caller, and not kept. *)
Returned(M) == [M EXCEPT !.err = FALSE]

----------------------------------------------------------------------------
(* ioremap_init() *)
IoremapInit ==
  LET M == PagingPrealloc(mem, 0, (Window + Size(0) - 1) \div Size(0), live)
  IN  /\ kernel /\ ~ booted
      /\ ~ M.err      \* else the kernel stops
      /\ booted' = TRUE
      /\ mem' = M
      /\ UNCHANGED <<kernel, live, taken, io, regions>>

LowBit(n) == CHOOSE b \in 1 .. n: n % b = 0 /\ (\E i \in 0 .. n: b = 2 ^ i)
                                 /\ \A i \in 0 .. n: n % (2 ^ i) = 0 => 2 ^ i <= b

(* The alignment, not more than a mega page *)
IoAlign(d) ==
  LET size_al == IF LowBit(d.size) > Size(Leaf - 1) THEN Size(Leaf - 1) ELSE LowBit(d.size)
  IN  IF size_al <= LowBit(d.paddr) THEN size_al ELSE 1

(* The place in the window, aligned if there is such a one *)
IoPlace(d) ==
  LET Find(align) == bitmap_find_next_zero_area(io, Window, 0, d.size, align)
  IN  IF Find(IoAlign(d)) > Window THEN Find(1) ELSE Find(IoAlign(d))

(* Mutant: the place is taken also if mapping fails. *)
IoremapEarly(d) ==
  LET virt == IoPlace(d)
      M == MapRange(mem, virt, d.paddr, d.size, "rw", live)
  IN  /\ kernel /\ booted /\ virt <= Window
      /\ mem' = IF M.err THEN Returned(M) ELSE FlushAll(M, live)
      /\ io' = bitmap_set(io, virt, d.size)
      /\ regions' = IF M.err THEN regions
                    ELSE regions \union {[virt |-> virt, paddr |-> d.paddr, size |-> d.size]}
      /\ UNCHANGED <<kernel, live, booted, taken>>

(* ioremap(), unless the window is full *)
Ioremap(d) ==
  LET virt == IoPlace(d)
      M == MapRange(mem, virt, d.paddr, d.size, "rw", live)
  IN  /\ kernel /\ booted /\ virt <= Window
      /\ IF M.err
         THEN mem' = Returned(M) /\ UNCHANGED <<io, regions>>
         ELSE /\ mem' = FlushAll(M, live)
              /\ io' = bitmap_set(io, virt, d.size)
              /\ regions' = regions \union {[virt |-> virt, paddr |-> d.paddr, size |-> d.size]}
      /\ UNCHANGED <<kernel, live, booted, taken>>

(* iounmap() *)
Iounmap(r) ==
  LET M == UnmapRange(mem, r.virt, r.size, kernel, live)
  IN  /\ kernel /\ r \in regions
      /\ IF M.err
         THEN mem' = Returned(M) /\ UNCHANGED <<io, regions>>
         ELSE /\ mem' = FlushAll(M, live)
              /\ io' = bitmap_clear(io, r.virt, r.size)
              /\ regions' = regions \ {r}
      /\ UNCHANGED <<kernel, live, booted, taken>>

----------------------------------------------------------------------------
(* map_range() and unmap_range() for a process *)
MapUser(q) ==
  /\ ~ kernel
  /\ mem' = Returned(MapRange(mem, q.virt, q.phys, q.size, q.flags, live))
  /\ UNCHANGED <<kernel, live, booted, taken, io, regions>>

UnmapUser(virt, size) ==
  /\ ~ kernel
  /\ mem' = Returned(UnmapRange(mem, virt, size, kernel, live))
  /\ UNCHANGED <<kernel, live, booted, taken, io, regions>>

(* Others allocate and free pages. *)
TakePage ==
  /\ mem.pool # {}
  /\ LET p == CHOOSE p \in mem.pool: \A q \in mem.pool: p >= q
     IN  /\ mem' = [mem EXCEPT !.pool = @ \ {p}]
         /\ taken' = taken \union {p}
  /\ UNCHANGED <<kernel, live, booted, io, regions>>

ReturnPage ==
  LET p == Least(taken)
  IN  /\ taken # {}
      /\ mem' = [mem EXCEPT !.pool = @ \union {p}]
      /\ taken' = taken \ {p}
      /\ UNCHANGED <<kernel, live, booted, io, regions>>

----------------------------------------------------------------------------
Init ==
  /\ kernel \in BOOLEAN
  /\ live \in {l \in BOOLEAN: kernel => l}
  /\ booted = FALSE
  /\ mem = Seen(Fresh(Free), live)
  /\ taken = {}
  /\ io = [p \in 0 .. BITS_TO_LONGS(Window) - 1 |-> {}]
  /\ regions = {}

Next ==
  \/ IoremapInit \/ TakePage \/ ReturnPage
  \/ \E d \in Devices: Ioremap(d)
  \/ \E r \in regions: Iounmap(r)
  \/ \E q \in Requests: MapUser(q) \/ UnmapUser(q.virt, q.size)

Spec == Init /\ [][Next]_vars

----------------------------------------------------------------------------
View(M) == [v \in Pages |-> GetPhys(M, v)]

(* The first k pages of the request are mapped to phys, or unmapped. *)
Mapped(view, q, k) ==
  [v \in Pages |-> IF v \in q.virt .. q.virt + k - 1
                   THEN Terminal(q.phys + (v - q.virt), q.flags) ELSE view[v]]
Unmapped(view, q, k) ==
  [v \in Pages |-> IF v \in q.virt .. q.virt + k - 1 THEN None ELSE view[v]]

(* map_range() and unmap_range() change just the pages that they are asked   *)
(* to, also in the middle of larger pages; if memory runs out the first      *)
(* pages of them.                                                            *)
RangesExact ==
  \A q \in Requests:
    LET m == MapRange(mem, q.virt, q.phys, q.size, q.flags, live)
        u == UnmapRange(mem, q.virt, q.size, kernel, live)
    IN  /\ \E k \in 0 .. q.size: View(m) = Mapped(View(mem), q, k) /\ (m.err <=> k < q.size)
        /\ \E k \in 0 .. q.size: View(u) = Unmapped(View(mem), q, k) /\ (u.err => k < q.size)
                                 /\ (~ u.err => View(u) = Unmapped(View(mem), q, q.size))

(* When a call is over the CPU has no translation that is not in the table,  *)
(* whatever it cached while the table changed.                               *)
TlbCurrent ==
  \A x \in mem.tlb: \A i \in 0 .. x.size - 1:
    GetPhys(mem, x.virt + i) = Terminal(x.entry[1] + i, x.entry[2])

(* A page of a table is not free, or in use for something else, while the    *)
(* CPU may still walk it.                                                    *)
WalkersOnTables == mem.walk \intersect (mem.pool \union taken) = {}

(* Each table has one entry that refers to it, under the root: none is lost, *)
(* and none is shared.                                                       *)
TablesExact ==
  LET used == Tables \ (mem.pool \union taken)
      refs(t) == {<<s, i>> \in used \X Indices: mem.pt[s][i] = ToTable(t)}
  IN  /\ TablesOf(mem, 0) = used
      /\ refs(0) = {}
      /\ \A t \in used \ {0}: \E x \in refs(t): refs(t) = {x}

(* When a process exits, unmapping gives all tables back but the root, which *)
(* is all that process_destroy() frees; also if calls have failed before.    *)
UnmapReturnsTables ==
  ~ kernel =>
    LET M == UnmapRange(mem, 0, Size(0) * Ptes, kernel, live)
    IN  ~ M.err /\ M.pool \union taken = Free

(* "Its root-level slots are fixed once boot completes": processes have a    *)
(* copy of them.                                                             *)
KernelSlotsFixed == [][booted => mem'.pt[0] = mem.pt[0]]_vars

(* The bitmap of the window has the regions that are in use, these are apart *)
(* and each leads to its device, also after calls that failed.               *)
WindowExact ==
  /\ SetBits(io) = UNION {r.virt .. r.virt + r.size - 1: r \in regions}
  /\ \A r, s \in regions:
       r # s => (r.virt .. r.virt + r.size - 1) \intersect (s.virt .. s.virt + s.size - 1) = {}
  /\ \A r \in regions: \A i \in 0 .. r.size - 1:
       GetPhys(mem, r.virt + i) = Terminal(r.paddr + i, "rw")
=============================================================================
