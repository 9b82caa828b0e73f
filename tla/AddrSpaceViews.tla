--------------------------- MODULE AddrSpaceViews ---------------------------
(***************************************************************************)
(* Proofs about AddrSpace: every step keeps what the TLBs may hold (TlbInv); *)
(* and every step is one of PrivateMemory, or changes nothing that a program *)
(* sees.                                                                   *)
(***************************************************************************)
EXTENDS AddrSpaceBasics

(* The prover of the steps that name none. *)
USE ZenonT(60)

(* The CPUs other than c go on as they were, and so do areas except p's. *)
Local(c, p) ==
  /\ \A d \in Cpus: d # c => pc'[d] = pc[d] /\ job'[d] = job[d]
  /\ \A q \in Procs: q # p => vmas'[q] = vmas[q]

LEMMA SpanKept ==
  ASSUME Control, NEW c \in Cpus, NEW p \in Procs, Owns(c, p), Local(c, p),
         NEW d \in Cpus, d # c, Releasing(d)
  PROVE  Releasing(d)' /\ Span(d)' = Span(d) /\ job'[d].mm = job[d].mm
<1>1. pc'[d] = pc[d] /\ job'[d] = job[d] /\ pc[d] = "dealloc"
  BY DEF Local, Releasing
<1>2. job[d].mm # p /\ job[d].mm \in Procs
  BY <1>1, JobIsOwn DEF Owns
<1>3. vmas'[job'[d].mm] = vmas[job[d].mm]
  BY <1>1, <1>2 DEF Local
<1>4. Area(d)' = Area(d)
  BY <1>1, <1>3 DEF Area
<1> QED
  BY <1>1, <1>3, <1>4 DEF Releasing, Span

(* What others still have to flush is not forgotten. *)
LEMMA PendingKept ==
  ASSUME Control, machine' = machine, NEW c \in Cpus, NEW p \in Procs, Owns(c, p), Local(c, p),
         ~ Releasing(c), NEW r \in Procs, NEW d \in Cpus, NEW e, Pending(r, d, e)
  PROVE  Pending(r, d, e)'
<1>1. PICK b \in Cpus: b # d /\ Releasing(b) /\ job[b].mm = r /\ e.page \in Span(b)
  BY DEF Pending
<1>2. b # c
  BY <1>1
<1>3. Releasing(b)' /\ Span(b)' = Span(b) /\ job'[b].mm = job[b].mm
  BY <1>1, <1>2, SpanKept
<1>4. arch' = "riscv"
  BY DEF Pending, arch
<1> QED
  BY <1>1, <1>3, <1>4 DEF Pending

(* Nobody becomes unseen who was seen. *)
LEMMA UnseenKept ==
  ASSUME NEW c \in Cpus, \A d \in Cpus: d # c => pc'[d] = pc[d] /\ job'[d] = job[d],
         \A d \in Cpus: d # c => current_task'[d] = current_task[d],
         pc'[c] # "asid", NEW r \in Procs, Unseen(r)',
         pc'[c] = "dealloc" /\ job'[c].mm = r /\ current_task'[c] # r => Unseen(r),
         pstate'[r] = "building" => Unseen(r)
  PROVE  Unseen(r)
  BY DEF Unseen

(* What changes no table, no identifier and no root, and caches nothing. *)
LEMMA TlbQuiet ==
  ASSUME TlbInv, UNCHANGED <<machine, page_table, asid, asid_bitmap, root, current_task>>,
         \A d \in Cpus: tlb'[d] \subseteq tlb[d],
         NEW c \in Cpus, \A d \in Cpus: d # c => pc'[d] = pc[d] /\ job'[d] = job[d],
         pc'[c] # "asid" \/ (pc'[c] = pc[c] /\ job'[c] = job[c]),
         \A p \in Procs: Unseen(p)' => Unseen(p),
         \A p \in Procs, d \in Cpus: \A e \in tlb'[d]:
            e.asid = asid[p] /\ Pending(p, d, e) => Pending(p, d, e)'
  PROVE  TlbInv'
<1>1. AsidsKept'
  BY DEF TlbInv, AsidsKept
<1>2. ASSUME NEW d \in Cpus PROVE RootKept(d)'
  BY DEF TlbInv, RootKept
<1>3. ASSUME NEW d \in Cpus PROVE LocalCurrent(d)'
  BY DEF TlbInv, LocalCurrent
<1>4. ASSUME NEW p \in Procs PROVE UnseenNotCached(p)'
  BY DEF TlbInv, UnseenNotCached
<1>5. ASSUME NEW p \in Procs, NEW d \in Cpus PROVE RemoteCurrent(p, d)'
  BY DEF TlbInv, RemoteCurrent
<1> QED
  BY <1>1, <1>2, <1>3, <1>4, <1>5 DEF TlbInv

(* A CPU goes on to something else. *)
LEMMA GotoTlb ==
  ASSUME Control, TlbInv, NEW c \in Cpus, NEW p \in Procs, Owns(c, p), Local(c, p),
         UNCHANGED <<machine, page_table, asid, asid_bitmap, root, current_task, tlb>>,
         ~ Releasing(c), pc'[c] # "asid",
         pc'[c] = "dealloc" => job'[c].mm = p /\ (current_task[c] = p \/ Unseen(p)),
         \A r \in Procs: pstate'[r] = "building" => pstate[r] = "building"
  PROVE  TlbInv'
<1>1. \A d \in Cpus: d # c => pc'[d] = pc[d] /\ job'[d] = job[d]
  BY DEF Local
<1>2. ASSUME NEW r \in Procs, Unseen(r)' PROVE Unseen(r)
  <2>1. pstate'[r] = "building" => Unseen(r)
    BY DEF Unseen
  <2>2. pc'[c] = "dealloc" /\ job'[c].mm = r /\ current_task'[c] # r => Unseen(r)
    OBVIOUS
  <2> QED
    BY <1>1, <1>2, <2>1, <2>2, UnseenKept
<1>3. \A r \in Procs, d \in Cpus: \A e \in tlb'[d]: Pending(r, d, e) => Pending(r, d, e)'
  BY PendingKept
<1> QED
  BY <1>1, <1>2, <1>3, TlbQuiet

(* Mapping a page flushes it where its process is, and may flush more. *)
LEMMA MapTlbIs ==
  ASSUME DataTypes, NEW c \in Cpus, NEW p, NEW S
  PROVE  /\ \A d \in Cpus: MapTlb(c, p, S)[d] \subseteq tlb[d]
         /\ current_task[c] = p =>
              \A d \in Cpus: d = c \/ arch # "riscv" => \A e \in MapTlb(c, p, S)[d]: e.page \notin S
<1>1. arch \in {"riscv", "arm64"}
  BY AddrSpaceAssumption DEF AddrSpaceAssumption, DataTypes, arch
<1> QED
  BY <1>1 DEF MapTlb, FlushPages, Flush, DataTypes

(* No CPU has anything pending of a process that is c's, but c. *)
LEMMA OnlyOwnerPends ==
  ASSUME NEW c \in Cpus, NEW p, Owns(c, p), NEW d \in Cpus, NEW e, Pending(p, d, e)
  PROVE  c # d /\ Releasing(c) /\ job[c].mm = p /\ e.page \in Span(c) /\ arch = "riscv"
  BY DEF Pending, Owns, Releasing

(* New pages are cached nowhere. *)
LEMMA AllocTlb ==
  ASSUME DataTypes, Control, TlbInv, NEW c \in Cpus, NEW p \in Procs, Owns(c, p), Local(c, p),
         NEW S, S \subseteq Pages, S \cap Mapped(p) = {}, NEW x, Alloc(p, S, x),
         UNCHANGED <<machine, asid, asid_bitmap, root, current_task>>,
         tlb' = tlb \/ tlb' = MapTlb(c, p, S), current_task[c] = p => tlb' = MapTlb(c, p, S),
         ~ Releasing(c), pc'[c] # "asid",
         pc'[c] = "dealloc" => job'[c].mm = p /\ (current_task[c] = p \/ Unseen(p)),
         \A r \in Procs: pstate'[r] = "building" => pstate[r] = "building"
  PROVE  TlbInv'
<1>1. /\ \A q \in Procs: q # p => page_table'[q] = page_table[q]
      /\ \A n \in Pages: n \notin S => page_table'[p][n] = page_table[p][n]
  BY AllocIs
<1>2. \A d \in Cpus: tlb'[d] \subseteq tlb[d]
  BY SMT, Z3T(30), MapTlbIs
<1>3. current_task[c] = p => \A e \in tlb'[c]: e.page \notin S
  BY MapTlbIs
<1>4. \A d \in Cpus: d # c => pc'[d] = pc[d] /\ job'[d] = job[d]
  BY DEF Local
<1>5. ASSUME NEW r \in Procs, Unseen(r)' PROVE Unseen(r)
  <2>1. pstate'[r] = "building" => Unseen(r)
    BY DEF Unseen
  <2>2. pc'[c] = "dealloc" /\ job'[c].mm = r /\ current_task'[c] # r => Unseen(r)
    OBVIOUS
  <2> QED
    BY <1>4, <1>5, <2>1, <2>2, UnseenKept
<1>6. AsidsKept'
  BY <1>2 DEF TlbInv, AsidsKept
<1>7. ASSUME NEW d \in Cpus PROVE RootKept(d)'
  BY <1>4 DEF TlbInv, RootKept
<1>8. ASSUME NEW d \in Cpus PROVE LocalCurrent(d)'
  <2> SUFFICES ASSUME current_task[d] # NULL, NEW e \in tlb'[d], e.asid = asid[current_task[d]]
               PROVE  page_table'[current_task[d]][e.page] = e.frame
    BY DEF LocalCurrent
  <2>1. e \in tlb[d] /\ page_table[current_task[d]][e.page] = e.frame /\ current_task[d] \in Procs
    BY <1>2 DEF TlbInv, LocalCurrent, Control, ControlTypes
  <2>2. CASE current_task[d] = p
    <3>1. d = c
      BY <2>2 DEF Owns
    <3>2. e.page \notin S /\ e.page \in Pages
      BY <1>3, <2>1, <2>2, <3>1, CachedTypes
    <3> QED
      BY <1>1, <2>1, <2>2, <3>2
  <2>3. CASE current_task[d] # p
    BY <1>1, <2>1, <2>3
  <2> QED
    BY <2>2, <2>3
<1>9. ASSUME NEW r \in Procs PROVE UnseenNotCached(r)'
  BY <1>2, <1>5 DEF TlbInv, UnseenNotCached
<1>10. ASSUME NEW r \in Procs, NEW d \in Cpus PROVE RemoteCurrent(r, d)'
  <2> SUFFICES ASSUME asid[r] # 0, current_task[d] # r, NEW e \in tlb'[d], e.asid = asid[r]
               PROVE  page_table'[r][e.page] = e.frame \/ Pending(r, d, e)'
    BY DEF RemoteCurrent
  <2>1. e \in tlb[d] /\ (page_table[r][e.page] = e.frame \/ Pending(r, d, e))
    BY <1>2 DEF TlbInv, RemoteCurrent
  <2>2. CASE r # p
    BY <1>1, <2>1, <2>2, PendingKept
  <2>3. CASE r = p
    <3>1. ~ Pending(p, d, e)
      BY OnlyOwnerPends
    <3>2. page_table[p][e.page] = e.frame /\ e.page \in Pages /\ e.frame # NULL
      BY <2>1, <2>3, <3>1, CachedTypes
    <3>3. e.page \notin S
      BY <3>2 DEF Mapped
    <3> QED
      BY <1>1, <2>3, <3>2, <3>3
  <2> QED
    BY <2>2, <2>3
<1> QED
  BY <1>6, <1>7, <1>8, <1>9, <1>10 DEF TlbInv

(* The hardware caches what is in the table of the process that is current. *)
LEMMA TlbFillTlb ==
  ASSUME DataTypes, Control, TlbInv, NEW c \in Cpus, NEW v \in Pages, TlbFill(c, v)
  PROVE  TlbInv'
<1> DEFINE n == [asid |-> asid[root[c]], page |-> v, frame |-> page_table[root[c]][v]]
<1>1. /\ root[c] # NULL
      /\ \E kept \in SUBSET tlb[c]: tlb' = [tlb EXCEPT ![c] = kept \union {n}]
      /\ UNCHANGED <<machine, pstate, page_table, vmas, asid, asid_bitmap, current_task, root, pc, job>>
  BY DEF TlbFill, mmVars, cpuVars
<1>2. n.asid = asid[root[c]] /\ n.page = v /\ n.frame = page_table[root[c]][v]
  OBVIOUS
<1> HIDE DEF n
<1> PICK p \in Procs: p = root[c]
  BY <1>1 DEF DataTypes
<1>3. /\ p = current_task[c] /\ ~ (pc[c] = "asid" /\ job[c].mm = p) /\ Owns(c, p)
      /\ pstate[p] # "building" /\ p # NULL
  <2>1. p = current_task[c] /\ ~ (pc[c] = "asid" /\ job[c].mm = p) /\ p # NULL
    BY <1>1 DEF TlbInv, RootKept
  <2>2. Owns(c, p)
    BY <2>1, CurrentIsOwn
  <2>3. pstate[p] # "building"
    BY <2>1 DEF Control, CurrentOk
  <2> QED
    BY <2>1, <2>2, <2>3
<1>4. /\ \A d \in Cpus: d # c => tlb'[d] = tlb[d]
      /\ \A e \in tlb'[c]: e \in tlb[c] \/ e = n
  BY <1>1 DEF DataTypes
<1>5. ~ Unseen(p)
  BY <1>3 DEF Unseen, Owns
<1>6. AsidsKept'
  BY <1>1, <1>2, <1>4 DEF TlbInv, AsidsKept
<1>7. ASSUME NEW d \in Cpus PROVE RootKept(d)'
  BY <1>1 DEF TlbInv, RootKept
<1>8. ASSUME NEW d \in Cpus PROVE LocalCurrent(d)'
  BY <1>1, <1>2, <1>3, <1>4 DEF TlbInv, LocalCurrent
<1>9. ASSUME NEW r \in Procs PROVE UnseenNotCached(r)'
  <2>1. Unseen(r)' <=> Unseen(r)
    BY <1>1 DEF Unseen
  <2>2. Unseen(r) /\ asid[r] # 0 => asid[r] # asid[p]
    BY <1>5 DEF TlbInv, AsidsKept
  <2> QED
    BY SMT, Z3T(30), <1>1, <1>2, <1>4, <2>1, <2>2 DEF TlbInv, UnseenNotCached
<1>10. ASSUME NEW r \in Procs, NEW d \in Cpus PROVE RemoteCurrent(r, d)'
  <2>1. ASSUME NEW e PROVE Pending(r, d, e)' <=> Pending(r, d, e)
    BY <1>1 DEF Pending, Releasing, Span, Area, arch
  <2>2. asid[r] # 0 /\ current_task[c] # r => asid[r] # asid[p]
    BY <1>3 DEF TlbInv, AsidsKept
  <2> QED
    BY <1>1, <1>2, <1>4, <2>1, <2>2 DEF TlbInv, RemoteCurrent
<1> QED
  BY <1>6, <1>7, <1>8, <1>9, <1>10 DEF TlbInv

(* A process finds on its CPU what its table says, or nothing. *)
LEMMA TaskActivateTlb ==
  ASSUME DataTypes, Control, TlbInv, NEW c \in Cpus, NEW p \in Procs \union {NULL},
         TaskActivate(c, p)
  PROVE  TlbInv'
<1>1. /\ pc[c] = "run" /\ p # current_task[c]
      /\ p # NULL => /\ pstate[p] = "ready" /\ tlb' = ActivateTlb(c, p)
                     /\ \A d \in Cpus: current_task[d] # p
      /\ p = NULL => tlb' = tlb
      /\ current_task' = [current_task EXCEPT ![c] = p] /\ root' = [root EXCEPT ![c] = p]
      /\ UNCHANGED <<machine, pstate, page_table, vmas, asid, asid_bitmap, pc, job>>
  BY DEF TaskActivate, mmVars
<1>2. /\ current_task'[c] = p /\ root'[c] = p
      /\ \A d \in Cpus: d # c => current_task'[d] = current_task[d] /\ root'[d] = root[d]
  BY <1>1 DEF Control, ControlTypes, DataTypes
<1>3. \A d \in Cpus: tlb'[d] \subseteq tlb[d]
  BY <1>1 DEF ActivateTlb, Flush, DataTypes
<1>4. p # NULL /\ asid[p] = 0 => \A e \in tlb'[c]: e.asid # 0
  <2>1. arch \in {"riscv", "arm64"}
    BY AddrSpaceAssumption DEF AddrSpaceAssumption, DataTypes, arch
  <2> QED
    BY <1>1, <2>1 DEF ActivateTlb, Flush, DataTypes
<1>5. AsidsKept'
  BY <1>1, <1>3 DEF TlbInv, AsidsKept
<1>6. ASSUME NEW d \in Cpus PROVE RootKept(d)'
  BY <1>1, <1>2 DEF TlbInv, RootKept
<1>7. ASSUME NEW d \in Cpus, d # c PROVE LocalCurrent(d)'
  BY SMT, Z3T(30), <1>1, <1>2, <1>3, <1>7 DEF TlbInv, LocalCurrent
<1>8. LocalCurrent(c)'
  <2> SUFFICES ASSUME p # NULL, NEW e \in tlb'[c], e.asid = asid[p]
               PROVE  page_table[p][e.page] = e.frame
    BY <1>1, <1>2 DEF LocalCurrent
  <2>1. p \in Procs /\ asid[p] # 0 /\ e \in tlb[c] /\ current_task[c] # p
    BY <1>1, <1>3, <1>4
  <2>2. page_table[p][e.page] = e.frame \/ Pending(p, c, e)
    BY <2>1 DEF TlbInv, RemoteCurrent
  <2>3. ~ Pending(p, c, e)
    <3>1. ASSUME NEW b \in Cpus, pc[b] = "dealloc", job[b].mm = p PROVE FALSE
      <4>1. JobOk(b) /\ job[b].then \in {"run", "exec", "exit"}
        BY DEF Control, ControlTypes
      <4> QED
        BY <1>1, <2>1, <3>1, <4>1 DEF JobOk, ShrinkJob, ExecJob, ExitJob
    <3> QED
      BY <3>1 DEF Pending, Releasing
  <2> QED
    BY <2>2, <2>3
<1>9. ASSUME NEW r \in Procs PROVE UnseenNotCached(r)'
  <2>1. Unseen(r)' => Unseen(r)
    BY <1>1, <1>2 DEF Unseen
  <2> QED
    BY <1>1, <1>3, <2>1 DEF TlbInv, UnseenNotCached
<1>10. ASSUME NEW r \in Procs, NEW d \in Cpus PROVE RemoteCurrent(r, d)'
  <2>1. ASSUME NEW e PROVE Pending(r, d, e)' <=> Pending(r, d, e)
    BY <1>1 DEF Pending, Releasing, Span, Area, arch
  <2>2. ASSUME NEW e \in tlb[d], asid[r] # 0, e.asid = asid[r]
        PROVE  page_table[r][e.page] = e.frame \/ Pending(r, d, e)
    <3>1. r # NULL
      BY AddrSpaceAssumption DEF AddrSpaceAssumption
    <3>2. CASE current_task[d] = r
      BY <2>2, <3>1, <3>2 DEF TlbInv, LocalCurrent
    <3>3. CASE current_task[d] # r
      BY <2>2, <3>3 DEF TlbInv, RemoteCurrent
    <3> QED
      BY <3>2, <3>3
  <2> QED
    BY <1>1, <1>3, <2>1, <2>2 DEF RemoteCurrent
<1> QED
  BY <1>5, <1>6, <1>7, <1>8, <1>9, <1>10 DEF TlbInv

(* Pages that go are flushed on this CPU, and wait for it on the others. *)
LEMMA DeallocRoundTlb ==
  ASSUME LeastExists, DataTypes, Control, TlbInv, NEW c \in Cpus, DeallocRound(c)
  PROVE  TlbInv'
<1>1. /\ Releasing(c) /\ pc[c] = "dealloc"
      /\ UNCHANGED <<machine, pstate, vmas, asid, asid_bitmap, current_task, root, pc, job>>
  BY DEF DeallocRound, Releasing, cpuVars
<1> PICK p \in Procs: p = job[c].mm
  BY <1>1, JobIsOwn
<1>2. Owns(c, p)
  BY <1>1, JobIsOwn
<1>3. PICK S:
        /\ S \subseteq Span(c) \cap Mapped(p)
        /\ page_table' = [page_table EXCEPT ![p] =
                            [v \in Pages |-> IF v \in S THEN NULL ELSE @[v]]]
        /\ tlb' = MapTlb(c, p, S)
  BY RoundIs
<1>4. /\ \A q \in Procs: q # p => page_table'[q] = page_table[q]
      /\ \A n \in Pages: n \notin S => page_table'[p][n] = page_table[p][n]
  BY <1>3 DEF DataTypes
<1>5. /\ \A d \in Cpus: tlb'[d] \subseteq tlb[d]
      /\ current_task[c] = p =>
           \A d \in Cpus: d = c \/ arch # "riscv" => \A e \in tlb'[d]: e.page \notin S
  BY <1>3, MapTlbIs
<1>6. AsidsKept'
  BY <1>1, <1>5 DEF TlbInv, AsidsKept
<1>7. ASSUME NEW d \in Cpus PROVE RootKept(d)'
  BY <1>1 DEF TlbInv, RootKept
<1>8. ASSUME NEW d \in Cpus PROVE LocalCurrent(d)'
  <2> SUFFICES ASSUME current_task[d] # NULL, NEW e \in tlb'[d], e.asid = asid[current_task[d]]
               PROVE  page_table'[current_task[d]][e.page] = e.frame
    BY <1>1 DEF LocalCurrent
  <2>1. e \in tlb[d] /\ page_table[current_task[d]][e.page] = e.frame /\ current_task[d] \in Procs
    BY <1>5 DEF TlbInv, LocalCurrent, Control, ControlTypes
  <2>2. CASE current_task[d] = p
    <3>1. d = c
      BY <1>2, <2>2 DEF Owns
    <3>2. e.page \notin S /\ e.page \in Pages
      BY <1>5, <2>1, <2>2, <3>1, CachedTypes
    <3> QED
      BY <1>4, <2>1, <2>2, <3>2
  <2>3. CASE current_task[d] # p
    BY <1>4, <2>1, <2>3
  <2> QED
    BY <2>2, <2>3
<1>9. ASSUME NEW r \in Procs PROVE UnseenNotCached(r)'
  <2>1. Unseen(r)' <=> Unseen(r)
    BY <1>1 DEF Unseen
  <2> QED
    BY <1>1, <1>5, <2>1 DEF TlbInv, UnseenNotCached
<1>10. ASSUME NEW r \in Procs, NEW d \in Cpus PROVE RemoteCurrent(r, d)'
  <2> SUFFICES ASSUME asid[r] # 0, current_task[d] # r, NEW e \in tlb'[d], e.asid = asid[r]
               PROVE  page_table'[r][e.page] = e.frame \/ Pending(r, d, e)'
    BY <1>1 DEF RemoteCurrent
  <2>1. e \in tlb[d] /\ (page_table[r][e.page] = e.frame \/ Pending(r, d, e))
    BY <1>5 DEF TlbInv, RemoteCurrent
  <2>2. Pending(r, d, e)' <=> Pending(r, d, e)
    BY <1>1 DEF Pending, Releasing, Span, Area, arch
  <2>3. CASE r # p \/ e.page \notin S
    BY <1>4, <2>1, <2>2, <2>3, CachedTypes
  <2>4. CASE r = p /\ e.page \in S
    <3>1. current_task[c] = p
      BY <1>1, <2>1, <2>4 DEF TlbInv, UnseenNotCached, Unseen
    <3>2. d # c /\ arch = "riscv"
      BY <1>5, <2>4, <3>1
    <3>3. Pending(p, d, e)
      BY <1>1, <1>3, <2>4, <3>2 DEF Pending
    <3> QED
      BY <2>2, <2>4, <3>3
  <2> QED
    BY <2>3, <2>4
<1> QED
  BY <1>6, <1>7, <1>8, <1>9, <1>10 DEF TlbInv

(* What had to wait is flushed before the area goes. *)
LEMMA DeallocEndTlb ==
  ASSUME DataTypes, Control, TlbInv, NEW c \in Cpus, DeallocEnd(c)
  PROVE  TlbInv'
<1>1. /\ Releasing(c) /\ pc[c] = "dealloc"
      /\ tlb' = FlushOthers(c, asid[job[c].mm], Span(c))
      /\ UNCHANGED <<machine, pstate, page_table, asid, asid_bitmap, current_task, root>>
  BY DEF DeallocEnd, Releasing, cpuVars
<1> PICK p \in Procs: p = job[c].mm
  BY <1>1, JobIsOwn
<1>2. Owns(c, p)
  BY <1>1, JobIsOwn
<1>3. \/ pc' = [pc EXCEPT ![c] = "run"] /\ job' = [job EXCEPT ![c] = NoJob]
      \/ UNCHANGED <<pc, job>>
  BY DEF DeallocEnd, Goto
<1>4. \E V: vmas' = [vmas EXCEPT ![p] = V]
  BY DEF DeallocEnd
<1>5. Local(c, p) /\ (pc'[c] = "run" \/ UNCHANGED <<pc, job>>)
  BY <1>3, <1>4 DEF Local, Control, ControlTypes
<1>6. /\ \A d \in Cpus: tlb'[d] \subseteq tlb[d]
      /\ arch = "riscv" =>
           \A d \in Cpus: d # c => \A e \in tlb'[d]: ~ (e.asid = asid[p] /\ e.page \in Span(c))
  BY <1>1 DEF FlushOthers, Flush
<1>7. ASSUME NEW r \in Procs, Unseen(r)' PROVE Unseen(r)
  BY <1>1, <1>5, <1>7 DEF Unseen, Local
<1>8. ASSUME NEW r \in Procs, NEW d \in Cpus, NEW e \in tlb'[d], e.asid = asid[r], Pending(r, d, e)
      PROVE  Pending(r, d, e)'
  <2>1. PICK b \in Cpus: b # d /\ Releasing(b) /\ job[b].mm = r /\ e.page \in Span(b)
    BY <1>8 DEF Pending
  <2>2. b # c
    BY <1>6, <1>8, <2>1 DEF Pending
  <2>3. Releasing(b)' /\ Span(b)' = Span(b) /\ job'[b].mm = job[b].mm
    BY <1>2, <1>5, <2>1, <2>2, SpanKept
  <2>4. arch' = "riscv"
    BY <1>1, <1>8 DEF Pending, arch
  <2> QED
    BY <2>1, <2>3, <2>4 DEF Pending
<1>9. \A d \in Cpus: d # c => pc'[d] = pc[d] /\ job'[d] = job[d]
  BY <1>5 DEF Local
<1>10. pc'[c] # "asid" \/ (pc'[c] = pc[c] /\ job'[c] = job[c])
  BY <1>5
<1> QED
  BY <1>1, <1>6, <1>7, <1>8, <1>9, <1>10, TlbQuiet

(* The last of a process leaves every CPU, and its CPU leaves the table. *)
LEMMA FreeRootTlb ==
  ASSUME DataTypes, Control, TlbInv, NEW c \in Cpus, FreeRoot(c), page_table' = page_table
  PROVE  TlbInv'
<1>1. /\ pc[c] = "dealloc" /\ vmas[job[c].mm] = {}
      /\ UNCHANGED <<machine, pstate, vmas, asid, asid_bitmap, current_task>>
  BY DEF FreeRoot
<1> PICK p \in Procs: p = job[c].mm
  BY <1>1, JobIsOwn
<1>2. Owns(c, p)
  BY <1>1, JobIsOwn
<1>3. /\ root' = [root EXCEPT ![c] = IF current_task[c] = p THEN NULL ELSE @]
      /\ tlb' = IF asid[p] = 0 THEN tlb ELSE FlushAsid(asid[p])
      /\ pc' = [pc EXCEPT ![c] = "asid"] /\ job' = [job EXCEPT ![c] = job[c]]
  BY DEF FreeRoot, Goto
<1>4. /\ root'[c] = (IF current_task[c] = p THEN NULL ELSE root[c]) /\ pc'[c] = "asid"
      /\ job'[c] = job[c]
      /\ \A d \in Cpus: d # c => root'[d] = root[d] /\ pc'[d] = pc[d] /\ job'[d] = job[d]
  BY <1>3 DEF Control, ControlTypes, DataTypes
<1>5. /\ \A d \in Cpus: tlb'[d] \subseteq tlb[d]
      /\ asid[p] # 0 => \A d \in Cpus: \A e \in tlb'[d]: e.asid # asid[p]
  BY <1>3 DEF FlushAsid, Flush
<1>6. AsidsKept'
  BY <1>1, <1>5 DEF TlbInv, AsidsKept
<1>7. ASSUME NEW d \in Cpus PROVE RootKept(d)'
  BY <1>1, <1>4 DEF TlbInv, RootKept
<1>8. ASSUME NEW d \in Cpus PROVE LocalCurrent(d)'
  BY <1>1, <1>5 DEF TlbInv, LocalCurrent
<1>9. ASSUME NEW r \in Procs PROVE UnseenNotCached(r)'
  <2>1. r # p /\ Unseen(r)' => Unseen(r)
    BY <1>1, <1>4 DEF Unseen
  <2> QED
    BY <1>1, <1>5, <2>1 DEF TlbInv, UnseenNotCached
<1>10. ASSUME NEW r \in Procs, NEW d \in Cpus PROVE RemoteCurrent(r, d)'
  <2>1. Local(c, p) /\ ~ Releasing(c)
    BY <1>1, <1>4 DEF Local, Releasing
  <2>2. ASSUME NEW e, Pending(r, d, e) PROVE Pending(r, d, e)'
    BY <1>1, <1>2, <2>1, <2>2, PendingKept
  <2> QED
    BY <1>1, <1>5, <2>2 DEF TlbInv, RemoteCurrent
<1> QED
  BY <1>6, <1>7, <1>8, <1>9, <1>10 DEF TlbInv

(* Then its identifier is free. *)
LEMMA AsidClearTlb ==
  ASSUME DataTypes, Control, TlbInv, NEW c \in Cpus, AsidClear(c)
  PROVE  TlbInv'
<1>1. pc[c] = "asid" /\ UNCHANGED <<machine, page_table, vmas, root, tlb>>
  BY DEF AsidClear
<1> PICK p \in Procs: p = job[c].mm
  BY <1>1, JobIsOwn
<1>2. Owns(c, p)
  BY <1>1, JobIsOwn
<1>3. /\ asid_bitmap' = asid_bitmap \ ({asid[p]} \ {0})
      /\ pstate' = [pstate EXCEPT ![p] = "none"]
      /\ asid' = [asid EXCEPT ![p] = 0]
      /\ current_task' = [current_task EXCEPT ![c] = IF @ = p THEN NULL ELSE @]
      /\ pc' = [pc EXCEPT ![c] = "run"] /\ job' = [job EXCEPT ![c] = NoJob]
  BY DEF AsidClear, Goto
<1>4. /\ current_task'[c] = (IF current_task[c] = p THEN NULL ELSE current_task[c]) /\ pc'[c] = "run"
      /\ \A d \in Cpus: d # c =>
           current_task'[d] = current_task[d] /\ pc'[d] = pc[d] /\ job'[d] = job[d]
      /\ asid'[p] = 0 /\ pstate'[p] = "none"
      /\ \A q \in Procs: q # p => asid'[q] = asid[q] /\ pstate'[q] = pstate[q]
  BY <1>3 DEF Control, ControlTypes, DataTypes
<1>5. asid[p] # 0 => \A d \in Cpus: \A e \in tlb[d]: e.asid # asid[p]
  BY <1>1 DEF TlbInv, UnseenNotCached, Unseen
<1>6. AsidsKept'
  BY SMT, Z3T(30), <1>1, <1>3, <1>4, <1>5 DEF TlbInv, AsidsKept
<1>7. ASSUME NEW d \in Cpus PROVE RootKept(d)'
  BY SMT, Z3T(30), <1>1, <1>4 DEF TlbInv, RootKept
<1>8. ASSUME NEW d \in Cpus PROVE LocalCurrent(d)'
  <2>1. current_task'[d] # NULL =>
          current_task'[d] = current_task[d] /\ current_task[d] \in Procs /\ current_task[d] # p
    BY SMT, Z3T(30), <1>2, <1>4 DEF Owns, Control, ControlTypes
  <2> QED
    BY SMT, Z3T(30), <1>1, <1>4, <2>1 DEF TlbInv, LocalCurrent
<1>9. ASSUME NEW r \in Procs PROVE UnseenNotCached(r)'
  <2>1. r # p /\ Unseen(r)' => Unseen(r)
    BY <1>4 DEF Unseen
  <2> QED
    BY SMT, Z3T(30), <1>1, <1>4, <2>1 DEF TlbInv, UnseenNotCached
<1>10. ASSUME NEW r \in Procs, NEW d \in Cpus PROVE RemoteCurrent(r, d)'
  <2>1. Local(c, p) /\ ~ Releasing(c)
    BY <1>1, <1>4 DEF Local, Releasing
  <2>2. ASSUME NEW e, Pending(r, d, e) PROVE Pending(r, d, e)'
    BY <1>1, <1>2, <2>1, <2>2, PendingKept
  <2>3. r # NULL
    BY AddrSpaceAssumption DEF AddrSpaceAssumption
  <2> QED
    BY SMT, Z3T(30), <1>1, <1>4, <2>2, <2>3 DEF TlbInv, RemoteCurrent
<1> QED
  BY <1>6, <1>7, <1>8, <1>9, <1>10 DEF TlbInv

(* asid_alloc() hands out what is cached nowhere. *)
LEMMA SysForkTlb ==
  ASSUME LeastExists, DataTypes, Control, TlbInv, NEW c \in Cpus, NEW p \in Procs, NEW q \in Procs,
         SysFork(c, p, q)
  PROVE  TlbInv'
<1>1. /\ Calls(c, p) /\ pstate[q] = "none"
      /\ pstate' = [pstate EXCEPT ![q] = "building"]
      /\ asid' = [asid EXCEPT ![q] = NewAsid]
      /\ asid_bitmap' = asid_bitmap \union {NewAsid}
      /\ tlb' = [tlb EXCEPT ![c] = {}] \/ tlb' = tlb
      /\ UNCHANGED <<machine, page_table, vmas, current_task, root>>
  BY DEF SysFork, cpuVars
<1>2. /\ pc' = [pc EXCEPT ![c] = "fork"]
      /\ job' = [job EXCEPT ![c] = [mm |-> q, from |-> 0, then |-> "run"]]
  BY Jobs DEF SysFork, Goto
<1>3. /\ pc[c] = "run" /\ pc'[c] = "fork"
      /\ \A d \in Cpus: d # c => pc'[d] = pc[d] /\ job'[d] = job[d]
      /\ asid'[q] = NewAsid /\ pstate'[q] = "building"
      /\ \A r \in Procs: r # q => asid'[r] = asid[r] /\ pstate'[r] = pstate[r]
      /\ \A d \in Cpus: tlb'[d] \subseteq tlb[d]
  BY <1>1, <1>2 DEF Calls, Control, ControlTypes, DataTypes
<1>4. /\ NewAsid # 0 => /\ NewAsid \notin asid_bitmap
                        /\ \A d \in Cpus: \A e \in tlb[d]: e.asid # NewAsid
  BY NewAsidIs, TypesSplit DEF TlbInv, AsidsKept
<1>5. \A d \in Cpus: current_task[d] # q
  BY SMT, Z3T(30), <1>1, AddrSpaceAssumption DEF Control, CurrentOk, AddrSpaceAssumption
<1>6. AsidsKept'
  <2> HIDE DEF NewAsid
  <2>1. ASSUME NEW r \in Procs, NEW s \in Procs, r # s, asid'[r] = asid'[s] PROVE asid'[r] = 0
    BY SMT, Z3T(30), <1>3, <1>4, <2>1 DEF TlbInv, AsidsKept
  <2> QED
    BY SMT, Z3T(30), <1>1, <1>3, <2>1 DEF TlbInv, AsidsKept
<1>7. ASSUME NEW d \in Cpus PROVE RootKept(d)'
  BY <1>1, <1>3 DEF TlbInv, RootKept
<1>8. ASSUME NEW d \in Cpus PROVE LocalCurrent(d)'
  <2>1. current_task[d] # NULL => asid'[current_task[d]] = asid[current_task[d]]
    BY SMT, Z3T(30), <1>3, <1>5 DEF Control, ControlTypes
  <2> QED
    BY SMT, Z3T(30), <1>1, <1>3, <2>1 DEF TlbInv, LocalCurrent
<1>9. ASSUME NEW r \in Procs PROVE UnseenNotCached(r)'
  <2>1. r # q /\ Unseen(r)' => Unseen(r)
    BY <1>1, <1>3 DEF Unseen
  <2> QED
    BY SMT, Z3T(30), <1>3, <1>4, <2>1 DEF TlbInv, UnseenNotCached
<1>10. ASSUME NEW r \in Procs, NEW d \in Cpus PROVE RemoteCurrent(r, d)'
  <2>1. Owns(c, p) /\ Local(c, p) /\ ~ Releasing(c)
    BY <1>1, <1>3, CallerIs DEF Local, Releasing
  <2>2. ASSUME NEW e, Pending(r, d, e) PROVE Pending(r, d, e)'
    BY <1>1, <2>1, <2>2, PendingKept
  <2> QED
    BY SMT, Z3T(30), <1>1, <1>3, <1>4, <2>2 DEF TlbInv, RemoteCurrent
<1> QED
  BY <1>6, <1>7, <1>8, <1>9, <1>10 DEF TlbInv

LEMMA StartExitTlb ==
  ASSUME Control, TlbInv, NEW c \in Cpus, NEW p \in Procs, Owns(c, p), ~ Releasing(c),
         StartExit(c, p), current_task[c] = p \/ Unseen(p),
         UNCHANGED <<machine, page_table, vmas, asid, asid_bitmap, root, current_task, tlb>>
  PROVE  TlbInv'
<1>1. /\ pc'[c] = "dealloc" /\ job'[c].mm = p
      /\ \A d \in Cpus: d # c => pc'[d] = pc[d] /\ job'[d] = job[d]
      /\ \A r \in Procs: pstate'[r] = "building" => pstate[r] = "building"
  BY ExitIs
<1>2. Local(c, p)
  BY <1>1 DEF Local
<1> QED
  BY <1>1, <1>2, GotoTlb

LEMMA TaskHandleFaultTlb ==
  ASSUME DataTypes, Control, TlbInv, NEW c \in Cpus, NEW p \in Procs, NEW v \in Pages,
         TaskHandleFault(c, p, v)
  PROVE  TlbInv'
<1>1. /\ Calls(c, p) /\ page_table[p][v] = NULL
      /\ UNCHANGED <<machine, vmas, asid, asid_bitmap, current_task, root>>
  BY DEF TaskHandleFault, cpuVars
<1>2. Owns(c, p) /\ pc[c] = "run" /\ current_task[c] = p /\ ~ Releasing(c)
  BY <1>1, CallerIs DEF Releasing
<1>3. CASE Alloc(p, {v}, Zero({v})) /\ tlb' = MapTlb(c, p, {v}) /\ UNCHANGED <<pstate, pc, job>>
  <2>1. {v} \subseteq Pages /\ {v} \cap Mapped(p) = {} /\ Local(c, p)
    BY <1>1, <1>3 DEF Mapped, Local
  <2> QED
    BY <1>1, <1>2, <1>3, <2>1, AllocTlb
<1>4. CASE StartExit(c, p) /\ UNCHANGED <<page_table, memVars, tlb>>
  BY <1>1, <1>2, <1>4, StartExitTlb
<1> QED
  BY <1>3, <1>4 DEF TaskHandleFault

LEMMA SysBrkTlb ==
  ASSUME DataTypes, Control, TlbInv, NEW c \in Cpus, NEW p \in Procs, NEW n, SysBrk(c, p, n)
  PROVE  TlbInv'
<1>1. /\ Calls(c, p)
      /\ UNCHANGED <<machine, pstate, page_table, asid, asid_bitmap, current_task, root, tlb>>
  BY DEF SysBrk, cpuVars
<1>2. Owns(c, p) /\ pc[c] = "run" /\ current_task[c] = p /\ ~ Releasing(c)
  BY <1>1, CallerIs DEF Releasing
<1>3. \/ UNCHANGED <<pc, job>>
      \/ Goto(c, "dealloc", [NoJob EXCEPT !.mm = p, !.from = n])
  BY DEF SysBrk
<1>4. \E V: vmas' = [vmas EXCEPT ![p] = V]
  <2>1. vmas = [vmas EXCEPT ![p] = vmas[p]]
    BY DEF Control, ControlTypes
  <2> QED
    BY <2>1 DEF SysBrk
<1>5. /\ \A d \in Cpus: d # c => pc'[d] = pc[d] /\ job'[d] = job[d]
      /\ pc'[c] # "asid" /\ (pc'[c] = "dealloc" => job'[c].mm = p)
  <2>1. CASE UNCHANGED <<pc, job>>
    BY <1>2, <2>1
  <2>2. CASE Goto(c, "dealloc", [NoJob EXCEPT !.mm = p, !.from = n])
    <3>1. /\ pc' = [pc EXCEPT ![c] = "dealloc"]
          /\ job' = [job EXCEPT ![c] = [mm |-> p, from |-> n, then |-> "run"]]
      BY <2>2, Jobs DEF Goto
    <3> QED
      BY <3>1 DEF Control, ControlTypes
  <2> QED
    BY <1>3, <2>1, <2>2
<1>6. Local(c, p)
  BY <1>4, <1>5 DEF Local, Control, ControlTypes
<1> QED
  BY <1>1, <1>2, <1>5, <1>6, GotoTlb

LEMMA SysExecveTlb ==
  ASSUME DataTypes, Control, TlbInv, NEW c \in Cpus, NEW p \in Procs, SysExecve(c, p)
  PROVE  TlbInv'
<1>1. /\ Calls(c, p)
      /\ UNCHANGED <<machine, pstate, page_table, vmas, asid, asid_bitmap, current_task, root, tlb>>
  BY DEF SysExecve, mmVars, cpuVars
<1>2. Owns(c, p) /\ pc[c] = "run" /\ current_task[c] = p /\ ~ Releasing(c)
  BY <1>1, CallerIs DEF Releasing
<1>3. /\ pc' = [pc EXCEPT ![c] = "dealloc"]
      /\ job' = [job EXCEPT ![c] = [mm |-> p, from |-> 0, then |-> "exec"]]
  BY Jobs DEF SysExecve, Goto
<1>4. pc'[c] = "dealloc" /\ job'[c].mm = p /\ Local(c, p)
  BY <1>1, <1>3 DEF Local, Control, ControlTypes
<1> QED
  BY <1>1, <1>2, <1>4, GotoTlb

LEMMA LoadStackTlb ==
  ASSUME DataTypes, Control, \A r \in Procs: Fits(r), TlbInv, NEW c \in Cpus, LoadStack(c)
  PROVE  TlbInv'
<1> DEFINE top == UserEnd - 1
<1>1. /\ pc[c] = "dealloc" /\ vmas[job[c].mm] = {} /\ job[c].then = "exec"
      /\ UNCHANGED <<machine, asid, asid_bitmap, current_task, root>>
  BY DEF LoadStack, cpuVars
<1> PICK p \in Procs: p = job[c].mm
  BY <1>1, JobIsOwn
<1>2. Owns(c, p) /\ current_task[c] = p /\ ~ Releasing(c)
  BY <1>1, JobIsOwn DEF Control, JobOk, ExecJob, Releasing
<1>3. CASE StartExit(c, p) /\ UNCHANGED <<page_table, vmas, memVars, tlb>>
  BY <1>1, <1>2, <1>3, StartExitTlb
<1>4. CASE /\ vmas' = [vmas EXCEPT ![p] = {Stack}]
           /\ Alloc(p, {top}, Zero({top})) /\ tlb' = MapTlb(c, p, {top})
           /\ Goto(c, "load", job[c]) /\ UNCHANGED pstate
  <2>1. {top} \subseteq Pages
    BY Sizes
  <2>2. {top} \cap Mapped(p) = {}
    BY <1>1, NoAreas
  <2> HIDE DEF top
  <2>3. pc' = [pc EXCEPT ![c] = "load"] /\ job' = [job EXCEPT ![c] = job[c]]
    BY <1>4 DEF Goto
  <2>4. Local(c, p) /\ pc'[c] = "load"
    BY <1>4, <2>3 DEF Local, Control, ControlTypes
  <2> QED
    BY <1>1, <1>2, <1>4, <2>1, <2>2, <2>4, AllocTlb
<1> QED
  BY <1>3, <1>4 DEF LoadStack

LEMMA LoadTextTlb ==
  ASSUME DataTypes, Control, \A r \in Procs: Fits(r), TlbInv, NEW c \in Cpus, LoadText(c)
  PROVE  TlbInv'
<1>1. pc[c] = "load" /\ UNCHANGED <<machine, asid, asid_bitmap, current_task, root>>
  BY DEF LoadText, cpuVars
<1> PICK p \in Procs: p = job[c].mm
  BY <1>1, JobIsOwn
<1>2. Owns(c, p) /\ current_task[c] = p /\ ~ Releasing(c) /\ vmas[p] = {Stack}
  <2>1. JobOk(c) /\ job[c].then \in {"run", "exec", "exit"}
    BY DEF Control, ControlTypes
  <2>2. job[c].then = "exec"
    BY <1>1, <2>1 DEF JobOk, ExitJob
  <2>3. current_task[c] = p /\ vmas[p] = {Stack}
    BY <1>1, <2>1, <2>2 DEF JobOk, ExecJob
  <2> QED
    BY <1>1, <2>3, JobIsOwn DEF Releasing
<1>3. CASE StartExit(c, p) /\ UNCHANGED <<page_table, vmas, brk, memVars, tlb>>
  BY <1>1, <1>2, <1>3, StartExitTlb
<1>4. CASE /\ vmas' = [vmas EXCEPT ![p] = @ \union {Text}]
           /\ Alloc(p, PagesOf(Text), Zero(PagesOf(Text))) /\ tlb' = MapTlb(c, p, PagesOf(Text))
           /\ Goto(c, "run", NoJob) /\ UNCHANGED pstate
  <2>1. PagesOf(Text) \cap PagesOf(Stack) = {}
    BY SMT, Z3T(30), Sizes DEF PagesOf, Text, Stack, HeapBase
  <2>2. PagesOf(Text) \cap Mapped(p) = {}
    BY <1>2, <2>1 DEF Fits
  <2>3. pc' = [pc EXCEPT ![c] = "run"] /\ job' = [job EXCEPT ![c] = NoJob]
    BY <1>4 DEF Goto
  <2>4. Local(c, p) /\ pc'[c] = "run"
    BY <1>4, <2>3 DEF Local, Control, ControlTypes
  <2> QED
    BY <1>1, <1>2, <1>4, <2>2, <2>4, TextPages, AllocTlb
<1> QED
  BY <1>3, <1>4 DEF LoadText

LEMMA ForkVmaTlb ==
  ASSUME DataTypes, Control, \A r \in Procs: Fits(r), TlbInv, NEW c \in Cpus, ForkVma(c)
  PROVE  TlbInv'
<1>1. pc[c] = "fork" /\ UNCHANGED <<machine, asid, asid_bitmap, current_task, root, tlb>>
  BY DEF ForkVma, cpuVars
<1> PICK q \in Procs: q = job[c].mm
  BY <1>1, JobIsOwn
<1> PICK p \in Procs: p = current_task[c]
  BY <1>1 DEF Control, ControlTypes, JobOk, ForkJob
<1>2. PICK v \in vmas[p] \ vmas[q]: ForkTakes(c, p, q, v)
  BY ForkVmaIs
<1>3. Owns(c, q) /\ p # q /\ PagesOf(v) \cap Mapped(q) = {} /\ ~ Releasing(c) /\ Unseen(q)
  BY <1>1, ForkIs DEF Releasing, Unseen, Control, JobOk, ForkJob
<1>4. ASSUME NEW S, S \subseteq Copied(p, v),
             Alloc(q, S, [w \in S |-> content[page_table[p][w]]]),
             vmas' = [vmas EXCEPT ![q] = @ \union {v}],
             \A d \in Cpus: d # c => pc'[d] = pc[d] /\ job'[d] = job[d],
             pc'[c] # "asid", pc'[c] = "dealloc" => job'[c].mm = q,
             \A r \in Procs: pstate'[r] = "building" => pstate[r] = "building"
      PROVE  TlbInv'
  <2>1. S \subseteq Pages /\ S \cap Mapped(q) = {}
    BY <1>3, <1>4 DEF Copied, Mapped
  <2>2. Local(c, q)
    BY <1>4 DEF Local, Control, ControlTypes
  <2> QED
    BY <1>1, <1>3, <1>4, <2>1, <2>2, AllocTlb
<1>5. CASE /\ Alloc(q, Copied(p, v), [w \in Copied(p, v) |-> content[page_table[p][w]]])
           /\ vmas' = [vmas EXCEPT ![q] = @ \union {v}] /\ UNCHANGED <<pstate, pc, job>>
  <2>1. /\ \A d \in Cpus: d # c => pc'[d] = pc[d] /\ job'[d] = job[d]
        /\ \A r \in Procs: pstate'[r] = "building" => pstate[r] = "building"
        /\ Copied(p, v) \subseteq Copied(p, v)
        /\ pc'[c] # "asid" /\ pc'[c] # "dealloc"
    BY <1>1, <1>5
  <2> QED
    BY <1>4, <1>5, <2>1
<1>6. CASE /\ v.lazy
           /\ \E n \in Copied(p, v):
                LET S == {w \in Copied(p, v): w < n}
                IN  Alloc(q, S, [w \in S |-> content[page_table[p][w]]])
           /\ vmas' = [vmas EXCEPT ![q] = @ \union {v}]
           /\ StartExit(c, q)
  <2>1. PICK S: /\ S \subseteq Copied(p, v)
                /\ Alloc(q, S, [w \in S |-> content[page_table[p][w]]])
    <3>1. ASSUME NEW n PROVE {w \in Copied(p, v): w < n} \subseteq Copied(p, v)
      OBVIOUS
    <3> QED
      BY <1>6, <3>1
  <2>2. /\ pc'[c] = "dealloc" /\ job'[c].mm = q
        /\ \A d \in Cpus: d # c => pc'[d] = pc[d] /\ job'[d] = job[d]
        /\ \A r \in Procs: pstate'[r] = "building" => pstate[r] = "building"
    BY <1>6, ExitIs
  <2> QED
    BY <1>4, <1>6, <2>1, <2>2
<1>7. CASE StartExit(c, q) /\ UNCHANGED <<memVars, page_table, vmas>>
  BY <1>1, <1>3, <1>7, StartExitTlb
<1> QED
  BY <1>2, <1>5, <1>6, <1>7 DEF ForkTakes

LEMMA ForkDoneTlb ==
  ASSUME DataTypes, Control, TlbInv, NEW c \in Cpus, ForkDone(c)
  PROVE  TlbInv'
<1>1. /\ pc[c] = "fork"
      /\ UNCHANGED <<machine, page_table, vmas, asid, asid_bitmap, current_task, root, tlb>>
  BY DEF ForkDone, cpuVars
<1> PICK q \in Procs: q = job[c].mm
  BY <1>1, JobIsOwn
<1>2. Owns(c, q) /\ ~ Releasing(c)
  BY <1>1, JobIsOwn DEF Releasing
<1>3. /\ pc' = [pc EXCEPT ![c] = "run"] /\ job' = [job EXCEPT ![c] = NoJob]
      /\ pstate' = [pstate EXCEPT ![q] = "ready"]
  BY DEF ForkDone, Goto
<1>4. /\ pc'[c] = "run" /\ Local(c, q)
      /\ \A r \in Procs: pstate'[r] = "building" => pstate[r] = "building"
  BY <1>1, <1>3 DEF Local, Control, ControlTypes
<1> QED
  BY <1>1, <1>2, <1>4, GotoTlb

LEMMA TlbInit == Init => TlbInv
<1> SUFFICES ASSUME Init PROVE TlbInv
  OBVIOUS
<1>1. /\ asid = [p \in Procs |-> IF p = init_proc /\ 1 \in Asids THEN 1 ELSE 0]
      /\ asid_bitmap = {0} \union {asid[init_proc]}
      /\ current_task = [c \in Cpus |-> NULL]
      /\ root = [c \in Cpus |-> NULL]
      /\ tlb = [c \in Cpus |-> {}]
  BY DEF Init
<1>2. init_proc \in Procs
  BY AddrSpaceAssumption DEF AddrSpaceAssumption
<1>3. AsidsKept
  BY <1>1, <1>2 DEF AsidsKept
<1>4. \A c \in Cpus: RootKept(c) /\ LocalCurrent(c)
  BY <1>1 DEF RootKept, LocalCurrent
<1>5. \A p \in Procs: UnseenNotCached(p)
  BY <1>1 DEF UnseenNotCached
<1>6. \A p \in Procs, d \in Cpus: RemoteCurrent(p, d)
  BY <1>1 DEF RemoteCurrent
<1> QED
  BY <1>3, <1>4, <1>5, <1>6 DEF TlbInv

LEMMA TlbStep ==
  ASSUME LeastExists, DataTypes, Control, \A r \in Procs: Fits(r), FrameHasOneOwner, TlbInv, [Next]_vars
  PROVE  TlbInv'
<1>1. ASSUME NEW c \in Cpus, NEW v \in Pages, TlbFill(c, v) PROVE TlbInv'
  BY <1>1, TlbFillTlb
<1>2. ASSUME UNCHANGED <<machine, page_table, vmas, asid, asid_bitmap, root, current_task, tlb,
                         pstate, pc, job>>
      PROVE  TlbInv'
  <2>1. AsidsKept'
    BY <1>2 DEF TlbInv, AsidsKept
  <2>2. \A d \in Cpus: RootKept(d)' /\ LocalCurrent(d)'
    BY <1>2 DEF TlbInv, RootKept, LocalCurrent
  <2>3. \A p \in Procs: UnseenNotCached(p)'
    BY <1>2 DEF TlbInv, UnseenNotCached, Unseen
  <2>4. ASSUME NEW p, NEW d, NEW e PROVE Pending(p, d, e)' <=> Pending(p, d, e)
    BY <1>2 DEF Pending, Releasing, Span, Area, arch
  <2>5. \A p \in Procs, d \in Cpus: RemoteCurrent(p, d)'
    BY <1>2, <2>4 DEF TlbInv, RemoteCurrent
  <2> QED
    BY <2>1, <2>2, <2>3, <2>5 DEF TlbInv
<1>3. ASSUME NEW c \in Cpus, NEW e \in tlb[c], UserStore(c, e) PROVE TlbInv'
  BY <1>2, <1>3 DEF UserStore, mmVars, cpuVars
<1>4. ASSUME NEW c \in Cpus, NEW p \in Procs \union {NULL}, TaskActivate(c, p) PROVE TlbInv'
  BY <1>4, TaskActivateTlb
<1>5. ASSUME NEW c \in Cpus, NEW p \in Procs, NEW v \in Pages, TaskHandleFault(c, p, v)
      PROVE  TlbInv'
  BY <1>5, TaskHandleFaultTlb
<1>6. ASSUME NEW c \in Cpus, NEW p \in Procs, SysExit(c, p) PROVE TlbInv'
  <2>1. /\ Calls(c, p) /\ StartExit(c, p)
        /\ UNCHANGED <<machine, page_table, vmas, asid, asid_bitmap, root, current_task, tlb>>
    BY <1>6 DEF SysExit, cpuVars
  <2>2. Owns(c, p) /\ pc[c] = "run" /\ current_task[c] = p /\ ~ Releasing(c)
    BY <2>1, CallerIs DEF Releasing
  <2> QED
    BY <2>1, <2>2, StartExitTlb
<1>7. ASSUME NEW c \in Cpus, NEW p \in Procs, NEW n \in 0 .. UserEnd + 1, SysBrk(c, p, n)
      PROVE  TlbInv'
  BY <1>7, SysBrkTlb
<1>8. ASSUME NEW c \in Cpus, NEW p \in Procs, SysExecve(c, p) PROVE TlbInv'
  BY <1>8, SysExecveTlb
<1>9. ASSUME NEW c \in Cpus, NEW p \in Procs, NEW q \in Procs, SysFork(c, p, q) PROVE TlbInv'
  BY <1>9, SysForkTlb
<1>10. ASSUME NEW c \in Cpus, DeallocRound(c) PROVE TlbInv'
  BY <1>10, DeallocRoundTlb
<1>11. ASSUME NEW c \in Cpus, DeallocEnd(c) PROVE TlbInv'
  BY <1>11, DeallocEndTlb
<1>12. ASSUME NEW c \in Cpus, FreeRoot(c) PROVE TlbInv'
  <2> PICK p \in Procs: p = job[c].mm
    BY <1>12, JobIsOwn DEF FreeRoot
  <2>1. page_table' = page_table
    BY <1>12, FreeRootIs
  <2> QED
    BY <1>12, <2>1, FreeRootTlb
<1>13. ASSUME NEW c \in Cpus, AsidClear(c) PROVE TlbInv'
  BY <1>13, AsidClearTlb
<1>14. ASSUME NEW c \in Cpus, LoadStack(c) PROVE TlbInv'
  BY <1>14, LoadStackTlb
<1>15. ASSUME NEW c \in Cpus, LoadText(c) PROVE TlbInv'
  BY <1>15, LoadTextTlb
<1>16. ASSUME NEW c \in Cpus, ForkVma(c) PROVE TlbInv'
  BY <1>16, ForkVmaTlb
<1>17. ASSUME NEW c \in Cpus, ForkDone(c) PROVE TlbInv'
  BY <1>17, ForkDoneTlb
<1>18. CASE UNCHANGED vars
  BY <1>2, <1>18 DEF vars
<1> QED
  BY <1>1, <1>3, <1>4, <1>5, <1>6, <1>7, <1>8, <1>9, <1>10, <1>11, <1>12, <1>13, <1>14, <1>15,
     <1>16, <1>17, <1>18
  DEF Next

-----------------------------------------------------------------------------

(* ... and they hold what was asked for. *)
LEMMA AllocGives ==
  ASSUME DataTypes, NEW p \in Procs, NEW S, S \subseteq Pages, NEW x, Alloc(p, S, x)
  PROVE  \A n \in S: content'[page_table'[p][n]] = x[n]
<1>1. PICK f \in [S -> Free]:
        /\ \A v, w \in S: f[v] = f[w] => v = w
        /\ content' = [g \in Frames |-> IF \E v \in S: f[v] = g
                                          THEN x[CHOOSE v \in S: f[v] = g] ELSE content[g]]
        /\ page_table' = [page_table EXCEPT ![p] =
                            [v \in Pages |-> IF v \in S THEN f[v] ELSE @[v]]]
  BY DEF Alloc
<1>2. \A n \in S: page_table'[p][n] = f[n]
  BY <1>1 DEF DataTypes
<1>3. ASSUME NEW n \in S PROVE content'[f[n]] = x[n]
  <2>1. (CHOOSE v \in S: f[v] = f[n]) = n
    BY <1>1
  <2>2. f[n] \in Frames /\ \E v \in S: f[v] = f[n]
    BY DEF Free
  <2> QED
    BY <1>1, <2>1, <2>2
<1> QED
  BY <1>2, <1>3

(* A child has what its parent has in the areas that were copied. *)
CopiedAt(q, p, n) ==
  /\ page_table[q][n] = NULL <=> page_table[p][n] = NULL
  /\ page_table[q][n] # NULL => content[page_table[q][n]] = content[page_table[p][n]]

ForkCopied(c) ==
  pc[c] = "fork" =>
    \A v \in vmas[job[c].mm]: \A n \in PagesOf(v): CopiedAt(job[c].mm, current_task[c], n)

(* What a process finds at a page. *)
Sees(p, n) ==
  IF pstate[p] # "ready" \/ \A a \in vmas[p]: n \notin PagesOf(a) THEN NULL
  ELSE IF page_table[p][n] = NULL THEN 0
  ELSE content[page_table[p][n]]

LEMMA ViewIs ==
  ASSUME NEW p \in Procs
  PROVE  /\ View[p] = [n \in Pages |-> Sees(p, n)]
         /\ View'[p] = [n \in Pages |-> Sees(p, n)']
  BY DEF View, Sees

LEMMA ViewSame == (\A p \in Procs: View'[p] = View[p]) => View' = View
  BY DEF View

(* One process has its memory changed. *)
LEMMA OneChanges ==
  ASSUME NEW p \in Procs, \A q \in Procs: q # p => View'[q] = View[q],
         \/ Private!Extend(View[p], View'[p])
         \/ Private!Discard(View[p], View'[p])
         \/ Private!Store(p, View[p], View'[p])
         \/ \E q \in Procs: Private!Fork(q, View[p], View'[p])
  PROVE  Private!Next
  BY DEF Private!Next

(* The memory of a process whose frames are left alone stays. *)
LEMMA ViewKept ==
  ASSUME NEW p \in Procs, pstate'[p] = "ready" <=> pstate[p] = "ready",
         vmas'[p] = vmas[p], page_table'[p] = page_table[p],
         \A n \in Mapped(p): content'[page_table[p][n]] = content[page_table[p][n]]
  PROVE  View'[p] = View[p]
<1>1. ASSUME NEW n \in Pages PROVE Sees(p, n)' = Sees(p, n)
  BY DEF Sees, Mapped
<1> QED
  BY <1>1, ViewIs

(* A process that is not ready has nothing to see. *)
LEMMA NotReady ==
  ASSUME NEW p \in Procs
  PROVE  /\ pstate[p] # "ready" => View[p] = Private!None
         /\ pstate'[p] # "ready" => View'[p] = Private!None
  BY ViewIs DEF Sees, Private!None

(* The end of a process gives up what it has. *)
LEMMA DiscardAll ==
  ASSUME NEW p \in Procs, View'[p] = Private!None
  PROVE  Private!Discard(View[p], View'[p])
  BY DEF Private!Discard, Private!None

LEMMA ExtendIs ==
  ASSUME NEW p \in Procs,
         \A n \in Pages: Sees(p, n)' = Sees(p, n) \/ (Sees(p, n) = NULL /\ Sees(p, n)' = 0)
  PROVE  Private!Extend(View[p], View'[p])
<1>1. \A n \in Pages: View[p][n] = Sees(p, n) /\ View'[p][n] = Sees(p, n)'
  BY ViewIs
<1> QED
  BY <1>1 DEF Private!Extend

LEMMA DiscardIs ==
  ASSUME NEW p \in Procs,
         \A n \in Pages: \/ Sees(p, n)' = Sees(p, n)
                         \/ Sees(p, n) # NULL /\ Sees(p, n)' \in {0, NULL}
  PROVE  Private!Discard(View[p], View'[p])
<1>1. \A n \in Pages: View[p][n] = Sees(p, n) /\ View'[p][n] = Sees(p, n)'
  BY ViewIs
<1> QED
  BY <1>1 DEF Private!Discard

(* Frames that are mapped are in use, and hold something. *)
LEMMA MappedFrame ==
  ASSUME DataTypes, FrameHasOneOwner, NEW p \in Procs, NEW n \in Mapped(p)
  PROVE  /\ page_table[p][n] \in allocated /\ page_table[p][n] \in Frames
         /\ content[page_table[p][n]] \in Values /\ content[page_table[p][n]] # NULL
<1>1. page_table[p][n] \in allocated /\ page_table[p][n] \in Frames
  BY OwnersNow DEF OneOwner, Mapped, DataTypes
<1>2. content[page_table[p][n]] \in Values
  BY <1>1 DEF DataTypes
<1>3. NULL \notin Values
  BY SMT, Z3T(30), AddrSpaceAssumption DEF AddrSpaceAssumption, Values
<1> QED
  BY <1>1, <1>2, <1>3

(* An allocation touches nothing that anybody has. *)
LEMMA AllocContent ==
  ASSUME DataTypes, FrameHasOneOwner, NEW p \in Procs, NEW S, S \subseteq Pages, NEW x, Alloc(p, S, x)
  PROVE  \A q \in Procs: \A n \in Mapped(q): content'[page_table[q][n]] = content[page_table[q][n]]
  BY AllocIs, MappedFrame

(* A store reaches the page of the program that stores, and no other. *)
LEMMA StoreIs ==
  ASSUME DataTypes, Control, FrameHasOneOwner, TlbInv, NEW c \in Cpus, NEW e \in tlb[c],
         UserStore(c, e)
  PROVE  /\ current_task[c] \in Procs /\ e.page \in Pages /\ e.page \in Mapped(current_task[c])
         /\ page_table[current_task[c]][e.page] = e.frame
         /\ content'[e.frame] = current_task[c]
         /\ \A q \in Procs: \A n \in Mapped(q):
              \/ q = current_task[c] /\ n = e.page
              \/ content'[page_table[q][n]] = content[page_table[q][n]]
<1>1. /\ pc[c] = "run" /\ current_task[c] \in Writers /\ e.asid = asid[current_task[c]]
      /\ content' = [content EXCEPT ![e.frame] = current_task[c]]
  BY DEF UserStore
<1>2. current_task[c] \in Procs /\ current_task[c] # NULL
  BY <1>1, AddrSpaceAssumption DEF AddrSpaceAssumption
<1>3. e.page \in Pages /\ e.frame \in Frames /\ e.frame # NULL
  BY CachedTypes
<1>4. page_table[current_task[c]][e.page] = e.frame
  BY <1>1, <1>2 DEF TlbInv, LocalCurrent
<1>5. content'[e.frame] = current_task[c] /\ \A g \in Frames: g # e.frame => content'[g] = content[g]
  BY <1>1, <1>3 DEF DataTypes
<1>6. ASSUME NEW q \in Procs, NEW n \in Mapped(q), ~ (q = current_task[c] /\ n = e.page)
      PROVE  content'[page_table[q][n]] = content[page_table[q][n]]
  <2>1. page_table[q][n] # e.frame
    BY SMTT(20), Z3T(40), <1>2, <1>3, <1>4, <1>6, OwnersNow DEF OneOwner, Mapped
  <2> QED
    BY <1>5, <2>1, MappedFrame
<1> QED
  BY <1>2, <1>3, <1>4, <1>5, <1>6 DEF Mapped

(* An action of c touches the memory of p and of nobody else. *)
Only(c, p) ==
  /\ Owns(c, p) /\ Elsewhere(c, p)
  /\ \A d \in Cpus: d # c => current_task'[d] = current_task[d]
  /\ \A q \in Procs: q # p => pstate'[q] = pstate[q]
  /\ \A q \in Procs: q # p =>
       \A n \in Mapped(q): content'[page_table[q][n]] = content[page_table[q][n]]

LEMMA OnlyView ==
  ASSUME NEW c \in Cpus, NEW p \in Procs, Only(c, p)
  PROVE  \A q \in Procs: q # p => View'[q] = View[q]
  BY ViewKept DEF Only, Elsewhere

(* A fork that goes on elsewhere is not disturbed. *)
LEMMA ForkCopiedElsewhere ==
  ASSUME DataTypes, Control, \A d \in Cpus: ForkCopied(d),
         NEW c \in Cpus, NEW p \in Procs, Only(c, p)
  PROVE  \A d \in Cpus: d # c => ForkCopied(d)'
<1> SUFFICES ASSUME NEW d \in Cpus, d # c, pc[d] = "fork" PROVE ForkCopied(d)'
  BY SMT, Z3T(30) DEF ForkCopied, Only, Elsewhere
<1>1. pc'[d] = pc[d] /\ job'[d] = job[d] /\ current_task'[d] = current_task[d]
  BY DEF Only, Elsewhere
<1> PICK q \in Procs: q = job[d].mm
  BY JobIsOwn
<1> PICK r \in Procs: r = current_task[d]
  BY DEF Control, ControlTypes, JobOk, ForkJob
<1>2. q # p /\ r # p
  BY DEF Only, Owns
<1>3. /\ vmas'[q] = vmas[q] /\ page_table'[q] = page_table[q] /\ page_table'[r] = page_table[r]
      /\ \A n \in Mapped(q): content'[page_table[q][n]] = content[page_table[q][n]]
      /\ \A n \in Mapped(r): content'[page_table[r][n]] = content[page_table[r][n]]
  BY <1>2 DEF Only, Elsewhere
<1>4. ASSUME NEW v \in vmas[q], NEW n \in PagesOf(v)
      PROVE  n \in Pages /\ CopiedAt(q, r, n)
  <2>1. v \in AreaShapes
    BY DEF Control, ControlTypes
  <2> QED
    BY <2>1, ShapeInUserSpace DEF ForkCopied
<1>5. ASSUME NEW v \in vmas[q], NEW n \in PagesOf(v)
      PROVE  CopiedAt(q, r, n)'
  <2>1. n \in Pages /\ CopiedAt(q, r, n)
    BY <1>4
  <2>2. page_table'[q][n] = page_table[q][n] /\ page_table'[r][n] = page_table[r][n]
    BY <1>3
  <2>3. CASE page_table[q][n] = NULL
    BY <2>1, <2>2, <2>3 DEF CopiedAt
  <2>4. CASE page_table[q][n] # NULL
    <3>1. n \in Mapped(q) /\ n \in Mapped(r)
      BY <2>1, <2>4 DEF CopiedAt, Mapped
    <3> QED
      BY <1>3, <2>1, <2>2, <2>4, <3>1 DEF CopiedAt
  <2> QED
    BY <2>3, <2>4
<1> QED
  BY <1>1, <1>3, <1>5 DEF ForkCopied

LEMMA ForkCopiedFrame ==
  ASSUME DataTypes, Control, \A d \in Cpus: ForkCopied(d),
         NEW c \in Cpus, NEW p \in Procs, Only(c, p), pc'[c] # "fork"
  PROVE  \A d \in Cpus: ForkCopied(d)'
  BY ForkCopiedElsewhere DEF ForkCopied

LEMMA ForkCopiedQuiet ==
  ASSUME \A d \in Cpus: ForkCopied(d), UNCHANGED <<pc, job, vmas, page_table, content>>,
         \A d \in Cpus: pc[d] = "fork" => current_task'[d] = current_task[d]
  PROVE  \A d \in Cpus: ForkCopied(d)'
<1>1. ASSUME NEW q, NEW r, NEW n PROVE CopiedAt(q, r, n)' <=> CopiedAt(q, r, n)
  BY DEF CopiedAt
<1> SUFFICES ASSUME NEW d \in Cpus, pc[d] = "fork" PROVE ForkCopied(d)'
  BY DEF ForkCopied
<1>2. /\ job'[d] = job[d] /\ vmas'[job[d].mm] = vmas[job[d].mm]
      /\ current_task'[d] = current_task[d]
  OBVIOUS
<1>3. ASSUME NEW v \in vmas[job[d].mm], NEW n \in PagesOf(v)
      PROVE  CopiedAt(job[d].mm, current_task[d], n)
  BY DEF ForkCopied
<1>4. ASSUME NEW q, q = job[d].mm, NEW r, r = current_task[d],
             NEW v \in vmas[job[d].mm], NEW n \in PagesOf(v)
      PROVE  CopiedAt(q, r, n)'
  BY <1>1, <1>3, <1>4
<1> QED
  BY <1>2, <1>4 DEF ForkCopied

(* A step of the specification is a step of PrivateMemory or none. *)
Steps == Private!Next \/ View' = View

Copies == \A d \in Cpus: ForkCopied(d)'

LEMMA QuietView ==
  ASSUME UNCHANGED <<pstate, vmas, page_table, content>>
  PROVE  Steps
  BY DEF View, Steps

LEMMA UserStoreSteps ==
  ASSUME DataTypes, Control, \A r \in Procs: Fits(r), FrameHasOneOwner, TlbInv,
         \A d \in Cpus: ForkCopied(d), NEW c \in Cpus, NEW e \in tlb[c], UserStore(c, e)
  PROVE  Steps /\ Copies
<1>1. /\ pc[c] = "run"
      /\ UNCHANGED <<pstate, page_table, vmas, current_task, pc, job>>
  BY DEF UserStore, mmVars, cpuVars
<1> PICK p \in Procs: p = current_task[c]
  BY StoreIs
<1>2. /\ e.page \in Mapped(p) /\ e.page \in Pages /\ page_table[p][e.page] = e.frame
      /\ content'[e.frame] = p
      /\ \A q \in Procs: \A n \in Mapped(q):
           (q = p /\ n = e.page) \/ content'[page_table[q][n]] = content[page_table[q][n]]
  BY SMT, Z3T(30), StoreIs
<1>3. Owns(c, p) /\ pstate[p] = "ready"
  BY <1>1, CurrentIsOwn, AddrSpaceAssumption DEF AddrSpaceAssumption, Control, CurrentOk
<1>4. Only(c, p)
  BY <1>1, <1>2, <1>3 DEF Only, Elsewhere
<1>5. \E v \in vmas[p]: e.page \in PagesOf(v)
  BY <1>2 DEF Fits
<1>6. content[e.frame] # NULL /\ page_table[p][e.page] # NULL
  BY <1>2, MappedFrame DEF Mapped
<1>7. Sees(p, e.page) # NULL /\ Sees(p, e.page)' = p
  BY <1>1, <1>2, <1>3, <1>5, <1>6 DEF Sees
<1>8. ASSUME NEW n \in Pages, n # e.page PROVE Sees(p, n)' = Sees(p, n)
  BY <1>1, <1>2, <1>8 DEF Sees, Mapped
<1>9. Private!Store(p, View[p], View'[p])
  <2>1. View[p][e.page] # NULL
    BY <1>2, <1>7, ViewIs
  <2>2. View'[p] = [View[p] EXCEPT ![e.page] = p]
    <3>1. View[p] = [n \in Pages |-> Sees(p, n)] /\ View'[p] = [n \in Pages |-> Sees(p, n)']
      BY ViewIs
    <3>2. View'[p] = [n \in Pages |-> IF n = e.page THEN p ELSE Sees(p, n)]
      BY <1>7, <1>8, <3>1
    <3> QED
      BY <1>2, <3>1, <3>2
  <2> QED
    BY <1>2, <2>1, <2>2 DEF Private!Store
<1>10. Steps
  BY <1>4, <1>9, OnlyView, OneChanges DEF Steps
<1> QED
  BY <1>1, <1>4, <1>10, ForkCopiedFrame DEF Copies

(* The end of a process, with what may have been allocated for it before. *)
LEMMA StartExitSteps ==
  ASSUME DataTypes, Control, \A d \in Cpus: ForkCopied(d),
         NEW c \in Cpus, NEW p \in Procs, Owns(c, p), StartExit(c, p), UNCHANGED current_task,
         \A q \in Procs: q # p =>
           /\ vmas'[q] = vmas[q] /\ page_table'[q] = page_table[q]
           /\ \A n \in Mapped(q): content'[page_table[q][n]] = content[page_table[q][n]]
  PROVE  Steps /\ Copies
<1>1. /\ pc'[c] = "dealloc" /\ job'[c].mm = p
      /\ \A d \in Cpus: d # c => pc'[d] = pc[d] /\ job'[d] = job[d]
  BY ExitIs
<1>2. pstate' = [pstate EXCEPT ![p] = "dying"]
  BY DEF StartExit
<1>3. pstate'[p] = "dying" /\ \A q \in Procs: q # p => pstate'[q] = pstate[q]
  BY <1>2 DEF Control, ControlTypes
<1>4. Only(c, p)
  BY <1>1, <1>3 DEF Only, Elsewhere
<1>5. Private!Discard(View[p], View'[p])
  BY <1>3, NotReady, DiscardAll
<1>6. Steps
  BY <1>4, <1>5, OnlyView, OneChanges DEF Steps
<1> QED
  BY <1>1, <1>4, <1>6, ForkCopiedFrame DEF Copies

(* New pages read as zeroes. *)
LEMMA AllocExtends ==
  ASSUME DataTypes, FrameHasOneOwner, NEW p \in Procs, Fits(p),
         NEW S, S \subseteq Pages, S \cap Mapped(p) = {},
         NEW x, Alloc(p, S, x), \A n \in S: x[n] = 0,
         pstate'[p] = pstate[p], vmas[p] \subseteq vmas'[p]
  PROVE  Private!Extend(View[p], View'[p])
<1>1. /\ \A n \in Pages: n \notin S => page_table'[p][n] = page_table[p][n]
      /\ \A n \in S: page_table'[p][n] \in Frames
  BY AllocIs
<1>2. \A n \in S: page_table'[p][n] # NULL /\ content'[page_table'[p][n]] = 0
  BY SMTT(20), Z3T(40), <1>1, AllocGives, AddrSpaceAssumption DEF AddrSpaceAssumption
<1>3. \A n \in Mapped(p): content'[page_table[p][n]] = content[page_table[p][n]]
  BY AllocContent
<1>4. ASSUME NEW n \in Pages
      PROVE  Sees(p, n)' = Sees(p, n) \/ (Sees(p, n) = NULL /\ Sees(p, n)' = 0)
  <2>1. CASE pstate[p] # "ready"
    BY <2>1 DEF Sees
  <2>2. CASE pstate[p] = "ready" /\ n \in S
    <3>1. page_table[p][n] = NULL
      BY <2>2 DEF Mapped
    <3>2. Sees(p, n)' \in {0, NULL} /\ Sees(p, n) \in {0, NULL}
      BY <1>2, <2>2, <3>1 DEF Sees
    <3>3. Sees(p, n) = 0 => Sees(p, n)' = 0
      BY <1>2, <2>2, <3>1 DEF Sees
    <3> QED
      BY <3>2, <3>3
  <2>3. CASE pstate[p] = "ready" /\ n \notin S
    <3>1. page_table'[p][n] = page_table[p][n]
      BY <1>1, <2>3
    <3>2. CASE \E a \in vmas[p]: n \in PagesOf(a)
      BY <1>3, <2>3, <3>1, <3>2 DEF Sees, Mapped
    <3>3. CASE \A a \in vmas[p]: n \notin PagesOf(a)
      <4>1. page_table[p][n] = NULL
        BY <3>3 DEF Fits, Mapped
      <4> QED
        BY <2>3, <3>1, <3>3, <4>1 DEF Sees
    <3> QED
      BY <3>2, <3>3
  <2> QED
    BY <2>1, <2>2, <2>3
<1> QED
  BY <1>4, ExtendIs

(* Areas that grow. *)
LEMMA AreasGrow ==
  ASSUME DataTypes, NEW p \in Procs, Fits(p),
         pstate'[p] = pstate[p], page_table'[p] = page_table[p], content' = content,
         \A v \in vmas[p]: \E w \in vmas'[p]: PagesOf(v) \subseteq PagesOf(w)
  PROVE  Private!Extend(View[p], View'[p])
<1>1. ASSUME NEW n \in Pages
      PROVE  Sees(p, n)' = Sees(p, n) \/ (Sees(p, n) = NULL /\ Sees(p, n)' = 0)
  <2>1. CASE pstate[p] # "ready"
    BY <2>1 DEF Sees
  <2>2. CASE pstate[p] = "ready" /\ \E a \in vmas[p]: n \in PagesOf(a)
    BY <2>2 DEF Sees
  <2>3. CASE pstate[p] = "ready" /\ \A a \in vmas[p]: n \notin PagesOf(a)
    <3>1. page_table[p][n] = NULL
      BY <2>3 DEF Fits, Mapped
    <3> QED
      BY <2>3, <3>1 DEF Sees
  <2> QED
    BY <2>1, <2>2, <2>3
<1> QED
  BY <1>1, ExtendIs

(* Areas that shrink. *)
LEMMA AreasShrink ==
  ASSUME DataTypes, FrameHasOneOwner, NEW p \in Procs,
         pstate'[p] = pstate[p], page_table'[p] = page_table[p], content' = content,
         \A w \in vmas'[p]: \E v \in vmas[p]: PagesOf(w) \subseteq PagesOf(v)
  PROVE  Private!Discard(View[p], View'[p])
<1>1. ASSUME NEW n \in Pages
      PROVE  Sees(p, n)' = Sees(p, n) \/ (Sees(p, n) # NULL /\ Sees(p, n)' \in {0, NULL})
  <2>1. CASE pstate[p] # "ready"
    BY <2>1 DEF Sees
  <2>2. CASE pstate[p] = "ready" /\ \E a \in vmas'[p]: n \in PagesOf(a)
    BY <2>2 DEF Sees
  <2>3. CASE pstate[p] = "ready" /\ \A a \in vmas'[p]: n \notin PagesOf(a)
    <3>1. Sees(p, n)' = NULL
      BY <2>3 DEF Sees
    <3> QED
      BY <3>1
  <2> QED
    BY <2>1, <2>2, <2>3
<1> QED
  BY <1>1, DiscardIs

(* Pages that are freed read as zeroes until their area goes. *)
LEMMA PagesGo ==
  ASSUME DataTypes, FrameHasOneOwner, NEW p \in Procs, NEW S, S \subseteq Mapped(p),
         pstate'[p] = pstate[p], vmas'[p] = vmas[p], content' = content,
         \A n \in Pages: page_table'[p][n] = IF n \in S THEN NULL ELSE page_table[p][n]
  PROVE  Private!Discard(View[p], View'[p])
<1>1. ASSUME NEW n \in Pages
      PROVE  Sees(p, n)' = Sees(p, n) \/ (Sees(p, n) # NULL /\ Sees(p, n)' \in {0, NULL})
  <2>1. CASE n \notin S
    BY <2>1 DEF Sees
  <2>2. CASE n \in S
    <3>1. Sees(p, n)' \in {0, NULL}
      BY <2>2 DEF Sees
    <3>2. Sees(p, n) = NULL => Sees(p, n)' = NULL
      <4>1. page_table[p][n] # NULL /\ content[page_table[p][n]] # NULL
        BY <2>2, MappedFrame DEF Mapped
      <4> QED
        BY <4>1 DEF Sees
    <3> QED
      BY <3>1, <3>2
  <2> QED
    BY <2>1, <2>2
<1> QED
  BY <1>1, DiscardIs

LEMMA TaskHandleFaultSteps ==
  ASSUME DataTypes, Control, \A r \in Procs: Fits(r), FrameHasOneOwner,
         \A d \in Cpus: ForkCopied(d), NEW c \in Cpus, NEW p \in Procs, NEW v \in Pages,
         TaskHandleFault(c, p, v)
  PROVE  Steps /\ Copies
<1>1. Calls(c, p) /\ page_table[p][v] = NULL /\ UNCHANGED <<vmas, current_task>>
  BY DEF TaskHandleFault, cpuVars
<1>2. Owns(c, p) /\ pc[c] = "run"
  BY <1>1, CallerIs
<1>3. CASE Alloc(p, {v}, Zero({v})) /\ UNCHANGED <<pstate, pc, job>>
  <2>1. {v} \subseteq Pages /\ {v} \cap Mapped(p) = {} /\ \A n \in {v}: Zero({v})[n] = 0
    BY <1>1 DEF Mapped, Zero
  <2>2. \A q \in Procs: q # p => page_table'[q] = page_table[q]
    BY <1>3, <2>1, AllocIs
  <2>3. \A q \in Procs: \A n \in Mapped(q): content'[page_table[q][n]] = content[page_table[q][n]]
    BY <1>3, <2>1, AllocContent
  <2>4. Only(c, p)
    BY <1>1, <1>2, <1>3, <2>2, <2>3 DEF Only, Elsewhere
  <2>5. Private!Extend(View[p], View'[p])
    BY <1>1, <1>3, <2>1, AllocExtends
  <2>6. Steps
    BY <2>4, <2>5, OnlyView, OneChanges DEF Steps
  <2> QED
    BY <1>2, <1>3, <2>4, <2>6, ForkCopiedFrame DEF Copies
<1>4. CASE StartExit(c, p) /\ UNCHANGED <<page_table, content>>
  BY <1>1, <1>2, <1>4, StartExitSteps
<1> QED
  BY <1>3, <1>4 DEF TaskHandleFault, memVars

LEMMA SysBrkSteps ==
  ASSUME DataTypes, Control, \A r \in Procs: Fits(r), \A d \in Cpus: ForkCopied(d),
         NEW c \in Cpus, NEW p \in Procs, NEW n \in 0 .. UserEnd + 1, SysBrk(c, p, n)
  PROVE  Steps /\ Copies
<1> USE Sizes
<1> DEFINE heap == CHOOSE v \in vmas[p]: v.base = HeapBase
           area == [base |-> HeapBase, size |-> n - HeapBase, lazy |-> TRUE]
<1>1. /\ Calls(c, p) /\ brk[p].base # NULL /\ n > HeapBase
      /\ UNCHANGED <<pstate, page_table, content, current_task>>
  BY DEF SysBrk, memVars, cpuVars
<1>2. Owns(c, p) /\ pc[c] = "run" /\ pstate[p] = "ready" /\ ~ Tearing(p)
  BY <1>1, CallerIs
<1>3. ASSUME \A q \in Procs: q # p => vmas'[q] = vmas[q], pc' = pc, job' = job,
             \A v \in vmas[p]: \E w \in vmas'[p]: PagesOf(v) \subseteq PagesOf(w)
      PROVE  Steps /\ Copies
  <2>1. Only(c, p)
    BY <1>1, <1>2, <1>3 DEF Only, Elsewhere
  <2>2. Private!Extend(View[p], View'[p])
    BY <1>1, <1>3, <2>1, AreasGrow
  <2>3. Steps
    BY <2>1, <2>2, OnlyView, OneChanges DEF Steps
  <2> QED
    BY <1>2, <1>3, <2>1, <2>3, ForkCopiedFrame DEF Copies
<1>4. CASE vmas' = [vmas EXCEPT ![p] = @ \union {area}] /\ UNCHANGED <<pc, job>>
  <2> HIDE DEF area
  <2>1. vmas'[p] = vmas[p] \union {area} /\ \A q \in Procs: q # p => vmas'[q] = vmas[q]
    BY <1>4 DEF Control, ControlTypes
  <2>2. \A v \in vmas[p]: \E w \in vmas'[p]: PagesOf(v) \subseteq PagesOf(w)
    BY <2>1
  <2> QED
    BY <1>3, <1>4, <2>1, <2>2
<1>5. CASE /\ brk[p].vma /\ n - HeapBase > heap.size
           /\ vmas' = [vmas EXCEPT ![p] = (@ \ {heap}) \union {area}] /\ UNCHANGED <<pc, job>>
  <2>1. PICK m \in 1 .. HeapSize: Heap(m) \in vmas[p]
    BY <1>1, <1>2, <1>5 DEF Control, BrkOk
  <2>2. heap = Heap(m)
    BY <2>1, HeapAt DEF Control, AreasOk
  <2>3. PagesOf(heap) \subseteq PagesOf(area)
    <3> HIDE DEF heap
    <3>1. heap.base = HeapBase /\ heap.size = m
      BY <2>2 DEF Heap
    <3>2. m < n - HeapBase
      BY <1>5, <3>1 DEF HeapBase
    <3> QED
      BY SMT, Z3T(30), <3>1, <3>2 DEF PagesOf, HeapBase
  <2> HIDE DEF area, heap
  <2>4. /\ vmas'[p] = (vmas[p] \ {heap}) \union {area}
        /\ \A q \in Procs: q # p => vmas'[q] = vmas[q]
    BY <1>5 DEF Control, ControlTypes
  <2>5. \A v \in vmas[p]: \E w \in vmas'[p]: PagesOf(v) \subseteq PagesOf(w)
    BY <2>3, <2>4
  <2> QED
    BY <1>3, <1>5, <2>4, <2>5
<1>6. CASE Goto(c, "dealloc", [NoJob EXCEPT !.mm = p, !.from = n]) /\ UNCHANGED vmas
  <2>1. /\ pc' = [pc EXCEPT ![c] = "dealloc"]
        /\ job' = [job EXCEPT ![c] = [mm |-> p, from |-> n, then |-> "run"]]
    BY <1>6, Jobs DEF Goto
  <2>2. pc'[c] = "dealloc" /\ Only(c, p)
    BY <1>1, <1>2, <1>6, <2>1 DEF Only, Elsewhere, Control, ControlTypes
  <2>3. Steps
    BY <1>1, <1>6, QuietView
  <2> QED
    BY <2>2, <2>3, ForkCopiedFrame DEF Copies
<1>7. \/ vmas' = [vmas EXCEPT ![p] = @ \union {area}] /\ UNCHANGED <<pc, job>>
      \/ /\ brk[p].vma /\ n - HeapBase > heap.size
         /\ vmas' = [vmas EXCEPT ![p] = (@ \ {heap}) \union {area}] /\ UNCHANGED <<pc, job>>
      \/ Goto(c, "dealloc", [NoJob EXCEPT !.mm = p, !.from = n]) /\ UNCHANGED vmas
  BY DEF SysBrk
<1> QED
  BY <1>4, <1>5, <1>6, <1>7

LEMMA SysExecveSteps ==
  ASSUME DataTypes, Control, \A d \in Cpus: ForkCopied(d),
         NEW c \in Cpus, NEW p \in Procs, SysExecve(c, p)
  PROVE  Steps /\ Copies
<1>1. Calls(c, p) /\ UNCHANGED <<pstate, vmas, page_table, content, current_task>>
  BY DEF SysExecve, mmVars, memVars, cpuVars
<1>2. Owns(c, p)
  BY <1>1, CallerIs
<1>3. /\ pc' = [pc EXCEPT ![c] = "dealloc"]
      /\ job' = [job EXCEPT ![c] = [mm |-> p, from |-> 0, then |-> "exec"]]
  BY Jobs DEF SysExecve, Goto
<1>4. pc'[c] = "dealloc" /\ Only(c, p)
  BY <1>1, <1>2, <1>3 DEF Only, Elsewhere, Control, ControlTypes
<1>5. Steps
  BY <1>1, QuietView
<1> QED
  BY <1>4, <1>5, ForkCopiedFrame DEF Copies

LEMMA SysForkSteps ==
  ASSUME DataTypes, Control, \A d \in Cpus: ForkCopied(d),
         NEW c \in Cpus, NEW p \in Procs, NEW q \in Procs, SysFork(c, p, q)
  PROVE  Steps /\ Copies
<1>1. /\ Calls(c, p) /\ pstate[q] = "none" /\ pstate' = [pstate EXCEPT ![q] = "building"]
      /\ UNCHANGED <<vmas, page_table, content, current_task>>
  BY DEF SysFork, memVars, cpuVars
<1>2. /\ pc' = [pc EXCEPT ![c] = "fork"]
      /\ job' = [job EXCEPT ![c] = [mm |-> q, from |-> 0, then |-> "run"]]
  BY Jobs DEF SysFork, Goto
<1>3. /\ job'[c].mm = q /\ \A d \in Cpus: d # c => pc'[d] = pc[d] /\ job'[d] = job[d]
      /\ pstate'[q] = "building" /\ \A r \in Procs: r # q => pstate'[r] = pstate[r]
  BY <1>1, <1>2 DEF Control, ControlTypes
<1>4. View' = View
  <2>1. View'[q] = View[q]
    BY <1>1, <1>3, NotReady
  <2>2. \A r \in Procs: r # q => View'[r] = View[r]
    BY <1>1, <1>3, ViewKept
  <2> QED
    BY <2>1, <2>2, ViewSame
<1>5. vmas[q] = {}
  BY <1>1 DEF Control, NoneOk
<1>6. ForkCopied(c)'
  BY <1>1, <1>3, <1>5 DEF ForkCopied
<1>7. ASSUME NEW d \in Cpus, d # c PROVE ForkCopied(d)'
  <2>1. ASSUME NEW r, NEW s, NEW n PROVE CopiedAt(r, s, n)' <=> CopiedAt(r, s, n)
    BY <1>1 DEF CopiedAt
  <2>2. /\ pc'[d] = pc[d] /\ job'[d] = job[d] /\ vmas' = vmas
        /\ current_task'[d] = current_task[d]
    BY <1>1, <1>3, <1>7
  <2>3. ASSUME NEW r, r = job[d].mm, NEW s, s = current_task[d], pc[d] = "fork",
               NEW v \in vmas[job[d].mm], NEW n \in PagesOf(v)
        PROVE  CopiedAt(r, s, n)'
    BY <2>1, <2>3 DEF ForkCopied
  <2> QED
    BY <2>2, <2>3 DEF ForkCopied
<1> QED
  BY <1>4, <1>6, <1>7 DEF Steps, Copies

LEMMA DeallocRoundSteps ==
  ASSUME LeastExists, DataTypes, Control, FrameHasOneOwner, \A d \in Cpus: ForkCopied(d),
         NEW c \in Cpus, DeallocRound(c)
  PROVE  Steps /\ Copies
<1>1. /\ pc[c] = "dealloc"
      /\ UNCHANGED <<pstate, vmas, content, current_task, pc, job>>
  BY DEF DeallocRound, Releasing, cpuVars
<1> PICK p \in Procs: p = job[c].mm
  BY <1>1, JobIsOwn
<1>2. PICK S:
        /\ S \subseteq Span(c) \cap Mapped(p)
        /\ page_table' = [page_table EXCEPT ![p] =
                            [v \in Pages |-> IF v \in S THEN NULL ELSE @[v]]]
  BY SMT, Z3T(30), RoundIs
<1>3. /\ \A q \in Procs: q # p => page_table'[q] = page_table[q]
      /\ \A n \in Pages: page_table'[p][n] = IF n \in S THEN NULL ELSE page_table[p][n]
  BY <1>2 DEF DataTypes
<1>4. Only(c, p)
  BY <1>1, <1>3, JobIsOwn DEF Only, Elsewhere
<1>5. Private!Discard(View[p], View'[p])
  BY SMTT(20), Z3T(40), <1>1, <1>2, <1>3, PagesGo
<1>6. Steps
  BY <1>4, <1>5, OnlyView, OneChanges DEF Steps
<1> QED
  BY <1>1, <1>4, <1>6, ForkCopiedFrame DEF Copies

LEMMA DeallocEndSteps ==
  ASSUME DataTypes, Control, FrameHasOneOwner, \A d \in Cpus: ForkCopied(d),
         NEW c \in Cpus, DeallocEnd(c)
  PROVE  Steps /\ Copies
<1>1. /\ Releasing(c) /\ pc[c] = "dealloc"
      /\ UNCHANGED <<pstate, page_table, content, current_task>>
  BY DEF DeallocEnd, Releasing, memVars, cpuVars
<1> PICK p \in Procs: p = job[c].mm
  BY <1>1, JobIsOwn
<1>2. ASSUME \A q \in Procs: q # p => vmas'[q] = vmas[q], pc'[c] # "fork",
             \A d \in Cpus: d # c => pc'[d] = pc[d] /\ job'[d] = job[d],
             \A w \in vmas'[p]: \E v \in vmas[p]: PagesOf(w) \subseteq PagesOf(v)
      PROVE  Steps /\ Copies
  <2>1. Only(c, p)
    BY <1>1, <1>2, JobIsOwn DEF Only, Elsewhere
  <2>2. Private!Discard(View[p], View'[p])
    BY <1>1, <1>2, <2>1, AreasShrink
  <2>3. Steps
    BY <2>1, <2>2, OnlyView, OneChanges DEF Steps
  <2> QED
    BY <1>2, <2>1, <2>3, ForkCopiedFrame DEF Copies
<1>3. CASE job[c].then = "run"
  <2>1. PICK n \in 1 .. HeapSize:
          Area(c) = Heap(n) /\ job[c].from \in HeapBase + 1 .. HeapBase + n - 1
    BY <1>1, <1>3, AreaIs
  <2>2. [Area(c) EXCEPT !.size = job[c].from - Area(c).base] = Heap(job[c].from - HeapBase)
    BY SMTT(20), Z3T(40), <2>1, HeapResized DEF Heap
  <2>3. /\ vmas' = [vmas EXCEPT ![p] = (@ \ {Heap(n)}) \union {Heap(job[c].from - HeapBase)}]
        /\ pc' = [pc EXCEPT ![c] = "run"] /\ job' = [job EXCEPT ![c] = NoJob]
    BY <1>3, <2>1, <2>2 DEF DeallocEnd, Goto
  <2>4. /\ pc'[c] # "fork" /\ \A d \in Cpus: d # c => pc'[d] = pc[d] /\ job'[d] = job[d]
        /\ vmas'[p] = (vmas[p] \ {Heap(n)}) \union {Heap(job[c].from - HeapBase)}
        /\ \A q \in Procs: q # p => vmas'[q] = vmas[q]
    BY <2>3 DEF Control, ControlTypes
  <2>5. PagesOf(Heap(job[c].from - HeapBase)) \subseteq PagesOf(Heap(n)) /\ Heap(n) \in vmas[p]
    <3>1. Heap(n) \in vmas[p]
      BY <1>1, <2>1, AreaIs
    <3>2. PICK k \in Nat: k = job[c].from
      BY SMTT(20), Z3T(40), <2>1, Sizes DEF HeapBase
    <3>3. k - HeapBase <= n
      BY SMTT(20), Z3T(40), <2>1, <3>2, Sizes DEF HeapBase
    <3>4. PagesOf(Heap(k - HeapBase)) \subseteq PagesOf(Heap(n))
      BY SMTT(20), Z3T(40), <3>3, Sizes DEF PagesOf, Heap, HeapBase
    <3> QED
      BY <3>1, <3>2, <3>4
  <2>6. \A w \in vmas'[p]: \E v \in vmas[p]: PagesOf(w) \subseteq PagesOf(v)
    BY <2>4, <2>5
  <2> QED
    BY <1>2, <2>4, <2>6
<1>4. CASE job[c].then # "run"
  <2>1. vmas' = [vmas EXCEPT ![p] = @ \ {Area(c)}] /\ UNCHANGED <<pc, job>>
    BY <1>4 DEF DeallocEnd
  <2>2. vmas'[p] \subseteq vmas[p] /\ \A q \in Procs: q # p => vmas'[q] = vmas[q]
    BY <2>1 DEF Control, ControlTypes
  <2>3. pc'[c] # "fork" /\ \A d \in Cpus: d # c => pc'[d] = pc[d] /\ job'[d] = job[d]
    BY <1>1, <2>1
  <2> QED
    BY <1>2, <2>2, <2>3
<1> QED
  BY <1>3, <1>4

LEMMA FreeRootSteps ==
  ASSUME DataTypes, Control, \A r \in Procs: Fits(r), FrameHasOneOwner,
         \A d \in Cpus: ForkCopied(d), NEW c \in Cpus, FreeRoot(c)
  PROVE  Steps /\ Copies
<1>1. pc[c] = "dealloc" /\ UNCHANGED <<pstate, vmas, content, current_task>>
  BY DEF FreeRoot, memVars
<1> PICK p \in Procs: p = job[c].mm
  BY <1>1, JobIsOwn
<1>2. page_table' = page_table
  BY FreeRootIs
<1>3. pc' = [pc EXCEPT ![c] = "asid"] /\ job' = [job EXCEPT ![c] = job[c]]
  BY DEF FreeRoot, Goto
<1>4. pc'[c] = "asid" /\ Only(c, p)
  BY <1>1, <1>2, <1>3, JobIsOwn DEF Only, Elsewhere, Control, ControlTypes
<1>5. Steps
  BY <1>1, <1>2, QuietView
<1> QED
  BY <1>4, <1>5, ForkCopiedFrame DEF Copies

LEMMA AsidClearSteps ==
  ASSUME DataTypes, Control, \A d \in Cpus: ForkCopied(d), NEW c \in Cpus, AsidClear(c)
  PROVE  Steps /\ Copies
<1>1. pc[c] = "asid" /\ UNCHANGED <<page_table, vmas, content>>
  BY DEF AsidClear, memVars
<1> PICK p \in Procs: p = job[c].mm
  BY <1>1, JobIsOwn
<1>2. Owns(c, p) /\ pstate[p] = "dying"
  BY SMTT(20), Z3T(40), <1>1, JobIsOwn DEF Control, ControlTypes, JobOk, ExecJob, ExitJob
<1>3. /\ pstate' = [pstate EXCEPT ![p] = "none"]
      /\ current_task' = [current_task EXCEPT ![c] = IF @ = p THEN NULL ELSE @]
      /\ pc' = [pc EXCEPT ![c] = "run"] /\ job' = [job EXCEPT ![c] = NoJob]
  BY DEF AsidClear, Goto
<1>4. /\ pc'[c] = "run" /\ pstate'[p] = "none" /\ Only(c, p)
  BY <1>1, <1>2, <1>3 DEF Only, Elsewhere, Control, ControlTypes
<1>5. View'[p] = View[p]
  BY <1>2, <1>4, NotReady
<1>6. Steps
  BY <1>4, <1>5, OnlyView, ViewSame DEF Steps
<1> QED
  BY <1>4, <1>6, ForkCopiedFrame DEF Copies

(* Both steps of process_load_elf() add an area with pages, or give up. *)
LEMMA LoadSteps ==
  ASSUME DataTypes, Control, \A r \in Procs: Fits(r), FrameHasOneOwner,
         \A d \in Cpus: ForkCopied(d), NEW c \in Cpus, NEW p \in Procs, Owns(c, p),
         NEW S, S \subseteq Pages, S \cap Mapped(p) = {}, Alloc(p, S, Zero(S)),
         vmas[p] \subseteq vmas'[p], \A q \in Procs: q # p => vmas'[q] = vmas[q],
         pc'[c] # "fork", \A d \in Cpus: d # c => pc'[d] = pc[d] /\ job'[d] = job[d],
         UNCHANGED <<pstate, current_task>>
  PROVE  Steps /\ Copies
<1>1. \A q \in Procs: q # p => page_table'[q] = page_table[q]
  BY AllocIs
<1>2. \A q \in Procs: \A n \in Mapped(q): content'[page_table[q][n]] = content[page_table[q][n]]
  BY AllocContent
<1>3. Only(c, p)
  BY <1>1, <1>2 DEF Only, Elsewhere
<1>4. Private!Extend(View[p], View'[p])
  BY SMT, Z3T(30), AllocExtends DEF Zero
<1>5. Steps
  BY <1>3, <1>4, OnlyView, OneChanges DEF Steps
<1> QED
  BY <1>3, <1>5, ForkCopiedFrame DEF Copies

LEMMA LoadStackSteps ==
  ASSUME DataTypes, Control, \A r \in Procs: Fits(r), FrameHasOneOwner,
         \A d \in Cpus: ForkCopied(d), NEW c \in Cpus, LoadStack(c)
  PROVE  Steps /\ Copies
<1> DEFINE top == UserEnd - 1
<1>1. /\ pc[c] = "dealloc" /\ vmas[job[c].mm] = {} /\ job[c].then = "exec"
      /\ UNCHANGED current_task
  BY DEF LoadStack, cpuVars
<1> PICK p \in Procs: p = job[c].mm
  BY <1>1, JobIsOwn
<1>2. Owns(c, p)
  BY <1>1, JobIsOwn
<1>3. CASE StartExit(c, p) /\ UNCHANGED <<page_table, vmas, memVars>>
  BY <1>1, <1>2, <1>3, StartExitSteps DEF memVars
<1>4. CASE /\ vmas' = [vmas EXCEPT ![p] = {Stack}]
           /\ Alloc(p, {top}, Zero({top})) /\ Goto(c, "load", job[c])
           /\ UNCHANGED pstate
  <2>1. Mapped(p) = {}
    BY <1>1, NoAreas
  <2>2. {top} \subseteq Pages
    BY Sizes DEF HeapBase, UserEnd
  <2> HIDE DEF top
  <2>3. pc' = [pc EXCEPT ![c] = "load"] /\ job' = [job EXCEPT ![c] = job[c]]
    BY <1>4 DEF Goto
  <2>4. /\ pc'[c] # "fork" /\ \A d \in Cpus: d # c => pc'[d] = pc[d] /\ job'[d] = job[d]
        /\ \A q \in Procs: q # p => vmas'[q] = vmas[q]
    BY <1>4, <2>3 DEF Control, ControlTypes
  <2> QED
    BY SMTT(20), Z3T(40), <1>1, <1>2, <1>4, <2>1, <2>2, <2>4, LoadSteps
<1> QED
  BY <1>3, <1>4 DEF LoadStack

LEMMA LoadTextSteps ==
  ASSUME DataTypes, Control, \A r \in Procs: Fits(r), FrameHasOneOwner,
         \A d \in Cpus: ForkCopied(d), NEW c \in Cpus, LoadText(c)
  PROVE  Steps /\ Copies
<1>1. pc[c] = "load" /\ UNCHANGED current_task
  BY DEF LoadText, cpuVars
<1> PICK p \in Procs: p = job[c].mm
  BY <1>1, JobIsOwn
<1>2. Owns(c, p) /\ vmas[p] = {Stack}
  BY SMTT(20), Z3T(40), <1>1, JobIsOwn DEF Control, ControlTypes, JobOk, ExecJob, ExitJob
<1>3. CASE StartExit(c, p) /\ UNCHANGED <<page_table, vmas, memVars>>
  BY <1>1, <1>2, <1>3, StartExitSteps DEF memVars
<1>4. CASE /\ vmas' = [vmas EXCEPT ![p] = @ \union {Text}]
           /\ Alloc(p, PagesOf(Text), Zero(PagesOf(Text))) /\ Goto(c, "run", NoJob)
           /\ UNCHANGED pstate
  <2>1. PagesOf(Text) \cap PagesOf(Stack) = {}
    BY SMT, Z3T(30), Sizes DEF PagesOf, Text, Stack, HeapBase
  <2>2. PagesOf(Text) \cap Mapped(p) = {}
    BY <1>2, <2>1 DEF Fits
  <2>3. pc' = [pc EXCEPT ![c] = "run"] /\ job' = [job EXCEPT ![c] = NoJob]
    BY <1>4 DEF Goto
  <2>4. /\ pc'[c] # "fork" /\ \A d \in Cpus: d # c => pc'[d] = pc[d] /\ job'[d] = job[d]
        /\ vmas[p] \subseteq vmas'[p] /\ \A q \in Procs: q # p => vmas'[q] = vmas[q]
    BY <1>4, <2>3 DEF Control, ControlTypes
  <2> QED
    BY <1>1, <1>2, <1>4, <2>2, <2>4, TextPages, LoadSteps
<1> QED
  BY <1>3, <1>4 DEF LoadText

(* A whole area that is copied holds what it holds in the parent. *)
LEMMA AreaCopied ==
  ASSUME DataTypes, Control, FrameHasOneOwner, NEW c \in Cpus, ForkCopied(c), pc[c] = "fork",
         NEW p \in Procs, p = current_task[c], NEW q \in Procs, q = job[c].mm, p # q,
         NEW v \in vmas[p] \ vmas[q], PagesOf(v) \cap Mapped(q) = {},
         page_table'[p] = page_table[p],
         \A n \in Pages: n \notin Copied(p, v) => page_table'[q][n] = page_table[q][n],
         \A n \in Copied(p, v):
           page_table'[q][n] # NULL /\ content'[page_table'[q][n]] = content[page_table[p][n]],
         \A r \in Procs: \A n \in Mapped(r): content'[page_table[r][n]] = content[page_table[r][n]],
         vmas'[q] = vmas[q] \union {v}, UNCHANGED <<pc, job, current_task>>
  PROVE  ForkCopied(c)'
<1> DEFINE S == Copied(p, v)
<1>1. vmas'[q] = vmas[q] \union {v} /\ vmas[q] \subseteq vmas[p] /\ vmas[p] \subseteq AreaShapes
      /\ AreasOk(p)
  BY DEF Control, ControlTypes, JobOk, ForkJob
<1>2. S \subseteq Pages /\ S \subseteq PagesOf(v) /\ S \subseteq Mapped(p)
  BY DEF Copied, Mapped
<1> HIDE DEF S
<1>3. ASSUME NEW n \in PagesOf(v) PROVE CopiedAt(q, p, n)'
  <2>1. n \in Pages
    BY <1>1, ShapeInUserSpace
  <2>2. CASE n \in S
    <3>1. page_table[p][n] # NULL /\ content'[page_table[p][n]] = content[page_table[p][n]]
      BY <1>2, <2>2 DEF Mapped
    <3> QED
      BY <2>2, <3>1 DEF S, CopiedAt
  <2>3. CASE n \notin S
    <3>1. page_table[p][n] = NULL
      BY <2>1, <2>3 DEF S, Copied, Mapped
    <3>2. page_table[q][n] = NULL
      BY <2>1 DEF Mapped
    <3> QED
      BY <2>1, <2>3, <3>1, <3>2 DEF S, CopiedAt
  <2> QED
    BY <2>2, <2>3
<1>4. ASSUME NEW w \in vmas[q], NEW n \in PagesOf(w)
      PROVE  CopiedAt(q, p, n)'
  <2>1. n \in Pages
    BY <1>1, ShapeInUserSpace
  <2>2. w.base # v.base
    BY <1>1 DEF AreasOk
  <2>3. n \notin S
    BY <1>1, <1>2, <2>2, ShapesDisjoint
  <2>4. page_table'[q][n] = page_table[q][n] /\ page_table'[p][n] = page_table[p][n]
    BY <2>1, <2>3 DEF S
  <2>5. CopiedAt(q, p, n)
    BY DEF ForkCopied
  <2>6. CASE page_table[q][n] = NULL
    BY <2>4, <2>5, <2>6 DEF CopiedAt
  <2>7. CASE page_table[q][n] # NULL
    <3>1. n \in Mapped(q) /\ n \in Mapped(p)
      BY <2>1, <2>5, <2>7 DEF CopiedAt, Mapped
    <3>2. /\ content'[page_table[q][n]] = content[page_table[q][n]]
          /\ content'[page_table[p][n]] = content[page_table[p][n]]
      BY <3>1
    <3> QED
      BY <2>4, <2>5, <2>7, <3>2 DEF CopiedAt
  <2> QED
    BY <2>6, <2>7
<1>5. ASSUME NEW w \in vmas'[q], NEW n \in PagesOf(w)
      PROVE  CopiedAt(q, p, n)'
  <2>1. CASE w = v
    BY <1>3, <2>1
  <2>2. CASE w \in vmas[q]
    BY <1>4, <2>2
  <2> QED
    BY <1>1, <2>1, <2>2
<1>6. job'[c].mm = q /\ current_task'[c] = p
  OBVIOUS
<1> QED
  BY <1>5, <1>6 DEF ForkCopied

LEMMA ForkVmaSteps ==
  ASSUME DataTypes, Control, \A r \in Procs: Fits(r), FrameHasOneOwner,
         \A d \in Cpus: ForkCopied(d), NEW c \in Cpus, ForkVma(c)
  PROVE  Steps /\ Copies
<1>1. pc[c] = "fork" /\ UNCHANGED current_task
  BY DEF ForkVma, cpuVars
<1> PICK q \in Procs: q = job[c].mm
  BY <1>1, JobIsOwn
<1> PICK p \in Procs: p = current_task[c]
  BY <1>1 DEF Control, ControlTypes, JobOk, ForkJob
<1>2. PICK v \in vmas[p] \ vmas[q]: ForkTakes(c, p, q, v)
  BY ForkVmaIs
<1>3. Owns(c, q) /\ p # q /\ PagesOf(v) \cap Mapped(q) = {}
  BY <1>1, ForkIs
<1>4. ASSUME NEW S, S \subseteq Copied(p, v), NEW x, Alloc(q, S, x),
             vmas' = [vmas EXCEPT ![q] = @ \union {v}]
      PROVE  \A r \in Procs: r # q =>
               /\ vmas'[r] = vmas[r] /\ page_table'[r] = page_table[r]
               /\ \A n \in Mapped(r): content'[page_table[r][n]] = content[page_table[r][n]]
  <2>1. S \subseteq Pages
    BY <1>4 DEF Copied, Mapped
  <2>2. \A r \in Procs: r # q => vmas'[r] = vmas[r]
    BY <1>4 DEF Control, ControlTypes
  <2>3. \A r \in Procs: r # q => page_table'[r] = page_table[r]
    BY <1>4, <2>1, AllocIs
  <2>4. \A r \in Procs: \A n \in Mapped(r): content'[page_table[r][n]] = content[page_table[r][n]]
    BY <1>4, <2>1, AllocContent
  <2> QED
    BY <2>2, <2>3, <2>4
<1>5. CASE /\ Alloc(q, Copied(p, v), [w \in Copied(p, v) |-> content[page_table[p][w]]])
           /\ vmas' = [vmas EXCEPT ![q] = @ \union {v}]
           /\ UNCHANGED <<pstate, pc, job>>
  <2> DEFINE S == Copied(p, v)
             x == [w \in S |-> content[page_table[p][w]]]
  <2>0. /\ S \subseteq Copied(p, v) /\ Copied(p, v) \subseteq S /\ Alloc(q, S, x)
        /\ \A n \in S: x[n] = content[page_table[p][n]]
    BY <1>5
  <2> HIDE DEF S, x
  <2>1. Only(c, q)
    BY <1>1, <1>3, <1>4, <1>5, <2>0 DEF Only, Elsewhere
  <2>2. pstate[q] = "building"
    BY <1>1 DEF Control, JobOk, ForkJob
  <2>3. View'[q] = View[q]
    BY <1>5, <2>2, NotReady
  <2>4. Steps
    BY <2>1, <2>3, OnlyView, ViewSame DEF Steps
  <2>5. ForkCopied(c)'
    <3>1. S \subseteq Pages
      BY <2>0 DEF Copied, Mapped
    <3>2. /\ \A n \in Pages: n \notin S => page_table'[q][n] = page_table[q][n]
          /\ \A n \in S: page_table'[q][n] \in Frames \ allocated
      BY <2>0, <3>1, AllocIs
    <3>3. \A n \in S: content'[page_table'[q][n]] = x[n]
      BY SMTT(20), Z3T(40), <2>0, <3>1, AllocGives
    <3>4. \A n \in S: /\ page_table'[q][n] # NULL
                      /\ content'[page_table'[q][n]] = content[page_table[p][n]]
      BY SMTT(20), Z3T(40), <2>0, <3>2, <3>3, AddrSpaceAssumption DEF AddrSpaceAssumption
    <3>5. \A r \in Procs: \A n \in Mapped(r):
            content'[page_table[r][n]] = content[page_table[r][n]]
      BY <2>0, <3>1, AllocContent
    <3>6. page_table'[p] = page_table[p]
      BY <1>3, <2>1 DEF Only, Elsewhere
    <3>7. vmas'[q] = vmas[q] \union {v} /\ UNCHANGED <<pc, job, current_task>> /\ ForkCopied(c)
      BY <1>1, <1>5 DEF Control, ControlTypes
    <3>8. /\ \A n \in Pages: n \notin Copied(p, v) => page_table'[q][n] = page_table[q][n]
          /\ \A n \in Copied(p, v):
               page_table'[q][n] # NULL /\ content'[page_table'[q][n]] = content[page_table[p][n]]
      BY <2>0, <3>2, <3>4
    <3> QED
      BY SMTT(20), Z3T(40), <1>1, <1>3, <3>5, <3>6, <3>7, <3>8, AreaCopied
  <2> QED
    BY <2>1, <2>4, <2>5, ForkCopiedElsewhere DEF Copies
<1>6. CASE /\ \E n \in Copied(p, v):
                LET S == {w \in Copied(p, v): w < n}
                IN  Alloc(q, S, [w \in S |-> content[page_table[p][w]]])
           /\ vmas' = [vmas EXCEPT ![q] = @ \union {v}]
           /\ StartExit(c, q)
  <2>1. PICK n \in Copied(p, v):
          LET S == {w \in Copied(p, v): w < n}
          IN  Alloc(q, S, [w \in S |-> content[page_table[p][w]]])
    BY <1>6
  <2> DEFINE S == {w \in Copied(p, v): w < n}
  <2>2. S \subseteq Copied(p, v) /\ Alloc(q, S, [w \in S |-> content[page_table[p][w]]])
    BY <2>1
  <2> HIDE DEF S
  <2>3. \A r \in Procs: r # q =>
          /\ vmas'[r] = vmas[r] /\ page_table'[r] = page_table[r]
          /\ \A m \in Mapped(r): content'[page_table[r][m]] = content[page_table[r][m]]
    BY <1>4, <1>6, <2>2
  <2> QED
    BY <1>1, <1>3, <1>6, <2>3, StartExitSteps
<1>7. CASE StartExit(c, q) /\ UNCHANGED <<memVars, page_table, vmas>>
  BY <1>1, <1>3, <1>7, StartExitSteps DEF memVars
<1> QED
  BY <1>2, <1>5, <1>6, <1>7 DEF ForkTakes

LEMMA ForkDoneSteps ==
  ASSUME DataTypes, Control, \A r \in Procs: Fits(r), FrameHasOneOwner,
         \A d \in Cpus: ForkCopied(d), NEW c \in Cpus, ForkDone(c)
  PROVE  Steps /\ Copies
<1>1. pc[c] = "fork" /\ UNCHANGED <<vmas, page_table, content, current_task>>
  BY DEF ForkDone, memVars, cpuVars
<1> PICK q \in Procs: q = job[c].mm
  BY <1>1, JobIsOwn
<1> PICK p \in Procs: p = current_task[c]
  BY <1>1 DEF Control, ControlTypes, JobOk, ForkJob
<1>2. Owns(c, q) /\ pstate[q] = "building" /\ vmas[p] = vmas[q] /\ pstate[p] = "ready"
  BY <1>1, JobIsOwn, AddrSpaceAssumption
  DEF Control, JobOk, ForkJob, CurrentOk, ForkDone, AddrSpaceAssumption
<1>3. /\ pc' = [pc EXCEPT ![c] = "run"] /\ job' = [job EXCEPT ![c] = NoJob]
      /\ pstate' = [pstate EXCEPT ![q] = "ready"]
  BY DEF ForkDone, Goto
<1>4. pc'[c] = "run" /\ pstate'[q] = "ready" /\ Only(c, q)
  BY <1>1, <1>2, <1>3 DEF Only, Elsewhere, Control, ControlTypes
<1>5. ASSUME NEW n \in Pages PROVE Sees(q, n)' = Sees(p, n)
  <2>1. CASE \E a \in vmas[p]: n \in PagesOf(a)
    <3>1. /\ page_table[q][n] = NULL <=> page_table[p][n] = NULL
          /\ page_table[q][n] # NULL => content[page_table[q][n]] = content[page_table[p][n]]
      BY <1>1, <1>2, <2>1 DEF ForkCopied, CopiedAt
    <3> QED
      BY <1>1, <1>2, <1>4, <2>1, <3>1 DEF Sees
  <2>2. CASE \A a \in vmas[p]: n \notin PagesOf(a)
    BY <1>1, <1>2, <2>2 DEF Sees
  <2> QED
    BY <2>1, <2>2
<1>6. View'[q] = View[p]
  <2>1. View'[q] = [n \in Pages |-> Sees(q, n)'] /\ View[p] = [n \in Pages |-> Sees(p, n)]
    BY ViewIs
  <2> QED
    BY <1>5, <2>1
<1>7. Private!Fork(p, View[q], View'[q])
  BY <1>2, <1>6, NotReady DEF Private!Fork
<1>8. Steps
  BY <1>4, <1>7, OnlyView, OneChanges DEF Steps
<1> QED
  BY <1>4, <1>8, ForkCopiedFrame DEF Copies

LEMMA ViewInit == Init => Private!Init /\ \A d \in Cpus: ForkCopied(d)
<1> SUFFICES ASSUME Init PROVE Private!Init /\ \A d \in Cpus: ForkCopied(d)
  OBVIOUS
<1>1. \A p \in Procs \ {init_proc}: pstate[p] # "ready"
  BY DEF Init
<1>2. \A d \in Cpus: pc[d] = "run"
  BY DEF Init
<1> QED
  BY <1>1, <1>2, NotReady DEF Private!Init, ForkCopied

LEMMA ViewStep ==
  ASSUME LeastExists, DataTypes, Control, \A r \in Procs: Fits(r), FrameHasOneOwner, TlbInv,
         \A d \in Cpus: ForkCopied(d), [Next]_vars
  PROVE  Steps /\ Copies
<1>1. CASE UNCHANGED vars
  BY <1>1, QuietView, ForkCopiedQuiet DEF vars, Copies
<1>2. ASSUME NEW c \in Cpus, NEW v \in Pages, TlbFill(c, v) PROVE Steps /\ Copies
  BY <1>2, QuietView, ForkCopiedQuiet DEF TlbFill, mmVars, memVars, cpuVars, Copies
<1>3. ASSUME NEW c \in Cpus, NEW p \in Procs \union {NULL}, TaskActivate(c, p)
      PROVE  Steps /\ Copies
  <2>1. /\ pc[c] = "run" /\ current_task' = [current_task EXCEPT ![c] = p]
        /\ UNCHANGED <<pstate, vmas, page_table, content, pc, job>>
    BY <1>3 DEF TaskActivate, mmVars, memVars
  <2>2. \A d \in Cpus: pc[d] = "fork" => current_task'[d] = current_task[d]
    BY <2>1 DEF Control, ControlTypes
  <2> QED
    BY <2>1, <2>2, QuietView, ForkCopiedQuiet DEF Copies
<1>4. ASSUME NEW c \in Cpus, NEW p \in Procs, SysExit(c, p) PROVE Steps /\ Copies
  <2>1. Calls(c, p) /\ StartExit(c, p) /\ UNCHANGED <<page_table, vmas, content, current_task>>
    BY <1>4 DEF SysExit, memVars, cpuVars
  <2>2. Owns(c, p)
    BY <2>1, CallerIs
  <2> QED
    BY <2>1, <2>2, StartExitSteps
<1> QED
  BY <1>1, <1>2, <1>3, <1>4, UserStoreSteps, TaskHandleFaultSteps, SysBrkSteps, SysExecveSteps,
     SysForkSteps, DeallocRoundSteps, DeallocEndSteps, FreeRootSteps, AsidClearSteps,
     LoadStackSteps, LoadTextSteps, ForkVmaSteps, ForkDoneSteps
  DEF Next
=============================================================================
