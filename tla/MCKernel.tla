------------------------------ MODULE MCKernel ------------------------------
(***************************************************************************)
(* What processes and devices rest on, for TLC, one at a time: the task    *)
(* tree, timers, the start of the CPUs and the calls among them, page      *)
(* frames, or page tables.                                                 *)
(***************************************************************************)
EXTENDS TaskSched

CONSTANTS k1, k2, p1, v1

VARIABLES part,
          arch, period, ticks, wall_base, next, cmp, walk, alarm, at, timer_list, expiration,
          sleep, runs_on, waits, pending, hvip, armed,
          boot, available, online, stray, boot_root, mode, kicked, active, func, ran,
          place, cpu, call,
          gfp_pc, valid, bitmap, pbase, marked, percpu, os, map_pages, owned,
          kernel, live, booted, mem, taken, io, regions

T == INSTANCE Timers WITH Cpus <- {k1, k2}, Procs <- {p1}, Vms <- {v1}, Nsec <- 3, Freq <- 2,
                          Mod <- 64, Periods <- {0, 3}, Durations <- {0, 2}, Alarms <- {0, 4},
                          MaxTicks <- 4,
                          handle_events <- walk, ipi <- alarm, pc <- at, state <- sleep,
                          on_cpu <- runs_on, wfe <- waits

S == INSTANCE SmpCall WITH MAX_CPUS <- 3, Word <- 8, Calls <- 2, ipi <- kicked, pc <- place

(* Eight pages of kernel memory, at the beginning of 14 or inside. *)
G == INSTANCE Gfp WITH BITS_PER_LONG <- 4, KMM_PAGES <- 8, OsPages <- 3, InitPages <- 2,
                       PerCpus <- 2, RamPages <- 14, GrinchBases <- {0, 3},
                       Reserved <- {<<11, 1>>, <<13, 1>>},
                       Sizes <- {<<1, 1>>, <<2, 2>>, <<3, 1>>, <<4, 2>>}, MaxOwned <- 4,
                       pc <- gfp_pc

(* Three levels of tables with two entries, the lower two with pages. *)
Device(paddr, size) == [paddr |-> paddr, size |-> size]
Range(virt, phys, size, flags) == [virt |-> virt, phys |-> phys, size |-> size, flags |-> flags]

M == INSTANCE Mappings WITH BITS_PER_LONG <- 4, Ptes <- 2, Leaf <- 2, Block <- 1,
                            Tables <- 0 .. 4, Pages <- 0 .. 7, Window <- 7,
                            Devices <- {Device(8, 1), Device(4, 2), Device(9, 3)},
                            Requests <- {Range(0, 4, 4, "r"), Range(2, 2, 3, "rw"),
                                         Range(3, 5, 1, "r"), Range(4, 0, 2, "rw")}

timerVars == <<arch, period, ticks, wall_base, next, cmp, walk, alarm, at, timer_list, expiration,
               sleep, runs_on, waits, pending, hvip, armed>>
smpVars == <<boot, available, online, stray, boot_root, mode, kicked, active, func, ran,
             place, cpu, call>>
frameVars == <<gfp_pc, valid, bitmap, pbase, marked, percpu, os, map_pages, owned>>
tableVars == <<kernel, live, booted, mem, taken, io, regions>>
allVars == <<vars, timerVars, smpVars, frameVars, tableVars, part>>

InitKernel ==
  /\ part \in {"tasks", "timers", "smp", "frames", "tables"}
  /\ Init /\ T!Init /\ S!Init /\ G!Init /\ M!Init
  /\ part # "timers" => arch = "riscv" /\ period = 0
  /\ part # "smp" => boot = 0 /\ available = {0} /\ ~ stray
  /\ part # "frames" => pbase[0] = 0
  /\ part # "tables" => kernel

OnTasks == part = "tasks" /\ UNCHANGED <<part, timerVars, smpVars, frameVars, tableVars>>
OnTimers == part = "timers" /\ UNCHANGED <<part, vars, smpVars, frameVars, tableVars>>
OnSmp == part = "smp" /\ UNCHANGED <<part, vars, timerVars, frameVars, tableVars>>
OnFrames == part = "frames" /\ UNCHANGED <<part, vars, timerVars, smpVars, tableVars>>
OnTables == part = "tables" /\ UNCHANGED <<part, vars, timerVars, smpVars, frameVars>>

NextKernel ==
  \/ OnTasks /\ Next
  \/ OnTimers /\ T!Next
  \/ OnSmp /\ S!Next
  \/ OnFrames /\ G!Next
  \/ OnTables /\ M!Next

SpecKernel == InitKernel /\ [][NextKernel]_allVars

(* The tasks that do not fork are interchangeable, and so are the CPUs. *)
KernelSymmetry == Permutations(Tasks \ Forkers) \union Permutations({k1, k2})

(* However parents and children exit on one CPU, the parent of a task that   *)
(* has not been reaped is a task, and whoever sleeps in wait() has a child   *)
(* to wake it (task_exit() gives children to PID 1).                         *)
TreeKept == part = "tasks" => ParentAllocated /\ SleepersHaveWaker

(* The list of timers is sorted and holds just the tasks that wait for one   *)
(* (the BUG() checks of task_handle_events() and task_sleep_until() pass).   *)
(* No timer is lost, with or without a tick: some CPU's comparator is set    *)
(* early enough, or a CPU is on its way to task_handle_events().  And a      *)
(* guest that has set its timer may wait for it, whichever CPU walked the    *)
(* list when it expired.                                                     *)
TimersKept == part = "timers" => T!TimersSorted /\ T!TimersCovered /\ T!VmCanWait

(* No nanosleep() is too short.                                              *)
NotEarly == T!NotEarly

(* on_each_cpu() returns when every CPU that is online has executed the      *)
(* function, once, and each function in its turn; until then its interrupt   *)
(* is to be sent, pending, or about to be served.  And smp_init() frees the  *)
(* page table that CPUs start on when none of them is on it any more.        *)
RemoteCallsRun == part = "smp" => S!RanEverywhere /\ S!CallIsNoticed /\ S!BootRootUnused

(* No frame is handed out twice, by whichever of the two areas of the page   *)
(* allocator, nor one of the kernel or of a region that firmware keeps; the  *)
(* bitmaps have, word by word, nothing but what is in use, whether pages are *)
(* freed by their address or by their frame; a page is found again by its    *)
(* frame; and bitmap_find_next_zero_area() finds the first aligned place,    *)
(* and fails only if there is none.                                          *)
FramesExact ==
    part = "frames" =>
      G!FramesOnce /\ G!BitsAccounted /\ G!AddressesRoundTrip /\ G!FindsFirst

(* After map_range() and unmap_range() the CPU has no translation that is    *)
(* not in the table, and paging_destroy() frees no table that the CPU may    *)
(* still walk.                                                               *)
NothingStale == part = "tables" => M!TlbCurrent /\ M!WalkersOnTables

(* map_range() and unmap_range() change just the pages that they are asked   *)
(* to, also inside of larger pages; if memory runs out the first of them.    *)
(* Each table is referred to once, under the root.  Unmapping all of a       *)
(* process leaves only the root for process_destroy() to free, also if calls *)
(* have failed before.  ioremap() gives out disjoint regions that lead to    *)
(* their devices, and its bitmap has just these.                             *)
MappingsExact ==
    part = "tables" =>
      M!RangesExact /\ M!TablesExact /\ M!UnmapReturnsTables /\ M!WindowExact

(* The slots of the kernel's root never change after booting: processes have *)
(* copies of them.                                                           *)
KernelSlotsFixed == M!KernelSlotsFixed
=============================================================================
