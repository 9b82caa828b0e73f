------------------------------ MODULE MCSystem ------------------------------
(***************************************************************************)
(* The system apart from its scheduler and memory, for TLC, one part at a  *)
(* time: a character device, the lookup cache with directories, the content *)
(* of a file, the order and the resources with which interrupt controllers *)
(* and PCI devices are probed; then copies from and to programs, the       *)
(* arguments of execve(), the initial ramdisk, vsnprintf() and the reading *)
(* of its format, division on 32-bit machines, timespecs, functions on     *)
(* strings, the shell, the devices and the console of a booting kernel, and *)
(* the entry of traps.  The latter have their variables in common, as only *)
(* one of them is there.                                                   *)
(***************************************************************************)
EXTENDS Chardev, TLC

CONSTANTS p1, p2, e1, e2, root, dev

(* The readers of the character device are alike. *)
Symmetry == Permutations(Tasks)

VARIABLES part,
          nodes, dirlock, dflc, lock, fds, cwd, files_pc, call,
          raw, position,
          n_chips, parent, order, chip, progress,
          used, bars, pci_dev, bar,
          probe_pc

Request(op, abs, comps) == [op |-> op, abs |-> abs, comps |-> comps]

(* A directory /a, in which a process may be, and files /a and /a/a. *)
Paths ==
  {Request("mkdir", TRUE, <<"a">>), Request("create", FALSE, <<"a">>),
   Request("chdir", FALSE, <<"a">>), Request("open", FALSE, <<"a">>),
   Request("stat", FALSE, <<"..", ".", "a", "a">>)}

V == INSTANCE Vfs WITH Procs <- {p1, p2}, init_proc <- p1, Slots <- {e1, e2}, Fds <- {1},
                       Requests <- Paths, MaxDepth <- 2, MaxPath <- 2, pc <- files_pc

F == INSTANCE TmpfsFile WITH Handles <- Tasks, Data <- {"x", "y"}, MaxCount <- 2, MaxFile <- 4

I == INSTANCE Irqchip WITH IRQCHIP_MAX_CHIPS <- 4, pc <- probe_pc

Range(paddr, pages, mem64) == [paddr |-> paddr, pages |-> pages, mem64 |-> mem64]
Mem(type, pages) == [type |-> type, pages |-> pages]

(* A range for 64-bit BARs that is larger than the window, and one for all;  *)
(* six devices, which together need more.                                    *)
P == INSTANCE Pci WITH
       BITS_PER_LONG <- 4, PCI_WINDOW_MAX <- 6, dev <- pci_dev, pc <- probe_pc,
       Ranges <- <<Range(32, 8, TRUE), Range(8, 6, FALSE)>>,
       Devices <- << <<Mem("mem32", 1), Mem("mem64", 2)>>,
                     <<Mem("mem64", 4)>>,
                     <<Mem("mem32", 2), Mem("none", 0), Mem("mem32", 1), Mem("mem64", 1)>>,
                     <<Mem("mem64", 4), Mem("io", 0)>>,
                     <<Mem("mem64", 2), Mem("mem32", 2)>>,
                     <<Mem("mem32", 1), Mem("mem64", 4)>> >>

fileVars == <<nodes, dirlock, dflc, lock, fds, cwd, files_pc, call>>
contentVars == <<raw, position>>
chipVars == <<n_chips, parent, order, chip, progress>>
pciVars == <<used, bars, pci_dev, bar>>
allVars == <<vars, part, fileVars, contentVars, chipVars, pciVars, probe_pc>>

ChipsAbsent ==
    n_chips = 0 /\ parent = <<>> /\ order = <<>> /\ chip = 1 /\ progress = FALSE

InitFiles ==
    /\ Init /\ V!Init /\ F!FileInit
    /\ part # "chardev" => cpus = 1 /\ rb.size = 2
    /\ IF part = "irqchips"
       THEN I!Init /\ used = <<>> /\ bars = <<>> /\ pci_dev = 1 /\ bar = 1
       ELSE P!Init /\ ChipsAbsent

FileParts == {"chardev", "vfs", "tmpfs", "irqchips", "pci"}

OnChardev ==
    part = "chardev" /\ UNCHANGED <<part, fileVars, contentVars, chipVars, pciVars, probe_pc>>
OnVfs ==
    part = "vfs" /\ UNCHANGED <<part, vars, contentVars, chipVars, pciVars, probe_pc>>
OnTmpfs ==
    part = "tmpfs" /\ UNCHANGED <<part, vars, fileVars, chipVars, pciVars, probe_pc>>
OnIrqchips ==
    part = "irqchips" /\ UNCHANGED <<part, vars, fileVars, contentVars, pciVars>>
OnPci ==
    part = "pci" /\ UNCHANGED <<part, vars, fileVars, contentVars, chipVars>>

NextFiles ==
    \/ OnChardev /\ Next
    \/ OnVfs /\ V!Next
    \/ OnTmpfs /\ F!FileNext
    \/ OnIrqchips /\ I!Next
    \/ OnPci /\ P!Next

(* tmpfs_write() implements a file: a sequence of bytes, none of them ever   *)
(* undefined, that writes extend and replace.                                *)
ImplementsByteFile == F!ImplementsByteFile

-----------------------------------------------------------------------------
VARIABLES v1, v2, v3, v4, v5, v6, v7, v8, v9, v10, v11, v12, v13, v14, v15

(* Three pages of two bytes, and calls of up to four. *)
U == INSTANCE UserMemory WITH
       PAGE_SIZE <- 2, UserPages <- {1, 2, 3}, Bytes <- {7}, MaxBytes <- 4,
       space <- v1, last <- v2

(* Tables and strings within pages and across their ends; vectors that fit   *)
(* and one that does not.                                                    *)
Place(table, strings) == [table |-> table, strings |-> strings]
E == INSTANCE ExecArgs WITH
       PAGE_SIZE <- 8, UserPages <- 1 .. 5, BYTES_PER_LONG <- 2, ARG_MAX <- 36,
       KInfo <- <<9, 9, 9>>, MaxFrames <- 5,
       Vectors <- {<<>>, << <<7>> >>, << <<7, 8>>, <<>> >>, << <<8>>, <<7>>, <<8>> >>},
       Places <- {[argv |-> Place(8, 16), envp |-> Place(32, 24)],
                  [argv |-> Place(13, 21), envp |-> Place(34, 28)]},
       passed <- v1, user <- v2, old <- v3, uenv <- v4, heap <- v5, new <- v6, sp <- v7,
       strings <- v8, tmp <- v9, kinfo <- v10, pc <- v11

(* Archives with bodies of all lengths modulo 4, with directories in          *)
(* directories, and without files; at three offsets in a page.                *)
File(name, body) == [name |-> name, dir |-> FALSE, body |-> body]
Dir(name) == [name |-> name, dir |-> TRUE, body |-> <<>>]
Archive(body) ==
  <<Dir(<<".">>), Dir(<<"a">>), File(<<"a", "/", "x">>, body),
    Dir(<<"a", "/", "y">>), File(<<"a", "/", "y", "/", "x">>, <<1>>),
    File(<<"a", "/", "y", "/", "c", "y">>, <<>>), File(<<"a", "/", "c", "y">>, <<1>>),
    Dir(<<"x">>), File(<<"c", "y">>, <<3, 4, 1>>)>>
R == INSTANCE Initrd WITH
       PAGE_SIZE <- 128, Bases <- {256, 260, 376}, MaxDepth <- 4, MaxCount <- 3,
       Names <- {<<"a">>, <<"x">>, <<"y">>, <<"c", "y">>},
       Archives <- {Archive(<<1>>), Archive(<<1, 2, 3, 4>>), Archive(<<4, 3, 2, 1, 5>>),
                    <<Dir(<<".">>), File(<<"x">>, <<1>>), Dir(<<"c", "y">>),
                      File(<<"c", "y", "/", "a">>, <<5, 6>>), Dir(<<"y">>),
                      File(<<"y", "/", "x">>, <<1>>)>>,
                    <<Dir(<<".">>)>>},
       archive <- v1, base <- v2, start <- v3, used <- v4, open <- v5, blocks <- v6,
       handle <- v7, lookup <- v8

(* Formats: numbers around the limits of the groups of digits, in all bases   *)
(* and with combinations of flags; strings; and pairs of specifications.      *)
W == 30
Directive == [kind |-> "num", flags |-> {}, width |-> -1, prec |-> -1, star |-> FALSE,
              base |-> 10, bits |-> W, arg |-> 0, null |-> FALSE]
Numbers ==
  {0, 7, 9, 10, 63, 64, 99, 100, 101, 999, 1000, 9999, 10000, 43699, 99999, 999999, 1000000,
   9999999, 10000000, 99999999, 100000000, 100000001, 123456789, 2^28 + 5, 2^29 - 1, 2^29,
   2^30 - 1, 10^9}
NumberFormats ==
  {[Directive EXCEPT !.arg = n, !.base = b, !.flags = f]:
     n \in Numbers, b \in {8, 10, 16}, f \in {{}, {"SPECIAL"}, {"SPECIAL", "SMALL"}}}
  \cup
  {[Directive EXCEPT !.arg = n, !.bits = b, !.flags = {"SIGN"}]: n \in Numbers, b \in {8, 16, W}}
FlagFormats ==
  {[Directive EXCEPT !.arg = n, !.flags = f, !.width = w, !.prec = p, !.base = b]:
     n \in {0, 19, 2^30 - 5}, w \in {-1, 1, 5}, p \in {-1, 3}, b \in {10, 16},
     f \in {{"SIGN"}, {"SIGN", "PLUS"}, {"SIGN", "SPACE", "LEFT"}, {"LEFT", "SPECIAL"},
            {"SPECIAL", "SMALL"}}}
  \cup
  {[Directive EXCEPT !.arg = n, !.flags = f, !.width = w, !.base = b]:
     n \in {0, 19, 2^30 - 5}, w \in {1, 5}, b \in {8, 10, 16},
     f \in {{"SIGN", "ZEROPAD"}, {"ZEROPAD", "SPECIAL", "PLUS"}}}
StringFormats ==
  {[Directive EXCEPT !.kind = "str", !.arg = a, !.flags = f, !.width = w, !.prec = p, !.star = s]:
     a \in {<<>>, <<97>>, <<97, 98, 99>>}, f \in {{}, {"LEFT"}}, w \in {-1, 2, 4},
     p \in {-1, 0, 2}, s \in BOOLEAN}
  \cup
  {[Directive EXCEPT !.kind = "str", !.arg = <<>>, !.null = TRUE, !.width = w, !.prec = p]:
     w \in {-1, 7}, p \in {-1, 2}}
OtherFormats ==
  {[Directive EXCEPT !.kind = "char", !.arg = 97, !.flags = f, !.width = w]:
     f \in {{}, {"LEFT"}}, w \in {-1, 1, 3}}
  \cup {[Directive EXCEPT !.kind = "ptr", !.arg = n, !.width = w]: n \in {0, 2^20 + 11}, w \in {-1, 9}}
  \cup {[Directive EXCEPT !.kind = "text", !.arg = <<120, 121>>]}
PairFormats == OtherFormats \cup {f \in StringFormats: f.width = 4}
S == INSTANCE Vsprintf WITH
       W <- W, Sizes <- (0 .. 6) \cup {16}, Beyond <- 3,
       Formats <- {<<f>>: f \in NumberFormats \cup FlagFormats \cup StringFormats \cup OtherFormats}
                  \cup {<<f, g>>: f, g \in PairFormats},
       format <- v1, todo <- v2, size <- v3, out <- v4, text <- v5, pc <- v6

(* Conversions with every kind of width, precision and type, and those that    *)
(* take arguments before others and before text.                              *)
Conversion(f, w, p, q, c, a) ==
  [flags |-> f, width |-> w, prec |-> p, qualifier |-> q, conv |-> c, args |-> a]
NoField == << <<>>, <<>> >>
StarField(n) == << <<"*">>, <<n>> >>
WidthFields ==
  {NoField, << <<"5">>, <<>> >>, << <<"1", "0">>, <<>> >>}
    \cup {StarField(n): n \in {4, -4, 0, 2^23 + 1, -2^23, -2^24}}
PrecFields == {NoField, << <<"3">>, <<>> >>} \cup {StarField(n): n \in {2, -1, 2^15, 2^16, -2^16}}
FieldConversions ==
  {Conversion(f, w[1], p[1], <<>>, c, w[2] \o p[2]):
     f \in {<<>>, <<"-">>, <<"0", "+">>, <<"#", " ">>}, w \in WidthFields, p \in PrecFields,
     c \in {"d", "s"}}
TypeConversions ==
  {Conversion(<<>>, <<>>, <<>>, q, c, <<>>):
     q \in {<<>>, <<"h">>, <<"h", "h">>, <<"l">>, <<"l", "l">>, <<"z">>, <<"t">>},
     c \in {"d", "i", "u", "x", "X", "o", "c", "s", "p", "%", "n"}}
SomeConversions ==
  {Conversion(<<>>, <<"*">>, <<"*">>, <<>>, "s", <<n, 3>>): n \in {-2, 2}}
    \cup {Conversion(<<>>, <<>>, <<>>, <<>>, c, <<>>): c \in {"p", "%", "n"}}
    \cup {Conversion(<<"0">>, <<>>, <<>>, <<>>, "x", <<>>),
          Conversion(<<>>, <<>>, <<"*">>, <<"l">>, "u", <<1>>)}
N == INSTANCE FormatDecode WITH
       Formats <- {<<a>>: a \in FieldConversions \cup TypeConversions}
                  \cup {<<a, b>>: a, b \in SomeConversions}
                  \cup {<<a, [text |-> t], b>>: a, b \in SomeConversions,
                          t \in {<<"a", "x", " ", "1">>, <<" ", "s">>, <<"e", "0">>}}
                  \cup {<<[text |-> <<"1", "s">>], a>>: a \in SomeConversions},
       parts <- v1, fmt <- v2, args <- v3, spec <- v4, seen <- v5, done <- v6

(* All numbers of 8 bits by all of 4 *)
Q == INSTANCE Div64 WITH
       W <- 4, n <- v1, base <- v2, constant <- v3, dividend <- v4, rem <- v5, b <- v6, d <- v7,
       res <- v8, pc <- v9

(* All times of 8 bits, and requests that carry, borrow and exceed them *)
M == INSTANCE Timespec WITH
       Bits <- 8, NSEC_PER_SEC <- 4, Walls <- -128 .. 127,
       Requests <- [tv_sec: {-1, 0, 1, 2, 25, 31}, tv_nsec: {-5, -1, 0, 1, 3, 4, 9}],
       ns <- v1, req <- v2, tv_sec <- v3, tv_nsec <- v4, expiration <- v5, pc <- v6

(* All moves in five bytes; all paths and command lines of a few characters *)
B == INSTANCE Strings WITH
       Buffers <- {<<1, 2, 3, 4, 5>>}, Paths <- UNION {[1 .. i -> {"a", ".", "/"}]: i \in 0 .. 5},
       Lines <- UNION {[1 .. i -> {"a", "b", "=", " "}]: i \in 0 .. 5}, Params <- {<<"a">>, <<"b", "a">>},
       given <- v1, buf <- v2, dst <- v3, pos <- v4, count <- v5, down <- v6, must_dir <- v7,
       calls <- v8, pc <- v9

(* A buffer that grows by one to five characters, and lines of five keys. *)
G == INSTANCE Gsh WITH
       GSH_BUF_GROWTH <- 1, GSH_BUF_MAX <- 5, Keys <- {"a", " ", "dq", "sq", "bs"}, MaxKeys <- 5,
       PathDirs <- <<"bin", "sbin">>, Builtins <- {<<"a">>},
       typed <- v1, buf <- v2, pos <- v3, line <- v4, tokens <- v5, has <- v6, ran <- v7, pc <- v8

(* UARTs that are right, that have registers of a width that is not           *)
(* supported or an interrupt that is not there, and two with one interrupt.   *)
Uart(width, irq) == [width |-> width, irq |-> irq]
D == INSTANCE Devices WITH
       Trees <- {<<>>} \cup
                {<<a, b, c>>: a \in {Uart(1, 1), Uart(4, 0), Uart(1, -1)},
                              b \in {Uart(1, 1), Uart(2, 1), Uart(2, -1), Uart(4, 2)},
                              c \in {Uart(1, 1)}},
       IRQ_MAX <- 2, Consoles <- {<<"", 0>>, <<"ttyS", 1>>, <<"ttyS", 7>>},
       tree <- v1, stdout <- v2, console_device <- v3, default <- v4, irqchip <- v5, at <- v6,
       devices <- v7, nodes <- v8, heap <- v9, mapped <- v10, handlers <- v11, enabled <- v12,
       uart_no <- v13, boot <- v14, kstdout <- v15

(* Two processes, without guests. *)
T == INSTANCE TrapEntry WITH
       Procs <- {p1, p2}, Guests <- {},
       mode <- v1, x <- v2, sp <- v3, sscratch <- v4, spp <- v5, spv <- v6, frames <- v7,
       current_task <- v8, idling <- v9, regs <- v10, vs <- v11, cause <- v12, pc <- v13, due <- v14

fileParts == <<vars, fileVars, contentVars, chipVars, pciVars, probe_pc>>

(* The variables that a part with so many does not use *)
from15 == <<v15>>
from12 == <<v12, v13, v14, from15>>
from10 == <<v10, v11, from12>>
from9 == <<v9, from10>>
from7 == <<v7, v8, from9>>
from3 == <<v3, v4, v5, v6, from7>>
systemVars == <<part, fileParts, v1, v2, from3>>

No15 == v15 = 0
No12 == v12 = 0 /\ v13 = 0 /\ v14 = 0 /\ No15
No10 == v10 = 0 /\ v11 = 0 /\ No12
No9 == v9 = 0 /\ No10
No7 == v7 = 0 /\ v8 = 0 /\ No9
No3 == v3 = 0 /\ v4 = 0 /\ v5 = 0 /\ v6 = 0 /\ No7
No1 == v1 = 0 /\ v2 = 0 /\ No3

InitSystem ==
    \/ part \in FileParts /\ InitFiles /\ No1
    \/ part = "uaccess" /\ InitFiles /\ U!Init /\ No3
    \/ part = "exec" /\ InitFiles /\ E!Init /\ No12
    \/ part = "initrd" /\ InitFiles /\ R!Init /\ No9
    \/ part = "vsprintf" /\ InitFiles /\ S!Init /\ No7
    \/ part = "format" /\ InitFiles /\ N!Init /\ No7
    \/ part = "div64" /\ InitFiles /\ Q!Init /\ No10
    \/ part = "time" /\ InitFiles /\ M!Init /\ No7
    \/ part = "strings" /\ InitFiles /\ B!Init /\ No10
    \/ part = "gsh" /\ InitFiles /\ G!Init /\ No9
    \/ part = "devices" /\ InitFiles /\ D!Init
    \/ part = "traps" /\ InitFiles /\ T!Init /\ No15

On(name) == part = name /\ UNCHANGED <<part, fileParts>>

NextSystem ==
    \/ NextFiles /\ UNCHANGED <<v1, v2, from3>>
    \/ On("uaccess") /\ U!Next /\ UNCHANGED from3
    \/ On("exec") /\ E!Next /\ UNCHANGED from12
    \/ On("initrd") /\ R!Next /\ UNCHANGED from9
    \/ On("vsprintf") /\ S!Next /\ UNCHANGED from7
    \/ On("format") /\ N!Next /\ UNCHANGED from7
    \/ On("div64") /\ Q!Next /\ UNCHANGED from10
    \/ On("time") /\ M!Next /\ UNCHANGED from7
    \/ On("strings") /\ B!Next /\ UNCHANGED from10
    \/ On("gsh") /\ G!Next /\ UNCHANGED from9
    \/ On("devices") /\ D!Next
    \/ On("traps") /\ T!Next /\ UNCHANGED from15

SpecSystem == InitSystem /\ [][NextSystem]_systemVars

(* No reader is forgotten: one that sleeps is the one that the device will   *)
(* notify; on one CPU it sleeps only while there is nothing to read, and its *)
(* read() returns the number of bytes that it got; and the ring buffer never *)
(* counts more bytes than it has (read(), devfs_register_reader(),           *)
(* devfs_chardev_write()).                                                   *)
ReadersServed ==
    part = "chardev" =>
      TypeOK /\ CountBounded /\ SleeperIsKnown /\ BlockedMeansEmptyUp /\ ReadReturnsCountUp

(* The cache of entries is a part of the tree of the file system, without a  *)
(* second entry for a file, and reference counts are exact at every step,    *)
(* whatever calls are in progress: the BUG_ON() of dflc_put() is not         *)
(* reached, and no entry is freed while something refers to it or kept when  *)
(* nothing does.  A lookup is on the way to what its pathname meant when it  *)
(* started; the name that getcwd() and fork() use is that of the working     *)
(* directory; and locks are taken downwards and given back.  No handle is    *)
(* behind the end of its file (the BUG() of tmpfs_read()).                   *)
FilesSound ==
    /\ part = "vfs" =>
         /\ V!TypeOK /\ V!CacheIsTree /\ V!WalkOnTrack
         /\ V!CwdNamed /\ V!LockOrder /\ V!RefsExact
    /\ part = "tmpfs" => F!PositionInFile

(* When the kernel has looked for its devices, in whatever order the device  *)
(* tree has them and whichever of their steps failed: a cascaded interrupt   *)
(* controller was probed after its parent, and all that have a path to a     *)
(* root were; the areas of PCI BARs are disjoint, suit them and are all that *)
(* is in the bitmaps; the devices, registers, nodes of /dev and blocks of    *)
(* the heap are those of the UARTs that are there; an enabled interrupt has  *)
(* a device; names have no gaps; and the console is one that can be written  *)
(* to, and the one that was asked for.                                       *)
DevicesProbed ==
    /\ part = "irqchips" => I!ParentFirst /\ I!AllProbed
    /\ part = "pci" => P!BarsApart /\ P!AreasExact
    /\ part = "devices" =>
         D!ProbesExact /\ D!InterruptsServed /\ D!NodesNumbered /\ D!ConsoleRight

(* A copy from or to a program changes just the bytes that it reports, as    *)
(* the process sees them, and stops short only at a page that cannot be had; *)
(* a string arrives with its end, or not at all.  So the new program of an   *)
(* execve() gets what the old one passed, wherever pages end; and however    *)
(* execve() ends, it gives back the blocks that it took.                     *)
UserCopiesExact ==
    /\ part = "uaccess" => U!CopiesExact /\ U!StringsExact
    /\ part = "exec" => E!ArgsArrive /\ E!ExecFreesAll

(* Opening a file of the initial ramdisk finds the entry of that path, for   *)
(* all lengths of names and bodies before it, reads of all sizes return its  *)
(* body, and one getdents() after the other returns each entry of a          *)
(* directory once; every byte of the archive is in a frame that              *)
(* initrd_init() reserved, and the heap has the names and contexts of open   *)
(* files only.                                                               *)
ArchiveRead ==
    part = "initrd" =>
      R!OpenedRight /\ R!ListingExact /\ R!BodyRead /\ R!ArchiveReserved /\ R!ContextsExact

(* vsnprintf() takes a format apart into what it was made of, and whatever   *)
(* the size of the buffer, that has the beginning of the text that C         *)
(* describes, nothing is written behind it, and numbers read as what they    *)
(* were (except for the width -2^23, whose opposite is not in the range of   *)
(* the bit field).  do_div() divides exactly, however it does it.  A timer   *)
(* expires at the time it was set for, in whichever form that was given      *)
(* (except in the first nanosecond: ns_to_ts(0) divides -1 as if unsigned).  *)
ConversionsExact ==
    /\ part = "vsprintf" => S!BufferHasPrefix /\ S!StringInBuffer /\ S!NumbersReadBack
    /\ part = "format" => N!FormatsDecoded
    /\ part = "div64" => Q!DivisionExact
    /\ part = "time" => M!WakeTimeExact

(* memmove() moves whatever the overlap, pathname_sanitise_dir() keeps the   *)
(* components of a path, and the handlers of boot parameters get their       *)
(* arguments.  The buffer of the shell has the line that is seen, trim()     *)
(* takes only blanks at its end, and the command gets all tokens, for which  *)
(* there was room.                                                           *)
LinesParsed ==
    /\ part = "strings" => B!MovesExact /\ B!PathClean /\ B!ParamsParsed
    /\ part = "gsh" => G!LineInBuffer /\ G!TrimmedRight /\ G!TokensFit /\ G!TokensExact

(* A task runs with the registers with which it was interrupted, as far as   *)
(* the kernel did not change them for it, in its own mode, whichever other   *)
(* tasks ran in between and however many interrupts came while the CPU was   *)
(* idle, which goes on with its own stack (arch_handle_irq(), task_save(),   *)
(* task_restore(), return_from_trap).                                        *)
ContextKept == part = "traps" => T!ContextKept
=============================================================================
