------------------------------ MODULE Devices -------------------------------
(***************************************************************************)
(* The devices of the device tree and the nodes of /dev: drivers probe the *)
(* nodes of the tree (drivers/driver.c, drivers/serial/serial.c), any step *)
(* of which may fail, devfs has a node for each UART (fs/devfs.c), and one *)
(* of them becomes the console (kernel/console.c).  All of this is done by *)
(* one CPU that boots.                                                     *)
(***************************************************************************)
EXTENDS Integers, SequencesExt

CONSTANTS
  Trees,      \* sequences of [width, irq]: the UARTs of /soc
  IRQ_MAX,
  Consoles    \* names that the boot parameter console= has; none is NoName

IRQ_INVALID == -1
Name(base, no) == <<base, no>>
NoName == Name("", 0)
Regular(name) == [name |-> name, type |-> "regular", of |-> NoName, dev |-> 0]

VARIABLES
  tree, stdout,             \* the UARTs, and which of them stdout-path is (0: none)
  console_device, default,  \* the boot parameter, and DEFAULT_CONSOLE
  irqchip,                  \* there is an interrupt controller
  at,                       \* the next node of the tree
  devices,                  \* list of devices, the newest first
  nodes,                    \* devfs_nodes, the newest first
  heap, mapped,             \* allocated blocks, and devices whose registers are mapped
  handlers, enabled,        \* irq_handlers[], 0 for none; and enabled interrupts
  uart_no,
  boot,
  kstdout                   \* the name of the node that kstdout.fp has

vars == <<tree, stdout, console_device, default, irqchip, at, devices, nodes, heap, mapped,
          handlers, enabled, uart_no, boot, kstdout>>
given == <<tree, stdout, console_device, default, irqchip>>
probed == <<devices, heap, mapped, handlers, enabled, uart_no>>

Irqs == 0 .. (IRQ_MAX - 1)
Named(name) == {i \in DOMAIN nodes: nodes[i].name = name}

(* devfs_node_register(); it fails when there is a node of that name *)
devfs_node_register(node) ==
    nodes' = IF Named(node.name) = {} THEN <<node>> \o nodes ELSE nodes

(* devfs_find_node() *)
devfs_find_node(name) ==
  IF Named(name) = {} THEN NoName
  ELSE nodes[CHOOSE i \in Named(name): \A j \in Named(name): i <= j].name

(* Mutant: a symbolic link is not followed. *)
devfs_node_itself(name) == name

(* The node that devfs_read() and devfs_write() use: that of a symbolic link *)
devfs_node(name) ==
  LET node == nodes[CHOOSE i \in Named(name): TRUE]
  IN  IF node.type = "symlink" THEN node.of ELSE node.name

Init ==
    /\ tree \in Trees
    /\ stdout \in 0 .. Len(tree)
    /\ console_device \in Consoles
    /\ default \in {Name("null", 0), Name("ttySBI", 0)}    \* arm64, riscv
    /\ irqchip \in BOOLEAN
    /\ at = 1
    /\ devices = <<>> /\ heap = {} /\ mapped = {}
    /\ nodes = <<Regular(Name("null", 0)), Regular(Name("zero", 0))>>   \* devfs_init()
    /\ handlers = [irq \in Irqs |-> 0] /\ enabled = {}
    /\ uart_no = 0
    /\ boot = "init"
    /\ kstdout = NoName

(* The drivers' init functions, of which tty_sbi_init() makes a node *)
InitDrivers ==
    /\ boot = "init" /\ boot' = "probe"
    /\ IF default = Name("ttySBI", 0) THEN devfs_node_register(Regular(default))
       ELSE UNCHANGED nodes
    /\ UNCHANGED <<given, at, probed, kstdout>>

----------------------------------------------------------------------------
(* The steps of a probe, in the order of uart_probe_generic().  Those for    *)
(* which there may be no memory fail when they like.                         *)

Scarce == {"map", "chip", "ringbuf"}

(* Mutant: the handler is registered before the node's width is looked at. *)
StepsSwapped == <<"map", "chip", "ringbuf", "register", "width", "enable">>

ProbeSteps == <<"map", "chip", "ringbuf", "width", "register", "enable">>

(* fdt_irq_get() found none: then nothing is registered or enabled *)
HasIrq(dev) == tree[dev].irq # IRQ_INVALID

Fails(step, dev, scarce) ==
    \/ step = scarce
    \/ step = "width" /\ tree[dev].width \notin {1, 4}
    \/ step = "register" /\ HasIrq(dev) /\ tree[dev].irq >= IRQ_MAX
    \/ step = "enable" /\ HasIrq(dev) /\ ~irqchip

(* How many steps are done *)
Done(dev, scarce) ==
  CHOOSE n \in 0 .. Len(ProbeSteps):
    /\ \A i \in 1 .. n: ~Fails(ProbeSteps[i], dev, scarce)
    /\ n < Len(ProbeSteps) => Fails(ProbeSteps[n + 1], dev, scarce)

Did(step, dev, scarce) == \E i \in 1 .. Done(dev, scarce): ProbeSteps[i] = step

Blocks(dev) == {<<b, dev>>: b \in {"device", "path", "chip", "ringbuf"}}

(* kzalloc() and kstrdup() of driver_probe_node(), and those of the probe *)
Allocated(dev, scarce) ==
    {<<b, dev>>: b \in {"device", "path"} \ {scarce}}
      \cup {<<b, dev>>: b \in {s \in {"chip", "ringbuf"}: Did(s, dev, scarce)}}

(* Mutant: only the chip is freed. *)
uart_deinit_chip(dev) == {<<"chip", dev>>}

(* What uart_deinit() frees, which does nothing without a chip *)
uart_deinit(dev) == {<<"chip", dev>>, <<"ringbuf", dev>>}

(* uart_probe_generic(): interrupts, which stay as they are when it fails *)
Interrupts(dev, scarce) ==
    LET irq == tree[dev].irq
    IN  /\ handlers' = IF HasIrq(dev) /\ Did("register", dev, scarce)
                       THEN [handlers EXCEPT ![irq] = dev] ELSE handlers
        /\ enabled' = IF HasIrq(dev) /\ Did("enable", dev, scarce)
                      THEN enabled \cup {irq} ELSE enabled

(* Mutant: the number of the next UART is taken before the node's name. *)
NumberEarly(done) == uart_no + 1

(* uart_no++ comes last *)
Number(done) == IF done THEN uart_no + 1 ELSE uart_no

(* The node that uart_probe_generic() registers *)
Chardev(dev) == [name |-> Name("ttyS", uart_no), type |-> "chardev", of |-> NoName, dev |-> dev]

(* driver_probe_node() for a UART.  A failed probe is not fatal. *)
Probe(dev, scarce) ==
    LET done == Done(dev, scarce) = Len(ProbeSteps)
        all == heap \cup Allocated(dev, scarce)
    IN  /\ Interrupts(dev, scarce)
        /\ uart_no' = Number(done)
        /\ IF done
           THEN /\ devfs_node_register(Chardev(dev))
                /\ devices' = <<dev>> \o devices                        \* dev_add()
                /\ heap' = all /\ mapped' = mapped \cup {dev}
           ELSE /\ heap' = (all \ (IF Did("chip", dev, scarce) THEN uart_deinit(dev) ELSE {}))
                             \ {<<"device", dev>>, <<"path", dev>>}
                /\ UNCHANGED <<nodes, devices, mapped>>                 \* iounmap_res()

(* drivers_probe(); scarce is what there is no memory for *)
ProbeNode(scarce) ==
    /\ boot = "probe" /\ at <= Len(tree)
    /\ IF scarce = "device" THEN boot' = "failed" /\ UNCHANGED <<nodes, probed>>   \* -ENOMEM
       ELSE UNCHANGED boot /\ Probe(at, scarce)
    /\ at' = at + 1
    /\ UNCHANGED <<given, kstdout>>

----------------------------------------------------------------------------
(* dev_find_of_path(), for a device whose path there was memory for *)
dev_find_of_path(dev) == dev \in Range(devices) /\ <<"path", dev>> \in heap

NodeOf(dev) == {nodes[i].name: i \in {j \in DOMAIN nodes: nodes[j].dev = dev}}

(* What console_init() links /dev/console to *)
Source ==
  IF console_device # NoName THEN console_device
  ELSE IF dev_find_of_path(stdout) THEN CHOOSE name \in NodeOf(stdout): TRUE
  ELSE default

(* devfs_create_symlink("console", src); without a node src it fails *)
Link(src) == [name |-> Name("console", 0), type |-> "symlink", of |-> src, dev |-> 0]

console_init ==
    /\ boot = "probe" /\ at > Len(tree)
    /\ IF Named(Source) = {} THEN boot' = "failed" /\ UNCHANGED <<nodes, kstdout>>
       ELSE /\ boot' = "up"
            /\ nodes' = <<Link(Source)>> \o nodes
            /\ kstdout' = (devfs_find_node(Name("console", 0)))'
    /\ UNCHANGED <<given, at, probed>>

Next ==
    \/ InitDrivers
    \/ \E scarce \in Scarce \cup {"device", "path", "none"}: ProbeNode(scarce)
    \/ console_init

Spec == Init /\ [][Next]_vars

----------------------------------------------------------------------------
(* After each probe, whichever of its steps failed: the devices are those    *)
(* whose registers are mapped and that have a node in /dev; the heap has     *)
(* their blocks and no others (error paths of driver_probe_node() and        *)
(* uart_probe_generic()).                                                    *)
ProbesExact ==
    LET present == Range(devices)
    IN  /\ mapped = present
        /\ present = {nodes[i].dev: i \in DOMAIN nodes} \ {0}
        /\ heap \subseteq UNION {Blocks(dev): dev \in present}
        /\ \A dev \in present: Blocks(dev) \ {<<"path", dev>>} \subseteq heap

(* An interrupt that is enabled is handled by a device that is there, also   *)
(* when a second one with the same interrupt failed (irqchip_handle_irq()    *)
(* calls the handler with that device's chip).                               *)
InterruptsServed ==
    \A irq \in enabled: handlers[irq] \in Range(devices) /\ tree[handlers[irq]].irq = irq

(* The UARTs are ttyS0, ttyS1, ... in the order of the tree, without a gap   *)
(* for those that failed, and no two nodes of /dev have one name.            *)
NodesNumbered ==
    LET ttys == SelectSeq(nodes, LAMBDA n: n.type = "chardev")
    IN  /\ Len(ttys) = uart_no
        /\ \A i \in DOMAIN ttys: /\ ttys[i].name = Name("ttyS", uart_no - i)
                                 /\ ttys[i].dev = devices[i]
        /\ IsInjective([i \in DOMAIN nodes |-> nodes[i].name])

(* When the kernel is up, its console is a node of /dev that can be written  *)
(* to, and that of the device of stdout-path if it is there and no boot      *)
(* parameter asks for another (console_init(), devfs_write()).               *)
ConsoleRight ==
    boot = "up" =>
      \E i \in DOMAIN nodes:
        /\ nodes[i].name = devfs_node(kstdout) /\ nodes[i].type # "symlink"
        /\ console_device = NoName /\ dev_find_of_path(stdout) => nodes[i].dev = stdout
=============================================================================
