------------------------------ MODULE Chardev -------------------------------
(***************************************************************************)
(* Blocking reads from a character device: read() (fs/syscall.c), the      *)
(* character devices of fs/devfs.c with the ring buffer of lib/ringbuf.c,  *)
(* and the interrupt handler of a UART that feeds one byte at a time into  *)
(* devfs_chardev_write().                                                  *)
(*                                                                         *)
(* Interrupts are off in the kernel: as many system calls and handlers run *)
(* at a time as there are CPUs.  A step is a critical section of the lock  *)
(* of the node.  Bytes are numbered as they arrive.  The buffers of the    *)
(* readers are mapped, so that copy_to_user() copies everything.           *)
(***************************************************************************)
EXTENDS Integers, Sequences, FiniteSets

CONSTANTS Tasks,
          CpuCounts,   \* machines: how many CPUs they have
          Sizes,       \* ring buffer sizes tried (CHARDEV_RINGBUF_SIZE)
          MaxBytes,    \* bytes that arrive
          MaxCount,    \* bytes that a read() asks for
          Width,       \* bits of an unsigned int
          NULL

ASSUME ChardevAssumption ==
    /\ CpuCounts \subseteq Nat \ {0}
    /\ MaxBytes \in Nat /\ MaxCount \in Nat
    /\ NULL \notin Tasks

-----------------------------------------------------------------------------
(* struct ringbuf: positions are unsigned integers that wrap around at 2^32 *)
(* (2^Width) and not at the size of the buffer, so that a full and an empty *)
(* buffer differ.                                                           *)
Wrap == 2^Width

(* Mutant: zero passes the test for a power of two, as 0 & (0 - 1) is 0. *)
ZeroSize(n) == n \in {0} \cup {2^k: k \in 0..Width}

(* Mutant: any size but zero. *)
AnySize(n) == n # 0

(* ringbuf_init() refuses 0 and what is not a power of two. *)
ValidSize(n) == n \in {2^k: k \in 0..Width}

(* ringbuf_init(); kzalloc() clears the buffer. *)
RingbufInit(n) == [buf |-> [i \in 0..(n - 1) |-> 0], head |-> 0, tail |-> 0, size |-> n]

(* ringbuf_count() *)
Count(rb) == (rb.tail - rb.head) % Wrap

(* Mutant: nothing is given up when the buffer is full. *)
KeepHead(rb) == rb

(* The end of ringbuf_write(): head moves when a byte is lost. *)
Overrun(rb) ==
    IF Count(rb) > rb.size THEN [rb EXCEPT !.head = (@ + 1) % Wrap] ELSE rb

(* ringbuf_write() *)
RingbufWrite(rb, c) ==
    Overrun([rb EXCEPT !.buf[rb.tail % rb.size] = c, !.tail = (@ + 1) % Wrap])

(* ringbuf_read(): the bytes in one piece from head on. *)
Piece(rb) ==
    LET pos == rb.head % rb.size
        sz == IF Count(rb) < rb.size - pos THEN Count(rb) ELSE rb.size - pos
    IN  [i \in 1..sz |-> rb.buf[pos + i - 1]]

(* ringbuf_consume() *)
RingbufConsume(rb, sz) == [rb EXCEPT !.head = (@ + sz) % Wrap]

(* The bytes from head to tail, wherever they are in the buffer *)
Contents(rb) ==
    [i \in 1..((rb.tail - rb.head) % Wrap) |->
       rb.buf[((rb.head + i - 1) % Wrap) % rb.size]]

-----------------------------------------------------------------------------
VARIABLES cpus,       \* how many CPUs this machine has
          rb,         \* node->rb
          reader,     \* node->reader: the task it belongs to
          serving,    \* the task whose lock devfs_chardev_write() holds
          state,      \* task->state
          wfe,        \* task->wfe.type
          pc,         \* where the task is in read()
          req,        \* count and O_NONBLOCK of the read() in progress
          ret,        \* what read() is about to return
          regs,       \* the return value in task->regs
          got,        \* what the last read() copied to the user's buffer
          arrived,    \* bytes that arrived so far
          delivered   \* all bytes copied to users, in that order

vars == <<cpus, rb, reader, serving, state, wfe, pc, req, ret, regs, got, arrived, delivered>>

EBUSY == -16
EWOULDBLOCK == -11

Requests == [count: 0..MaxCount, nonblock: BOOLEAN]

InKernel ==
    {t \in Tasks: pc[t] \in {"read", "register", "return"}}
      \cup (IF serving = NULL THEN {} ELSE {NULL})

CpuFree == Cardinality(InKernel) < cpus

Init ==
    /\ cpus \in CpuCounts
    /\ rb \in {RingbufInit(n): n \in {n \in Sizes: ValidSize(n)}}
    /\ reader = NULL /\ serving = NULL
    /\ state = [t \in Tasks |-> "running"]
    /\ wfe = [t \in Tasks |-> "none"]
    /\ pc = [t \in Tasks |-> "user"]
    /\ req = [t \in Tasks |-> [count |-> 0, nonblock |-> FALSE]]
    /\ ret = [t \in Tasks |-> 0]
    /\ regs = [t \in Tasks |-> 0]
    /\ got = [t \in Tasks |-> << >>]
    /\ arrived = 0
    /\ delivered = << >>

-----------------------------------------------------------------------------
(* A round of the loop of devfs_chardev_read(): what is left of the ring   *)
(* buffer and of the request, and what was copied.                         *)
Round(l) ==
    LET piece == Piece(l.rb)
        cnt == IF Len(piece) < l.count THEN Len(piece) ELSE l.count
    IN  [rb |-> RingbufConsume(l.rb, cnt),
         count |-> l.count - cnt,
         copied |-> l.copied \o SubSeq(piece, 1, cnt)]

(* The loop; what is stored is in two pieces at most. *)
Rounds(l) == Round(Round(l))

CopyBytes(t) ==
    LET end == Rounds([rb |-> rb, count |-> req[t].count, copied |-> << >>])
    IN  /\ got' = [got EXCEPT ![t] = end.copied]
        /\ delivered' = delivered \o end.copied
        /\ rb' = end.rb

(* What devfs_chardev_read() returns after it. *)
BytesRead(t) ==
    IF req[t].count = 0 THEN 0
    ELSE IF got'[t] = << >> THEN EWOULDBLOCK ELSE Len(got'[t])

(* read() of a user process *)
SysRead(t, r) ==
    /\ pc[t] = "user" /\ CpuFree
    /\ pc' = [pc EXCEPT ![t] = "read"]
    /\ req' = [req EXCEPT ![t] = r]
    /\ got' = [got EXCEPT ![t] = << >>]
    /\ UNCHANGED <<rb, reader, serving, state, wfe, ret, regs, arrived, delivered>>

(* read(): fops->read(), and what is left to do when it would block *)
ChardevRead(t) ==
    /\ pc[t] = "read"
    /\ CopyBytes(t)
    /\ IF BytesRead(t) = EWOULDBLOCK /\ ~req[t].nonblock
       THEN /\ pc' = [pc EXCEPT ![t] = "register"]
            /\ UNCHANGED ret
       ELSE /\ pc' = [pc EXCEPT ![t] = "return"]
            /\ ret' = [ret EXCEPT ![t] = IF BytesRead(t) = EWOULDBLOCK THEN 0
                                         ELSE BytesRead(t)]
    /\ UNCHANGED <<reader, serving, state, wfe, req, regs, arrived>>

(* Mutant: a second reader replaces the first. *)
RegisterAnyReader(t) ==
    /\ pc[t] = "register"
    /\ reader' = t
    /\ wfe' = [wfe EXCEPT ![t] = "read"]
    /\ state' = [state EXCEPT ![t] = "wfe"]
    /\ ret' = [ret EXCEPT ![t] = 0]
    /\ pc' = [pc EXCEPT ![t] = "return"]
    /\ UNCHANGED <<rb, serving, req, regs, got, arrived, delivered>>

(* devfs_register_reader() *)
RegisterReader(t) ==
    /\ pc[t] = "register"
    /\ IF reader # NULL
       THEN /\ ret' = [ret EXCEPT ![t] = EBUSY]
            /\ UNCHANGED <<reader, wfe, state>>
       ELSE /\ reader' = t
            /\ wfe' = [wfe EXCEPT ![t] = "read"]
            /\ state' = [state EXCEPT ![t] = "wfe"]
            /\ ret' = [ret EXCEPT ![t] = 0]
    /\ pc' = [pc EXCEPT ![t] = "return"]
    /\ UNCHANGED <<rb, serving, req, regs, got, arrived, delivered>>

(* The end of syscall(), without any lock, and of the return to the user:  *)
(* a task that registered itself asked for schedule() and leaves the CPU.  *)
SyscallReturn(t) ==
    /\ pc[t] = "return"
    /\ regs' = [regs EXCEPT ![t] = ret[t]]
    /\ pc' = [pc EXCEPT ![t] = IF state[t] = "running" THEN "user" ELSE "off"]
    /\ UNCHANGED <<rb, reader, serving, state, wfe, req, ret, got, arrived, delivered>>

(* schedule() picks a task that was woken up. *)
Resume(t) ==
    /\ pc[t] = "off" /\ state[t] = "runnable"
    /\ state' = [state EXCEPT ![t] = "running"]
    /\ pc' = [pc EXCEPT ![t] = "user"]
    /\ UNCHANGED <<rb, reader, serving, wfe, req, ret, regs, got, arrived, delivered>>

-----------------------------------------------------------------------------
(* Mutant: the handler only stores the byte. *)
WriteNotifiesNobody ==
    /\ serving = NULL /\ CpuFree /\ arrived < MaxBytes
    /\ arrived' = arrived + 1
    /\ rb' = RingbufWrite(rb, arrived + 1)
    /\ UNCHANGED <<reader, serving, state, wfe, pc, req, ret, regs, got, delivered>>

(* devfs_chardev_write() up to the unlock of the node.  Only one handler   *)
(* of a device runs at a time: its interrupt stays claimed until the end.  *)
ChardevWrite ==
    /\ serving = NULL /\ CpuFree /\ arrived < MaxBytes
    /\ arrived' = arrived + 1
    /\ rb' = RingbufWrite(rb, arrived + 1)
    /\ serving' = reader
    /\ reader' = NULL
    /\ UNCHANGED <<state, wfe, pc, req, ret, regs, got, delivered>>

(* Mutant: the return value of the sleeper is left alone. *)
DeliverWithoutRetval ==
    /\ serving # NULL
    /\ CopyBytes(serving)
    /\ wfe' = [wfe EXCEPT ![serving] = "none"]
    /\ state' = [state EXCEPT ![serving] = "runnable"]
    /\ serving' = NULL
    /\ UNCHANGED <<reader, pc, req, ret, regs, arrived>>

(* The rest of devfs_chardev_write(), under the lock of the sleeping task *)
Deliver ==
    /\ serving # NULL
    /\ CopyBytes(serving)
    /\ regs' = [regs EXCEPT ![serving] = BytesRead(serving)]
    /\ wfe' = [wfe EXCEPT ![serving] = "none"]
    /\ state' = [state EXCEPT ![serving] = "runnable"]
    /\ serving' = NULL
    /\ UNCHANGED <<reader, pc, req, ret, arrived>>

Next ==
    /\ UNCHANGED cpus
    /\ \/ \E t \in Tasks, r \in Requests: SysRead(t, r)
       \/ \E t \in Tasks: \/ ChardevRead(t)
                          \/ RegisterReader(t)
                          \/ SyscallReturn(t)
                          \/ Resume(t)
       \/ ChardevWrite
       \/ Deliver

Spec == Init /\ [][Next]_vars

-----------------------------------------------------------------------------
(* Types; a read() never returns more bytes than were asked for. *)
TypeOK ==
    /\ cpus \in CpuCounts
    /\ rb.size \in Sizes \ {0}
    /\ rb \in [buf: [0..(rb.size - 1) -> 0..MaxBytes],
              head: 0..(Wrap - 1), tail: 0..(Wrap - 1), size: {rb.size}]
    /\ reader \in Tasks \cup {NULL} /\ serving \in Tasks \cup {NULL}
    /\ state \in [Tasks -> {"running", "runnable", "wfe"}]
    /\ wfe \in [Tasks -> {"none", "read"}]
    /\ pc \in [Tasks -> {"user", "read", "register", "return", "off"}]
    /\ req \in [Tasks -> Requests]
    /\ \A t \in Tasks: /\ ret[t] \in {EBUSY} \cup 0..MaxCount
                       /\ pc[t] = "return" => ret[t] <= req[t].count
                       /\ regs[t] \in {EBUSY, EWOULDBLOCK} \cup 0..MaxCount
                       /\ Len(got[t]) <= req[t].count
    /\ arrived \in 0..MaxBytes

Queue == INSTANCE ByteQueue
           WITH Bytes <- 1..MaxBytes, queue <- Contents(rb),
                capacity <- rb.size, taken <- delivered

(* Whatever CPUs the readers and the handler run on, the ring buffer is a  *)
(* queue between them: users get the bytes in the order they arrived, no   *)
(* byte twice, and none is lost unless the buffer was full, across the end *)
(* of the buffer and the wraparound of head and tail.  ringbuf_write(),    *)
(* a read() and the read on behalf of a sleeper are each one operation.    *)
ImplementsQueue == Queue!Spec

(* include/grinch/ringbuf.h: "How much bytes are currently stored in the   *)
(* buffer? Max: size".                                                     *)
CountBounded == (rb.tail - rb.head) % Wrap <= rb.size

(* A task sleeps in read() exactly while the node knows it as its reader   *)
(* or the handler is serving it: a second reader gets -EBUSY and cannot    *)
(* take the place of the first, who would sleep forever.                   *)
SleeperIsKnown ==
    \A t \in Tasks: (state[t] = "wfe") = (t \in {reader, serving} \ {NULL})
                     /\ (wfe[t] = "read") = (state[t] = "wfe")

(* A reader is blocked only while there is nothing to read: read() decides *)
(* to block and registers itself in two critical sections, and a byte that *)
(* arrives in between must not be left waiting for the next one.           *)
BlockedMeansEmpty == reader # NULL => rb.head = rb.tail

(* The same on a machine with one CPU, where interrupts are off in read(). *)
BlockedMeansEmptyUp == cpus = 1 => BlockedMeansEmpty

(* Back in user mode on one CPU, read() has returned the number of bytes   *)
(* that it copied, or -EBUSY and nothing: the handler delivers to a        *)
(* sleeper and sets its return value, which the sleeper's own way out of   *)
(* the system call does not overwrite, and a blocking read never returns   *)
(* -EWOULDBLOCK.                                                           *)
ReadReturnsCountUp ==
    cpus = 1 => \A t \in Tasks: pc[t] = "user" =>
       \/ regs[t] = Len(got[t])
       \/ regs[t] = EBUSY /\ got[t] = << >>
=============================================================================
