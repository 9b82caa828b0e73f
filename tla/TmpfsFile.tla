----------------------------- MODULE TmpfsFile -----------------------------
(***************************************************************************)
(* Reads and writes of a regular file in fs/tmpfs.c through handles that   *)
(* processes opened or inherited.  A call holds the lock of the file from  *)
(* its first to its last access, and so is one step.                       *)
(***************************************************************************)
EXTENDS Naturals, Sequences

CONSTANTS
  Handles,   \* slots for file handles
  Data,      \* bytes that programs write, none of which is "0"
  MaxCount,  \* bound: bytes per call
  MaxFile    \* memory for the file: kmalloc() gives no more

Closed == MaxFile + 1

VARIABLES
  raw,       \* content of the file
  position   \* handle -> offset, or Closed

tmpfsVars == <<raw, position>>

FileInit == raw = <<>> /\ position = [h \in Handles |-> Closed]

(* open(), the copy that fork() makes of a handle, and close() *)
FileOpen(h) ==
  /\ position[h] = Closed
  /\ position' = [position EXCEPT ![h] = 0]
  /\ UNCHANGED raw

FileDup(h, g) ==
  /\ position[h] # Closed /\ position[g] = Closed
  /\ position' = [position EXCEPT ![g] = position[h]]
  /\ UNCHANGED raw

FileClose(h) ==
  /\ position[h] # Closed
  /\ position' = [position EXCEPT ![h] = Closed]
  /\ UNCHANGED raw

(* Mutant: the position moves by what was asked for. *)
TmpfsReadAll(h, count) ==
  /\ position[h] # Closed /\ raw # <<>>
  /\ position' = [position EXCEPT ![h] = @ + count]
  /\ UNCHANGED raw

(* tmpfs_read(): the user's buffer takes some or all of the bytes. *)
TmpfsRead(h, count) ==
  LET left == Len(raw) - position[h]
  IN  /\ position[h] # Closed /\ raw # <<>>
      /\ \E copied \in 0 .. (IF count < left THEN count ELSE left):
            position' = [position EXCEPT ![h] = @ + copied]
      /\ UNCHANGED raw

(* Mutant: one byte of the old content is lost. *)
GrowShort(f, offset, count) ==
  IF offset + count <= Len(f) THEN f
  ELSE [i \in 1 .. offset + count |-> IF i < offset THEN f[i] ELSE "?"]

(* The buffer that tmpfs_write() allocates for a file that grows: what is in *)
(* front of the write is kept, the rest is not initialised (shown as the     *)
(* byte "?").                                                                *)
Grow(f, offset, count) ==
  IF offset + count <= Len(f) THEN f
  ELSE [i \in 1 .. offset + count |-> IF i <= offset THEN f[i] ELSE "?"]

(* tmpfs_write(): a buffer that cannot be read to its end is filled up with  *)
(* zeroes, and the position moves by what was copied.                        *)
TmpfsWrite(h, d, copied) ==
  LET offset == position[h]
      count == Len(d)
      buf == Grow(raw, offset, count)
  IN  /\ offset # Closed /\ offset + count <= MaxFile
      /\ raw' = [i \in DOMAIN buf |->
                   IF i <= offset \/ i > offset + count THEN buf[i]
                   ELSE IF i <= offset + copied THEN d[i - offset] ELSE "0"]
      /\ position' = [position EXCEPT ![h] = @ + copied]

FileNext ==
  \/ \E h \in Handles: FileOpen(h) \/ FileClose(h)
  \/ \E h, g \in Handles: FileDup(h, g)
  \/ \E h \in Handles, count \in 1 .. MaxCount: TmpfsRead(h, count)
  \/ \E h \in Handles, count \in 1 .. MaxCount: \E d \in [1 .. count -> Data], n \in 0 .. count:
       TmpfsWrite(h, d, n)

----------------------------------------------------------------------------
(* The BUG() of tmpfs_read() is not reached: no handle is behind the end of  *)
(* its file, whoever else writes to it.                                      *)
PositionInFile ==
  \A h \in Handles: position[h] # Closed => position[h] <= Len(raw)

File == INSTANCE ByteFile WITH file <- raw, Bytes <- Data \union {"0"}

(* A file is a sequence of bytes that writes extend and replace; no byte of  *)
(* it is ever undefined.                                                     *)
ImplementsByteFile == File!Spec
=============================================================================
