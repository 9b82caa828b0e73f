----------------------------- MODULE UserMemory -----------------------------
(***************************************************************************)
(* System calls that copy between the kernel and a process, one after the  *)
(* other, with whatever arguments: read(), write() and /dev/zero, and the  *)
(* strings of pathnames.                                                   *)
(***************************************************************************)
EXTENDS Uaccess

CONSTANTS
  Bytes,     \* values of bytes that the kernel copies out, not 0
  MaxBytes   \* bound: bytes of a call

VARIABLES
  space,   \* the address space
  last     \* a call that has just been made: op, the space before, arguments and results

vars == <<space, last>>

Call(op, a, s, ret, got) ==
  /\ last.op = "none"
  /\ last' = [op |-> op, before |-> space, a |-> a, s |-> s, ret |-> ret, got |-> got]

SysRead(a, s) ==
  LET st == copy_to_user(space, a, s)
  IN  /\ Call("to", a, s, st.copied, <<>>)
      /\ space' = st.space

ReadZero(a, n) ==
  LET st == umemset(space, a, 0, n)
  IN  /\ Call("to", a, [i \in 1 .. n |-> 0], st.copied, <<>>)
      /\ space' = st.space

SysWrite(a, n) ==
  LET to == copy_from_user(space, a, n)
  IN  /\ Call("from", a, [i \in 1 .. n |-> 0], Len(to), to)
      /\ UNCHANGED space

SysPathname(a, count) ==
  LET st == ustrncpy(space, a, count)
  IN  /\ Call("string", a, [i \in 1 .. count |-> 0], st.ret, st.to)
      /\ UNCHANGED space

Return ==
  /\ last.op # "none"
  /\ last' = [op |-> "none"]
  /\ UNCHANGED space

(* Pages of areas that are lazy, or not; the others are not the process's.   *)
Init ==
  /\ \E page \in [UserPages -> {"mapped", "lazy", "none"}], frames \in 0 .. 2:
       space = [page |-> page, mem |-> [a \in Addrs |-> 0], free |-> frames]
  /\ last = [op |-> "none"]

Next ==
  \/ \E a \in Addrs, n \in 1 .. MaxBytes:
       \/ \E c \in Bytes: SysRead(a, [i \in 1 .. n |-> c])
       \/ ReadZero(a, n)
       \/ SysWrite(a, n)
       \/ SysPathname(a, n)
  \/ Return

Spec == Init /\ [][Next]_vars

----------------------------------------------------------------------------
None == -1

(* What the process itself would see at an address *)
View(sp, a) ==
  CASE At(sp, a) = "mapped" -> sp.mem[a]
    [] At(sp, a) = "lazy"   -> 0
    [] OTHER                -> None

(* A call changes just the bytes that it reports, as the process sees them,  *)
(* or gets just those; and it stops short only at a page that cannot be had: *)
(* none of the process, or one for which there is no frame.                  *)
CopiesExact ==
  LET a == last.a n == Len(last.s) ret == last.ret
  IN  /\ last.op = "to" =>
           /\ \A b \in Addrs: View(space, b) =
                IF b \in a .. a + ret - 1 THEN last.s[b - a + 1] ELSE View(last.before, b)
           /\ ret < n =>
                \/ At(space, a + ret) = "none"
                \/ At(space, a + ret) = "lazy" /\ space.free = 0
      /\ last.op = "from" =>
           /\ last.got = [i \in 1 .. ret |-> View(last.before, a + i - 1)]
           /\ ret < n => At(space, a + ret) = "none"

(* A string arrives with its end, or not at all: the result is the length of *)
(* what was stored, which is not more than the destination has room for; and *)
(* it is an error otherwise, because of that or of a page.                   *)
StringsExact ==
  last.op = "string" =>
    LET a == last.a n == Len(last.s) len == Len(last.got)
    IN  /\ len <= n
        /\ last.got = [i \in 1 .. len |-> View(space, a + i - 1)]
        /\ \A i \in 1 .. len: last.got[i] = 0 <=> last.ret = i
        /\ last.ret = ERANGE => len = n
        /\ last.ret = EFAULT => At(space, a + len) # "mapped"
        /\ last.ret > 0 \/ last.ret \in {ERANGE, EFAULT}
=============================================================================
