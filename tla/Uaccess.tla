------------------------------ MODULE Uaccess -------------------------------
(***************************************************************************)
(* How the kernel gets at the memory of a process (kernel/uaccess.c): page *)
(* by page, by the addresses at which it has the frames itself.  A page of *)
(* a lazy area that nobody wrote to has no frame yet.                      *)
(*                                                                         *)
(* An address space is a record: page |-> what there is at a page, mem |-> *)
(* the bytes, and free |-> the number of frames that are left.             *)
(***************************************************************************)
EXTENDS Integers, Sequences

CONSTANTS
  PAGE_SIZE,
  UserPages    \* numbers of pages of the process, without 0

Addrs == UNION {PAGE_SIZE * p .. PAGE_SIZE * p + PAGE_SIZE - 1: p \in UserPages}

EFAULT == -14
ERANGE == -34

At(space, a) ==
  IF a \div PAGE_SIZE \in UserPages THEN space.page[a \div PAGE_SIZE] ELSE "none"

(* Mutant: the rest of the page is counted from its begin. *)
page_bytes_whole(a) == PAGE_SIZE

page_bytes_left(a) == PAGE_SIZE - (a % PAGE_SIZE)

AtMost(n, limit) == IF n < limit THEN n ELSE limit

Store(space, a, s) ==
  [space EXCEPT !.mem = [b \in DOMAIN @ |-> IF b \in a .. a + Len(s) - 1 THEN s[b - a + 1] ELSE @[b]]]

(* uvma_handle_fault(): a page of zeroes, if there is a frame *)
HandleFault(space, a) ==
  IF At(space, a) = "lazy" /\ space.free > 0
  THEN [page |-> [space.page EXCEPT ![a \div PAGE_SIZE] = "mapped"],
        mem  |-> [b \in DOMAIN space.mem |->
                    IF b \div PAGE_SIZE = a \div PAGE_SIZE THEN 0 ELSE space.mem[b]],
        free |-> space.free - 1]
  ELSE space

(* user_to_direct_fault(): for writing *)
ForWriting(space, a) == IF At(space, a) = "mapped" THEN space ELSE HandleFault(space, a)

(* The body of the loop of copy_to_user() and of umemset() *)
CopyPage(st, s) ==
  LET space == ForWriting(st.space, st.to)
      written == AtMost(page_bytes_left(st.to), Len(s) - st.copied)
  IN  IF st.copied = Len(s) THEN st
      ELSE IF At(space, st.to) # "mapped" THEN [st EXCEPT !.space = space]
      ELSE [space  |-> Store(space, st.to, SubSeq(s, st.copied + 1, st.copied + written)),
            to     |-> st.to + written,
            copied |-> st.copied + written]

copy_to_user(space0, d, s) ==
  LET loop[i \in 0 .. Len(s)] ==
        IF i = 0 THEN [space |-> space0, to |-> d, copied |-> 0] ELSE CopyPage(loop[i - 1], s)
  IN  loop[Len(s)]

umemset(space, dst, c, n) == copy_to_user(space, dst, [i \in 1 .. n |-> c])

(* user_to_direct_null(): for reading, a lazy page is the zero page *)
Read(space, a, n) ==
  [i \in 1 .. n |-> IF At(space, a) = "mapped" THEN space.mem[a + i - 1] ELSE 0]

FetchPage(space, st, n) ==
  LET written == AtMost(page_bytes_left(st.from), n - Len(st.to))
  IN  IF Len(st.to) = n \/ At(space, st.from) = "none" THEN st
      ELSE [from |-> st.from + written, to |-> st.to \o Read(space, st.from, written)]

copy_from_user(space, from0, n) ==
  LET loop[i \in 0 .. n] ==
        IF i = 0 THEN [from |-> from0, to |-> <<>>] ELSE FetchPage(space, loop[i - 1], n)
  IN  loop[n].to

(* The loops of ustrncpy(), which go on while there is another byte of the   *)
(* string and room for it; a lazy page is no page.  ret is the length with   *)
(* the trailing zero, or an error.                                           *)
CopyString(space, src, count) ==
  LET More(i) == At(space, src + i) = "mapped" /\ space.mem[src + i] # 0
      n == CHOOSE i \in 0 .. count: (i = count \/ ~ More(i)) /\ \A j \in 0 .. i - 1: More(j)
      bytes == [i \in 1 .. n |-> space.mem[src + i - 1]]
  IN  IF At(space, src + n) # "mapped" THEN [to |-> bytes, ret |-> EFAULT]
      ELSE IF n = count THEN [to |-> bytes, ret |-> ERANGE]
      ELSE [to |-> Append(bytes, 0), ret |-> n + 1]

(* Mutant: the end of the destination is noticed one byte late. *)
ustrncpy_late(space, src, count) == CopyString(space, src, count + 1)

ustrncpy(space, src, count) == CopyString(space, src, count)
=============================================================================
