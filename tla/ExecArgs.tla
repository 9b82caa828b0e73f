------------------------------ MODULE ExecArgs ------------------------------
(***************************************************************************)
(* The arguments and the environment of execve(): from the memory of the   *)
(* old program into the kernel (uenv_dup()), and to the stack of the new   *)
(* one (process_load_elf()).                                               *)
(***************************************************************************)
EXTENDS Uaccess, FiniteSetsExt, SequencesExt

CONSTANTS
  BYTES_PER_LONG,
  ARG_MAX,
  KInfo,         \* bytes of struct kinfo
  Vectors,       \* argument vectors: sequences of strings
  Places,        \* where the old program has them: [table, strings] for argv and envp
  MaxFrames      \* bound: frames that are left for the stack

AT_KINFO == 32

VARIABLES
  passed,   \* [argv, envp]: what the old program passed
  user,     \* [argv, envp]: the addresses of its tables, or 0
  old,      \* its address space
  uenv,     \* [argv, envp]: struct uenv_array
  heap,     \* blocks of the kernel heap that the call has
  new,      \* address space of the new program
  sp,       \* stack_top
  strings,  \* [argv, envp]: uargv_string, uenvp_string
  tmp,      \* where to store next
  kinfo,    \* address of struct kinfo
  pc

vars == <<passed, user, old, uenv, heap, new, sp, strings, tmp, kinfo, pc>>

Both(x) == [argv |-> x, envp |-> x]

Long(v) == [i \in 1 .. BYTES_PER_LONG |-> IF i = 1 THEN v % 256 ELSE v \div 256]
Value(bytes) == bytes[1] + 256 * bytes[2]
AlignDown(a) == a - (a % BYTES_PER_LONG)

Longs(vs) == FlattenSeq([i \in DOMAIN vs |-> Long(vs[i])])

(* uptr_from_user() *)
HasPtr(space, a) == Len(copy_from_user(space, a, BYTES_PER_LONG)) = BYTES_PER_LONG
PtrFrom(space, a) == Value(copy_from_user(space, a, BYTES_PER_LONG))

(* ustrlen() + 1, which has no limit *)
StringSize(space, a) == ustrncpy(space, a, Cardinality(Addrs)).ret

NoEnv == [string |-> <<>>, cuts |-> <<>>, elements |-> 0]

(* The address of element i of a table, and what is there *)
Slot(table, i) == table + BYTES_PER_LONG * (i - 1)
Ends(space, table, i) == ~ HasPtr(space, Slot(table, i)) \/ PtrFrom(space, Slot(table, i)) = 0
SizeOf(space, table, i) == StringSize(space, PtrFrom(space, Slot(table, i)))

(* The first loop of uenv_dup(): to the first element that is none *)
Count(space, table) ==
  LET stop == CHOOSE i \in 1 .. Cardinality(Addrs):
                /\ Ends(space, table, i) \/ SizeOf(space, table, i) < 0
                /\ \A j \in 1 .. i - 1: ~ Ends(space, table, j) /\ SizeOf(space, table, j) >= 0
  IN  [err      |-> ~ HasPtr(space, Slot(table, stop)) \/ ~ Ends(space, table, stop),
       elements |-> stop - 1,
       length   |-> MapThenSumSet(LAMBDA i: SizeOf(space, table, i), 1 .. stop - 1)]

(* The offset of string i in the copy *)
Cut(space, table, i) == MapThenSumSet(LAMBDA j: SizeOf(space, table, j), 1 .. i - 1)

(* Its second loop: the strings, one after the other *)
Copy(space, table, elements) ==
  [string   |-> FlattenSeq([i \in 1 .. elements |->
                  ustrncpy(space, PtrFrom(space, Slot(table, i)), PAGE_SIZE).to]),
   cuts     |-> [i \in 1 .. elements |-> Cut(space, table, i)],
   elements |-> elements]

Blocks(v) == {<<v, "string">>, <<v, "cuts">>}

----------------------------------------------------------------------------
(* pathname_from_user() *)
SysExecve ==
  /\ pc = "start"
  /\ heap' = {<<"pathname">>}
  /\ pc' = "argv"
  /\ UNCHANGED <<passed, user, old, uenv, new, sp, strings, tmp, kinfo>>

(* The end of _sys_execve(): from one of its labels on *)
PathnameOut(blocks) == heap' = blocks \ {<<"pathname">>}
UargvFreeOut(blocks) == PathnameOut(blocks \ Blocks("argv"))
Out(blocks) == UargvFreeOut(blocks \ Blocks("envp"))

(* Mutant: the string stays when there is no memory for the offsets. *)
NoCutsKeep(v) == heap \union {<<v, "string">>}

NoCuts(v) == heap

(* uenv_dup() *)
DupFail(v, blocks) ==
  /\ IF v = "argv" THEN PathnameOut(blocks) ELSE UargvFreeOut(blocks)
  /\ pc' = "failed"
  /\ UNCHANGED <<passed, user, old, uenv, new, sp, strings, tmp, kinfo>>

UenvDup(v, next) ==
  LET count == Count(old, user[v])
  IN  /\ pc = v
      /\ IF user[v] = 0
         THEN /\ pc' = next
              /\ UNCHANGED <<uenv, heap, passed, user, old, new, sp, strings, tmp, kinfo>>
         ELSE \/ /\ count.err \/ count.length > PAGE_SIZE
                 /\ DupFail(v, heap)
              \/ /\ ~ count.err /\ count.length <= PAGE_SIZE
                 /\ \/ DupFail(v, heap)
                    \/ DupFail(v, NoCuts(v))
                    \/ /\ uenv' = [uenv EXCEPT ![v] = Copy(old, user[v], count.elements)]
                       /\ heap' = heap \union Blocks(v)
                       /\ pc' = next
                       /\ UNCHANGED <<passed, user, old, new, sp, strings, tmp, kinfo>>

----------------------------------------------------------------------------
(* process_load_elf(): every failure ends the call and the task. *)
LoadFail ==
  /\ Out(heap)
  /\ pc' = "failed"
  /\ UNCHANGED <<passed, user, old, uenv, new, sp, strings, tmp, kinfo>>

(* USER_STACK_TOP *)
Top == PAGE_SIZE * (Max(UserPages) + 1)

Size(v) == Len(uenv[v].string) + BYTES_PER_LONG * (uenv[v].elements + 1)

(* The size is checked, and there is a lazy stack. *)
LoadStack ==
  /\ pc = "load"
  /\ \/ LoadFail
     \/ /\ Size("argv") + Size("envp") + 5 * BYTES_PER_LONG <= ARG_MAX
        /\ sp' = AlignDown(Top - Len(KInfo))
        /\ kinfo' = sp'
        /\ pc' = "kinfo"
        /\ UNCHANGED <<passed, user, old, uenv, heap, new, strings, tmp>>

(* copy_to_user() to the stack of the new program *)
Store1(a, bytes, next) ==
  LET st == copy_to_user(new, a, bytes)
  IN  /\ new' = st.space
      /\ IF st.copied = Len(bytes)
         THEN pc' = next /\ UNCHANGED heap
         ELSE pc' = "failed" /\ Out(heap)
      /\ UNCHANGED <<passed, user, old, uenv, kinfo>>

StoreKinfo ==
  /\ pc = "kinfo"
  /\ Store1(sp, KInfo, "envstrings")
  /\ UNCHANGED <<sp, strings, tmp>>

StoreStrings(v, next) ==
  /\ sp' = sp - Len(uenv[v].string)
  /\ strings' = [strings EXCEPT ![v] = sp']
  /\ Store1(sp', uenv[v].string, next)
  /\ UNCHANGED tmp

(* Mutant: the longs that end the tables are not counted. *)
ReserveShort ==
  AlignDown(sp - BYTES_PER_LONG * (uenv["envp"].elements + uenv["argv"].elements + 1 + 4))

(* Room for argc, the two tables with their ends, and struct auxv aux[2] *)
Reserve ==
  AlignDown(sp - BYTES_PER_LONG * (uenv["envp"].elements + 1 + uenv["argv"].elements + 1 + 1 + 4))

StoreArgc ==
  /\ pc = "argc"
  /\ sp' = Reserve
  /\ tmp' = sp' + BYTES_PER_LONG
  /\ Store1(sp', Long(uenv["argv"].elements), "argvtable")
  /\ UNCHANGED strings

(* fill_uenv_table() *)
FillTable(v, next) ==
  LET table == [i \in 1 .. uenv[v].elements |-> strings[v] + uenv[v].cuts[i]] \o <<0>>
  IN  /\ Store1(tmp, Longs(table), next)
      /\ tmp' = tmp + BYTES_PER_LONG * Len(table)
      /\ UNCHANGED <<sp, strings>>

StoreAux ==
  /\ pc = "aux"
  /\ Store1(tmp, Longs(<<AT_KINFO, kinfo, 0, 0>>), "loaded")
  /\ UNCHANGED <<sp, strings, tmp>>

(* The segments, which are not modelled here, and the end of _sys_execve() *)
Loaded ==
  /\ pc = "loaded"
  /\ Out(heap)
  /\ pc' = "run"
  /\ UNCHANGED <<passed, user, old, uenv, new, sp, strings, tmp, kinfo>>

----------------------------------------------------------------------------
Terminated(vector) == [i \in DOMAIN vector |-> vector[i] \o <<0>>]

(* The old program's memory, with the table and the strings of a vector *)
WithVector(space, place, vector) ==
  LET bytes == Terminated(vector)
      at[i \in 1 .. Len(vector) + 1] ==
        IF i = 1 THEN place.strings ELSE at[i - 1] + Len(bytes[i - 1])
  IN  Store(Store(space, place.strings, FlattenSeq(bytes)),
            place.table, Longs([i \in 1 .. Len(vector) + 1 |-> IF i > Len(vector) THEN 0 ELSE at[i]]))

Lazy(frames) ==
  [page |-> [p \in UserPages |-> "lazy"], mem |-> [a \in Addrs |-> 0], free |-> frames]

Init ==
  /\ passed \in [{"argv", "envp"} -> Vectors]
  /\ \E place \in Places, page \in [UserPages -> {"mapped", "lazy"}]:
       LET blank == [page |-> page, mem |-> [a \in Addrs |-> 0], free |-> 0]
           filled == WithVector(WithVector(blank, place.argv, passed.argv), place.envp, passed.envp)
       IN  /\ \A a \in Addrs: page[a \div PAGE_SIZE] = "lazy" => filled.mem[a] = 0
           /\ old = filled
           /\ user \in [argv: {0, place.argv.table}, envp: {0, place.envp.table}]
  /\ \A v \in {"argv", "envp"}: user[v] = 0 => passed[v] = <<>>
  /\ uenv = Both(NoEnv)
  /\ heap = {}
  /\ \E frames \in 0 .. MaxFrames: new = Lazy(frames)
  /\ sp = 0 /\ tmp = 0 /\ kinfo = 0
  /\ strings = Both(0)
  /\ pc = "start"

Next ==
  \/ SysExecve
  \/ UenvDup("argv", "envp")
  \/ UenvDup("envp", "load")
  \/ LoadStack \/ StoreKinfo \/ StoreArgc \/ StoreAux \/ Loaded
  \/ pc = "envstrings" /\ StoreStrings("envp", "argstrings")
  \/ pc = "argstrings" /\ StoreStrings("argv", "argc")
  \/ pc = "argvtable" /\ FillTable("argv", "envptable")
  \/ pc = "envptable" /\ FillTable("envp", "aux")

Spec == Init /\ [][Next]_vars

----------------------------------------------------------------------------
(* What the new program reads *)
Bytes(a, n) == [i \in 1 .. n |-> IF At(new, a + i - 1) = "mapped" THEN new.mem[a + i - 1] ELSE 0]
LongAt(a) == Value(Bytes(a, BYTES_PER_LONG))
StringAt(a, s) == Bytes(a, Len(s) + 1) = s \o <<0>>

(* A table at a is that of a vector, and ends. *)
TableAt(a, vector) ==
  /\ \A i \in DOMAIN vector: StringAt(LongAt(a + BYTES_PER_LONG * (i - 1)), vector[i])
  /\ LongAt(a + BYTES_PER_LONG * Len(vector)) = 0

(* The new program gets what the old one passed, wherever pages end: argc,   *)
(* the strings of both tables, and struct kinfo at the address of aux.       *)
ArgsArrive ==
  pc = "run" =>
    LET argv == sp + BYTES_PER_LONG
        envp == argv + BYTES_PER_LONG * (Len(passed.argv) + 1)
        aux == envp + BYTES_PER_LONG * (Len(passed.envp) + 1)
    IN  /\ sp % BYTES_PER_LONG = 0
        /\ LongAt(sp) = Len(passed.argv)
        /\ TableAt(argv, passed.argv)
        /\ TableAt(envp, passed.envp)
        /\ LongAt(aux) = AT_KINFO
        /\ Bytes(LongAt(aux + BYTES_PER_LONG), Len(KInfo)) = KInfo
        /\ LongAt(aux + 2 * BYTES_PER_LONG) = 0

(* However execve() ends, it gives back the blocks of the kernel heap that   *)
(* it took, and none that it does not have.                                  *)
ExecFreesAll == pc \in {"run", "failed"} => heap = {}
=============================================================================
