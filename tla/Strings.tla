------------------------------ MODULE Strings -------------------------------
(***************************************************************************)
(* Functions that work within one buffer: memmove() (common/src/string.c), *)
(* pathname_sanitise_dir(), through which every path of a system call goes *)
(* (fs/util.c), and bootparam_init(), which takes the kernel's command     *)
(* line apart with strsep() (kernel/bootparam.c).                          *)
(***************************************************************************)
EXTENDS Integers, SequencesExt

CONSTANTS
  Buffers,  \* for memmove()
  Paths,    \* strings of characters
  Lines,    \* command lines, shorter than the buffer for them
  Params    \* names that have a handler

NUL == "NUL"
NoArg == <<NUL>>    \* a null pointer

VARIABLES
  given,    \* the buffer before
  buf,
  dst, pos, \* positions; of memmove() a and b
  count,    \* of bytes to move
  down,     \* memmove() goes from the end
  must_dir,
  calls,    \* of handlers, or the one of memmove()
  pc

vars == <<given, buf, dst, pos, count, down, must_dir, calls, pc>>

StrAt(s, i) == LET n == SelectInSubSeq(s, i, Len(s), LAMBDA c: c = NUL) IN SubSeq(s, i, n - 1)

----------------------------------------------------------------------------
(* Mutant: memcpy() *)
MoveUp(a, b, n) == [a |-> a, b |-> b, down |-> FALSE]

(* Where memmove() begins, and in which direction *)
MoveFrom(a, b, n) ==
  IF b > a THEN [a |-> a, b |-> b, down |-> FALSE]
  ELSE [a |-> a + n - 1, b |-> b + n - 1, down |-> TRUE]

Move(a, b, n) ==
  /\ pc = "move"
  /\ a + n - 1 <= Len(buf) /\ b + n - 1 <= Len(buf)
  /\ dst' = MoveFrom(a, b, n).a /\ pos' = MoveFrom(a, b, n).b /\ down' = MoveFrom(a, b, n).down
  /\ count' = IF a = b THEN 0 ELSE n
  /\ calls' = << [a |-> a, b |-> b, n |-> n] >>
  /\ pc' = "moving"
  /\ UNCHANGED <<given, buf, must_dir>>

MoveByte ==
  /\ pc = "moving" /\ count > 0
  /\ buf' = [buf EXCEPT ![dst] = buf[pos]]
  /\ count' = count - 1
  /\ dst' = (IF down THEN dst - 1 ELSE dst + 1) /\ pos' = (IF down THEN pos - 1 ELSE pos + 1)
  /\ UNCHANGED <<given, down, must_dir, calls, pc>>

Moved ==
  /\ pc = "moving" /\ count = 0
  /\ pc' = "moved"
  /\ UNCHANGED <<given, buf, dst, pos, count, down, must_dir, calls>>

----------------------------------------------------------------------------
(* Mutant: one "/" only. *)
SkipOne(p) == IF buf[p] = "/" THEN p + 1 ELSE p

(* The inner loop: over all that follow *)
SkipSlashes(p) == SelectInSubSeq(buf, p, Len(buf), LAMBDA c: c # "/")

(* A round of the loop of pathname_sanitise_dir() *)
SanitiseChar ==
  LET slash == buf[pos] = "/"
      next == IF slash THEN SkipSlashes(pos + 1) ELSE pos + 1
  IN  /\ pc = "path" /\ buf[1] # NUL
      /\ must_dir' = slash
      /\ dst' = dst + 1 /\ pos' = next
      /\ IF buf[next] = NUL
         THEN buf' = [buf EXCEPT ![dst] = buf[pos], ![dst + 1] = NUL] /\ pc' = "end"
         ELSE buf' = [buf EXCEPT ![dst] = buf[pos]] /\ UNCHANGED pc
      /\ UNCHANGED <<given, count, down, calls>>

SanitiseEmpty ==
  /\ pc = "path" /\ buf[1] = NUL
  /\ pc' = "invalid"
  /\ UNCHANGED <<given, buf, dst, pos, count, down, must_dir, calls>>

SanitiseEnd ==
  LET cut == IF must_dir THEN [buf EXCEPT ![dst - 1] = NUL] ELSE buf
  IN  /\ pc = "end"
      /\ buf' = IF cut[1] = NUL THEN [cut EXCEPT ![1] = "/", ![2] = NUL] ELSE cut
      /\ pc' = "clean"
      /\ UNCHANGED <<given, dst, pos, count, down, must_dir, calls>>

----------------------------------------------------------------------------
(* strsep() of the string at s for the character c: where its first part     *)
(* ends in the buffer, and where the rest begins (0: no rest)                *)
Strsep(s, c) ==
  LET e == SelectInSubSeq(buf, s, Len(buf), LAMBDA x: x \in {c, NUL})
  IN  [end |-> e, rest |-> IF buf[e] = c THEN e + 1 ELSE 0]

(* Mutant: what is left after the name. *)
ArgRest(token) ==
  LET e == SelectInSeq(token, LAMBDA x: x = "=") IN IF e = 0 THEN NoArg ELSE SubSeq(token, e + 1, Len(token))

(* The two strsep() of parse_param() *)
Name(token) ==
  LET e == SelectInSeq(token, LAMBDA x: x = "=") IN IF e = 0 THEN token ELSE SubSeq(token, 1, e - 1)
Arg(token) ==
  LET e == SelectInSeq(token, LAMBDA x: x = "=")
  IN  IF e = 0 THEN NoArg ELSE Name(SubSeq(token, e + 1, Len(token)))

(* A round of the loop of bootparam_init() *)
BootToken ==
  LET sep == Strsep(pos, " ")
      token == SubSeq(buf, pos, sep.end - 1)
  IN  /\ pc = "line" /\ pos # 0
      /\ buf' = [buf EXCEPT ![sep.end] = NUL]
      /\ pos' = sep.rest
      /\ calls' = IF token # <<>> /\ Name(token) \in Params
                  THEN Append(calls, <<Name(token), Arg(token)>>) ELSE calls
      /\ UNCHANGED <<given, dst, count, down, must_dir, pc>>

BootDone ==
  /\ pc = "line" /\ pos = 0
  /\ pc' = "booted"
  /\ UNCHANGED <<given, buf, dst, pos, count, down, must_dir, calls>>

----------------------------------------------------------------------------
Init ==
  /\ \/ pc = "move" /\ given \in Buffers
     \/ pc = "path" /\ given \in {Append(p, NUL): p \in Paths}
     \/ pc = "line" /\ given \in {Append(s, NUL): s \in Lines}
  /\ buf = given
  /\ dst = 1 /\ pos = 1 /\ count = 0 /\ down = FALSE
  /\ must_dir = FALSE
  /\ calls = <<>>

Next ==
  \/ \E a, b \in 1 .. Len(buf), n \in 0 .. Len(buf): Move(a, b, n)
  \/ MoveByte
  \/ Moved
  \/ SanitiseChar
  \/ SanitiseEmpty
  \/ SanitiseEnd
  \/ BootToken
  \/ BootDone

Spec == Init /\ [][Next]_vars

----------------------------------------------------------------------------
(* memmove() leaves in the destination what was in the source, however the   *)
(* two overlap, and all other bytes as they were.                            *)
MovesExact ==
  pc = "moved" =>
    LET m == calls[1]
    IN  \A i \in DOMAIN buf:
          buf[i] = IF i \in m.a .. m.a + m.n - 1 THEN given[i - m.a + m.b] ELSE given[i]

(* The parts of a string between the separators, and those that are not empty *)
Parts(s, c) ==
  LET cuts == <<0>> \o SetToSortSeq({i \in DOMAIN s: s[i] = c}, LAMBDA i, j: i < j) \o <<Len(s) + 1>>
  IN  [i \in 1 .. Len(cuts) - 1 |-> SubSeq(s, cuts[i] + 1, cuts[i + 1] - 1)]
Words(s, c) == SelectSeq(Parts(s, c), LAMBDA w: w # <<>>)

(* A path leaves pathname_sanitise_dir() with the same components, with one  *)
(* "/" between two of them, at its begin if there was one, and nowhere else; *)
(* a "/" at its end is remembered.                                           *)
PathClean ==
  pc = "clean" =>
    LET path == StrAt(given, 1)
        clean == StrAt(buf, 1)
    IN  /\ Words(clean, "/") = Words(path, "/")
        /\ clean[1] = "/" <=> path[1] = "/"
        /\ clean # <<"/">> =>
             Parts(clean, "/") = (IF clean[1] = "/" THEN << <<>> >> ELSE <<>>) \o Words(path, "/")
        /\ must_dir = (Last(path) = "/")

(* The handler of each parameter on the command line is called with its      *)
(* argument, in the order in which they are there, and no other handler is.  *)
ParamsParsed ==
  pc = "booted" =>
    calls = LET words == SelectSeq(Words(StrAt(given, 1), " "), LAMBDA w: Parts(w, "=")[1] \in Params)
            IN  [i \in DOMAIN words |->
                   <<Parts(words[i], "=")[1],
                     IF Len(Parts(words[i], "=")) = 1 THEN NoArg ELSE Parts(words[i], "=")[2]>>]
=============================================================================
