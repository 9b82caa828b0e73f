------------------------------ MODULE Vsprintf ------------------------------
(***************************************************************************)
(* vsnprintf() of the library that the kernel and programs share           *)
(* (common/src/vsprintf.c), and strtoul() (common/src/strtox.c).  A format *)
(* is the sequence of what format_decode() finds in it; characters are     *)
(* their codes.                                                            *)
(***************************************************************************)
EXTENDS Integers, Sequences

CONSTANTS
  W,          \* width of a number, for 64
  Formats,    \* sequences of specifications with their arguments
  Sizes,      \* sizes of the buffer
  Beyond      \* cells of memory that are watched after the buffer

Space == 32
Zero == 48

VARIABLES
  format,
  todo,    \* what is left of it
  size,
  out,     \* [buf, str]: the memory at the buffer, and the position in it
  text,    \* what all of the output has to be
  pc

vars == <<format, todo, size, out, text, pc>>

Rep(c, n) == [i \in 1 .. n |-> c]
AtMost(a, b) == IF a < b THEN a ELSE b

----------------------------------------------------------------------------
(* Digits, in reverse order *)

(* decpair *)
Pair(x) == <<Zero + (x % 10), Zero + (x \div 10)>>

(* (x * 0x28f5c29) >> 32, from halves of 14 and 13 bits *)
FastDiv(x) ==
  LET x1 == x \div 2^14
      x0 == x % 2^14
      c1 == 42949673 \div 2^13
      c0 == 42949673 % 2^13
      middle == 2 * x1 * c0 + x0 * c1 + (x0 * c0) \div 2^13
  IN  (x1 * c1 + middle \div 2^14) \div 2^5

(* (x * 0x147b) >> 19 *)
FastDiv4(x) == (x * 5243) \div 2^19

put_dec_trunc8(r0) ==
  LET q0 == FastDiv(r0)
      r1 == FastDiv(q0)
      q1 == FastDiv4(r1)
      end(r) == IF r < 10 THEN <<Zero + r>> ELSE Pair(r)
  IN  IF r0 < 100 THEN end(r0)
      ELSE IF q0 < 100 THEN Pair(r0 - 100 * q0) \o end(q0)
      ELSE IF r1 < 100 THEN Pair(r0 - 100 * q0) \o Pair(q0 - 100 * r1) \o end(r1)
      ELSE Pair(r0 - 100 * q0) \o Pair(q0 - 100 * r1) \o Pair(r1 - 100 * q1) \o end(q1)

put_dec_full8(r0) ==
  LET q0 == FastDiv(r0)
      r1 == FastDiv(q0)
      q1 == FastDiv4(r1)
  IN  Pair(r0 - 100 * q0) \o Pair(q0 - 100 * r1) \o Pair(r1 - 100 * q1) \o Pair(q1)

(* Numbers of W bits need at most one group of eight digits here. *)
put_dec(n) ==
  IF n >= 10^8 THEN put_dec_full8(n % 10^8) \o put_dec_trunc8(n \div 10^8)
  ELSE put_dec_trunc8(n)

Digit(d, small) == IF d < 10 THEN Zero + d ELSE (IF small THEN 97 ELSE 65) + d - 10

ByShift(num, base, small) ==
  LET digits[n \in Nat] ==
        IF n = 0 THEN <<>> ELSE <<Digit(n % base, small)>> \o digits[n \div base]
  IN  digits[num]

----------------------------------------------------------------------------
(* if (buf < end) *buf = c; ++buf, for each of the characters *)
Emit(o, s) ==
  [buf |-> [i \in DOMAIN o.buf |->
              IF i - o.str \in DOMAIN s /\ i <= size THEN s[i - o.str] ELSE o.buf[i]],
   str |-> o.str + Len(s)]

NonNeg(n) == IF n < 0 THEN 0 ELSE n

(* Mutant: a sign takes no room in the field. *)
SignWidthNone(sign, need_pfx, base, is_zero) == 0

(* What the sign and the prefix take from the width of the field *)
SignWidth(sign, need_pfx, base, is_zero) ==
  Len(sign) + (IF ~ need_pfx THEN 0 ELSE IF base = 16 THEN 2 ELSE IF is_zero THEN 0 ELSE 1)

number(o, num0, spec) ==
  LET need_pfx == "SPECIAL" \in spec.flags /\ spec.base # 10
      small == "SMALL" \in spec.flags
      left == "LEFT" \in spec.flags
      zeropad == "ZEROPAD" \in spec.flags /\ ~ left
      negative == "SIGN" \in spec.flags /\ num0 >= 2^(W - 1)
      num == IF negative THEN (2^W - num0) % 2^W ELSE num0
      sign == CASE "SIGN" \notin spec.flags -> <<>>
                [] negative -> <<45>>
                [] ~ negative /\ "PLUS" \in spec.flags -> <<43>>
                [] OTHER -> IF "SPACE" \in spec.flags THEN <<Space>> ELSE <<>>
      prefix == CASE ~ need_pfx -> <<>>
                  [] need_pfx /\ spec.base = 16 -> <<Zero, IF small THEN 120 ELSE 88>>
                  [] OTHER -> IF num0 = 0 THEN <<>> ELSE <<Zero>>
      tmp == IF num < spec.base THEN <<Digit(num, small)>>
             ELSE IF spec.base # 10 THEN ByShift(num, spec.base, small)
             ELSE put_dec(num)
      precision == IF Len(tmp) > spec.prec THEN Len(tmp) ELSE spec.prec
      pad == NonNeg(spec.width - SignWidth(sign, need_pfx, spec.base, num0 = 0) - precision)
      before == IF zeropad \/ left THEN <<>> ELSE Rep(Space, pad)
      zeroes == IF zeropad THEN Rep(Zero, pad) ELSE <<>>
      after == IF left THEN Rep(Space, pad) ELSE <<>>
  IN  Emit(o, before \o sign \o prefix \o zeroes \o Rep(Zero, precision - Len(tmp))
              \o [i \in 1 .. Len(tmp) |-> tmp[Len(tmp) + 1 - i]] \o after)

(* Mutant: the string is moved to where the buffer has its end. *)
MovedAll(len, room, spaces) == len

(* What is left of the string when it is moved *)
Moved(len, room, spaces) == AtMost(len, room - spaces)

(* move_right(), of len characters at a *)
move_right(buf, a, len, spaces) ==
  LET room == size - a
      moved == Moved(len, room, spaces)
  IN  IF a >= size THEN buf
      ELSE IF room <= spaces
      THEN [i \in DOMAIN buf |-> IF i \in a + 1 .. size THEN Space ELSE buf[i]]
      ELSE [i \in DOMAIN buf |->
              IF i \in a + 1 .. a + spaces THEN Space
              ELSE IF i \in a + spaces + 1 .. a + spaces + moved THEN buf[i - spaces]
              ELSE buf[i]]

widen_string(o, n, spec) ==
  LET spaces == spec.width - n
  IN  IF n >= spec.width THEN o
      ELSE IF "LEFT" \in spec.flags THEN Emit(o, Rep(Space, spaces))
      ELSE [buf |-> move_right(o.buf, o.str - n, n, spaces), str |-> o.str + spaces]

(* string_nocheck(), for a precision of -1 the whole string *)
string_nocheck(o, s, spec) ==
  LET len == IF spec.prec = -1 THEN Len(s) ELSE AtMost(spec.prec, Len(s))
  IN  widen_string(Emit(o, SubSeq(s, 1, len)), len, spec)

NullText == <<40, 110, 117, 108, 108, 41>>
string(o, s, spec) == string_nocheck(o, IF spec.null THEN NullText ELSE s, spec)

pointer_string(o, ptr, spec) ==
  number(o, ptr, [spec EXCEPT !.base = 16,
                              !.flags = @ \union {"SMALL"} \union
                                        IF spec.width = -1 THEN {"ZEROPAD"} ELSE {},
                              !.width = IF @ = -1 THEN W \div 4 ELSE @])

Char(o, c, spec) ==
  LET spaces == Rep(Space, NonNeg(spec.width - 1))
  IN  Emit(o, IF "LEFT" \in spec.flags THEN <<c>> \o spaces ELSE spaces \o <<c>>)

(* va_arg() of an integer type of that many bits, as W bits *)
Arg(spec) ==
  LET low == spec.arg % 2^spec.bits
  IN  IF "SIGN" \in spec.flags /\ low >= 2^(spec.bits - 1)
      THEN 2^W - 2^spec.bits + low ELSE low

(* The part of format_decode() and set_field_width() for a width of "*" *)
Decode(spec) ==
  IF spec.star /\ spec.width < 0
  THEN [spec EXCEPT !.width = - @, !.flags = @ \union {"LEFT"}]
  ELSE spec

----------------------------------------------------------------------------
(* What C says of a specification *)
PosDigits(n, base, small) ==
  LET k == CHOOSE j \in 1 .. W: n \div base^(j - 1) < base /\ (j = 1 \/ n >= base^(j - 1))
  IN  [i \in 1 .. k |-> Digit((n \div base^(k - i)) % base, small)]

IntText(value, spec) ==
  LET size0 == IF value < 0 THEN -value ELSE value
      digits == PosDigits(size0, spec.base, "SMALL" \in spec.flags)
      body == Rep(Zero, NonNeg(spec.prec - Len(digits))) \o digits
      sign == IF value < 0 THEN <<45>>
              ELSE IF "SIGN" \notin spec.flags THEN <<>>
              ELSE IF "PLUS" \in spec.flags THEN <<43>>
              ELSE IF "SPACE" \in spec.flags THEN <<Space>> ELSE <<>>
      prefix == IF "SPECIAL" \notin spec.flags THEN <<>>
                ELSE IF spec.base = 16 THEN <<Zero, IF "SMALL" \in spec.flags THEN 120 ELSE 88>>
                ELSE IF spec.base = 8 /\ value # 0 THEN <<Zero>> ELSE <<>>
      pad == NonNeg(spec.width - Len(sign \o prefix \o body))
  IN  IF "LEFT" \in spec.flags THEN sign \o prefix \o body \o Rep(Space, pad)
      ELSE IF "ZEROPAD" \in spec.flags THEN sign \o prefix \o Rep(Zero, pad) \o body
      ELSE Rep(Space, pad) \o sign \o prefix \o body

Padded(s, spec) ==
  LET pad == Rep(Space, NonNeg(spec.width - Len(s)))
  IN  IF "LEFT" \in spec.flags THEN s \o pad ELSE pad \o s

SignedArg(spec) ==
  LET low == spec.arg % 2^spec.bits
  IN  IF "SIGN" \in spec.flags /\ low >= 2^(spec.bits - 1) THEN low - 2^spec.bits ELSE low

Expected(spec) ==
  CASE spec.kind = "text" -> spec.arg
    [] spec.kind = "char" -> Padded(<<spec.arg>>, spec)
    [] spec.kind = "str" ->
         LET s == IF spec.null THEN NullText ELSE spec.arg
         IN  Padded(IF spec.prec = -1 THEN s ELSE SubSeq(s, 1, AtMost(spec.prec, Len(s))), spec)
    [] spec.kind = "ptr" -> LET d == PosDigits(spec.arg, 16, TRUE)
                            IN  IF spec.width = -1 THEN Rep(Zero, NonNeg(W \div 4 - Len(d))) \o d
                                ELSE Padded(d, spec)
    [] spec.kind = "num" -> IntText(SignedArg(spec), spec)

----------------------------------------------------------------------------
(* A round of the loop of vsnprintf() *)
Convert ==
  LET spec == Decode(Head(todo))
  IN  /\ pc = "loop" /\ todo # <<>>
      /\ out' = CASE spec.kind = "text" -> Emit(out, spec.arg)
                  [] spec.kind = "char" -> Char(out, spec.arg, spec)
                  [] spec.kind = "str" -> string(out, spec.arg, spec)
                  [] spec.kind = "ptr" -> pointer_string(out, spec.arg, spec)
                  [] spec.kind = "num" -> number(out, Arg(spec), spec)
      /\ text' = text \o Expected(spec)
      /\ todo' = Tail(todo)
      /\ UNCHANGED <<format, size, pc>>

Terminate(o) ==
  IF size = 0 THEN o.buf
  ELSE IF o.str < size THEN [o.buf EXCEPT ![o.str + 1] = 0]
  ELSE [o.buf EXCEPT ![size] = 0]

Finish ==
  /\ pc = "loop" /\ todo = <<>>
  /\ out' = [out EXCEPT !.buf = Terminate(out)]
  /\ pc' = "done"
  /\ UNCHANGED <<format, todo, size, text>>

Old == -1

Init ==
  /\ format \in Formats /\ size \in Sizes
  /\ todo = format
  /\ out = [buf |-> [i \in 1 .. size + Beyond |-> Old], str |-> 0]
  /\ text = <<>>
  /\ pc = "loop"

Next == Convert \/ Finish

Spec == Init /\ [][Next]_vars

----------------------------------------------------------------------------
(* strtoul() *)
IsDigit(c, base) ==
  \/ c \in Zero .. Zero + 9 /\ c - Zero < base
  \/ base = 16 /\ (c \in 65 .. 70 \/ c \in 97 .. 102)
DigitValue(c) == IF c <= Zero + 9 THEN c - Zero ELSE IF c >= 97 THEN c - 97 + 10 ELSE c - 65 + 10

(* Mutant: the prefix is taken for one of an octal number. *)
FixupOctal(s, base) ==
  IF base = 0 THEN [base |-> IF s[1] = Zero THEN 8 ELSE 10, s |-> s] ELSE [base |-> base, s |-> s]

(* _parse_integer_fixup_radix() *)
FixupRadix(s, base) ==
  LET hex == Len(s) > 2 /\ s[1] = Zero /\ s[2] \in {88, 120}
      radix == IF base # 0 THEN base
               ELSE IF s[1] # Zero THEN 10
               ELSE IF hex /\ IsDigit(s[3], 16) THEN 16 ELSE 8
  IN  [base |-> radix, s |-> IF radix = 16 /\ hex THEN SubSeq(s, 3, Len(s)) ELSE s]

strtoul(s, base0) ==
  LET fixed == FixupRadix(s, base0)
      parse[i \in 0 .. Len(fixed.s)] ==
        IF i = 0 THEN [value |-> 0, more |-> TRUE]
        ELSE LET before == parse[i - 1]
                 c == fixed.s[i]
             IN  IF before.more /\ IsDigit(c, fixed.base)
                 THEN [before EXCEPT !.value = @ * fixed.base + DigitValue(c)]
                 ELSE [before EXCEPT !.more = FALSE]
  IN  parse[Len(fixed.s)].value

----------------------------------------------------------------------------
(* Whatever the size of the buffer, it has the beginning of the text that C  *)
(* describes, and the position, which is returned, is the length of all of   *)
(* the text: padding, and a string that is moved within the buffer, included.*)
BufferHasPrefix ==
  /\ out.str = Len(text)
  /\ \A i \in DOMAIN text:
       i <= size => out.buf[i] = text[i] \/ (pc = "done" /\ i = size)

(* Nothing is written after the end of the buffer, and it holds a string     *)
(* when vsnprintf() returns.                                                 *)
StringInBuffer ==
  /\ \A i \in size + 1 .. size + Beyond: out.buf[i] = Old
  /\ pc = "done" /\ size > 0 =>
       LET end == IF Len(text) < size THEN Len(text) + 1 ELSE size
       IN  out.buf[end] = 0 /\ \A i \in 1 .. end - 1: out.buf[i] = text[i]

(* A number that is printed without padding reads as the same number: in its *)
(* own base, and in the base that the prefix tells.                          *)
NumbersReadBack ==
  LET spec == format[1]
      printed == SubSeq(out.buf, 1, out.str)
  IN  /\ pc = "done" /\ Len(format) = 1 /\ out.str < size
      /\ spec.kind = "num" /\ spec.width = -1 /\ "SIGN" \notin spec.flags
      => /\ strtoul(printed, spec.base) = Arg(spec)
         /\ spec.prec = -1 /\ (spec.base = 10 \/ "SPECIAL" \in spec.flags) =>
              strtoul(printed, 0) = Arg(spec)
=============================================================================
