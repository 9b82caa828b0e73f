---------------------------- MODULE FormatDecode ----------------------------
(***************************************************************************)
(* How vsnprintf() reads its format: format_decode() returns early when a  *)
(* width or a precision is an argument, and goes on where it was when it   *)
(* is called again.  A format is a sequence of characters.                 *)
(***************************************************************************)
EXTENDS Integers, SequencesExt

CONSTANTS
  Formats    \* sequences of parts: texts, and conversions with their arguments for "*"

VARIABLES
  parts,     \* of which the format was made
  fmt,       \* what is left of it
  args,      \* arguments for "*"
  spec,      \* struct printf_spec, which is kept from one call to the next
  seen,      \* what vsnprintf() has converted
  done

vars == <<parts, fmt, args, spec, seen, done>>

Digits == <<"0", "1", "2", "3", "4", "5", "6", "7", "8", "9">>
FlagOf == [c \in {"-", "+", " ", "#", "0"} |->
             CASE c = "-" -> "LEFT" [] c = "+" -> "PLUS" [] c = " " -> "SPACE"
               [] c = "#" -> "SPECIAL" [] c = "0" -> "ZEROPAD"]
Alnum == ToSet(Digits) \cup {"a", "x", "e"}    \* of the characters that there are
NoSpec == [type |-> "NONE", flags |-> {}, width |-> 0, prec |-> 0, base |-> 0]

(* *fmt, and the first characters that are in a set *)
Peek(s) == IF s = <<>> THEN "NUL" ELSE Head(s)
Span(s, set) == LET n == SelectInSeq(s, LAMBDA c: c \notin set) IN IF n = 0 THEN Len(s) ELSE n - 1
Drop(s, n) == SubSeq(s, n + 1, Len(s))

skip_atoi(s) ==
  LET value[i \in 0 .. Span(s, ToSet(Digits))] ==
        IF i = 0 THEN 0 ELSE 10 * value[i - 1] + SelectInSeq(Digits, LAMBDA c: c = s[i]) - 1
  IN  value[Span(s, ToSet(Digits))]

(* A signed bit field, and clamp() *)
Field(n, bits) == ((n + 2^(bits - 1)) % 2^bits) - 2^(bits - 1)
Clamp(n, low, high) == IF n < low THEN low ELSE IF n > high THEN high ELSE n

FIELD_WIDTH_MAX == 2^23 - 1
PRECISION_MAX == 2^15 - 1

set_field_width(sp, width) ==
  [sp EXCEPT !.width = IF Field(width, 24) = width THEN width
                       ELSE Clamp(width, -FIELD_WIDTH_MAX, FIELD_WIDTH_MAX)]
set_precision(sp, prec) ==
  [sp EXCEPT !.prec = IF Field(prec, 16) = prec THEN prec ELSE Clamp(prec, 0, PRECISION_MAX)]

----------------------------------------------------------------------------
Result(s, sp) == [fmt |-> s, spec |-> sp]

(* The integer type for a qualifier *)
Integer(qualifier, signed) ==
  CASE qualifier = <<"l", "l">> -> "LONG_LONG"
    [] qualifier = <<"l">> -> IF signed THEN "LONG" ELSE "ULONG"
    [] qualifier = <<"z">> -> "SIZE_T"
    [] qualifier = <<"t">> -> "PTRDIFF"
    [] qualifier = <<"h", "h">> -> IF signed THEN "BYTE" ELSE "UBYTE"
    [] qualifier = <<"h">> -> IF signed THEN "SHORT" ELSE "USHORT"
    [] OTHER -> IF signed THEN "INT" ELSE "UINT"

(* From the label qualifier on *)
Qualifier(s0, sp) ==
  LET q == Peek(s0)
      length == IF q \notin {"h", "l", "z", "t"} THEN 0
                ELSE IF q \in {"l", "h"} /\ Peek(Tail(s0)) = q THEN 2 ELSE 1
      s == Drop(s0, length)
      c == Peek(s)
      base == CASE c = "o" -> 8 [] c \in {"x", "X"} -> 16 [] OTHER -> 10
      flags == sp.flags \cup (IF c = "x" THEN {"SMALL"} ELSE {})
                        \cup (IF c \in {"d", "i"} THEN {"SIGN"} ELSE {})
      type == CASE c = "c" -> "CHAR" [] c = "s" -> "STR" [] c = "p" -> "PTR" [] c = "%" -> "PERCENT"
                [] c \in {"o", "x", "X", "d", "i", "u"} ->
                     Integer(SubSeq(s0, 1, length), "SIGN" \in flags)
                [] OTHER -> "INVALID"
  IN  Result(IF type = "INVALID" THEN s ELSE Tail(s),
             [sp EXCEPT !.type = type, !.flags = flags, !.base = base])

(* From the label precision on *)
Precision(s0, sp0) ==
  LET s == Tail(s0)
      sp == [sp0 EXCEPT !.prec = -1]
  IN  IF Peek(s0) # "." THEN Qualifier(s0, sp)
      ELSE IF Peek(s) \in ToSet(Digits)
      THEN Qualifier(Drop(s, Span(s, ToSet(Digits))), [sp EXCEPT !.prec = Clamp(Field(skip_atoi(s), 16), 0, 2^15)])
      ELSE IF Peek(s) = "*" THEN Result(Tail(s), [sp EXCEPT !.type = "PRECISION"])
      ELSE Qualifier(s, sp)

(* Flags and width of a conversion, after its "%" *)
Flags(s0, sp0) ==
  LET n == Span(s0, DOMAIN FlagOf)
      s == Drop(s0, n)
      sp == [sp0 EXCEPT !.flags = {FlagOf[s0[i]]: i \in 1 .. n}, !.width = -1]
  IN  IF Peek(s) \in ToSet(Digits)
      THEN Precision(Drop(s, Span(s, ToSet(Digits))), [sp EXCEPT !.width = Field(skip_atoi(s), 24)])
      ELSE IF Peek(s) = "*" THEN Result(Tail(s), [sp EXCEPT !.type = "WIDTH"])
      ELSE Precision(s, sp)

WidthKept(s, sp) ==
  Precision(s, [sp EXCEPT !.type = "NONE",
                          !.width = IF @ < 0 THEN Field(- @, 24) ELSE @,
                          !.flags = IF sp.width < 0 THEN @ \cup {"LEFT"} ELSE @])
PrecisionKept(sp) == [sp EXCEPT !.type = "NONE", !.prec = IF @ < 0 THEN 0 ELSE @]

(* Mutant: after a precision that was an argument, it is looked for again. *)
ResumeAtPrecision(s, sp) ==
  IF sp.type = "WIDTH" THEN WidthKept(s, sp) ELSE Precision(s, PrecisionKept(sp))

(* When the last call finished early *)
Resume(s, sp) ==
  IF sp.type = "WIDTH" THEN WidthKept(s, sp) ELSE Qualifier(s, PrecisionKept(sp))

format_decode(s, sp) ==
  LET text == Span(s, {c \in ToSet(s): c # "%"})
  IN  IF sp.type \in {"WIDTH", "PRECISION"} THEN Resume(s, sp)
      ELSE IF text > 0 THEN Result(Drop(s, text), [sp EXCEPT !.type = "NONE"])
      ELSE Flags(Tail(s), [sp EXCEPT !.type = "NONE"])

----------------------------------------------------------------------------
(* Rounds of the loop of vsnprintf() *)
Call == format_decode(fmt, spec)
Round(types) == ~ done /\ fmt # <<>> /\ Call.spec.type \in types /\ UNCHANGED parts

Text ==
  /\ Round({"NONE"})
  /\ fmt' = Call.fmt /\ spec' = Call.spec
  /\ seen' = Append(seen, [text |-> SubSeq(fmt, 1, Len(fmt) - Len(Call.fmt))])
  /\ UNCHANGED <<args, done>>

(* set_field_width() and set_precision() with the next argument *)
Star ==
  /\ Round({"WIDTH", "PRECISION"})
  /\ fmt' = Call.fmt
  /\ spec' = IF Call.spec.type = "WIDTH" THEN set_field_width(Call.spec, Head(args))
             ELSE set_precision(Call.spec, Head(args))
  /\ args' = Tail(args)
  /\ UNCHANGED <<seen, done>>

(* After a pointer, letters and digits are taken for its format. *)
Pointer ==
  /\ Round({"PTR"})
  /\ fmt' = Drop(Call.fmt, Span(Call.fmt, Alnum)) /\ spec' = Call.spec
  /\ seen' = Append(seen, Call.spec)
  /\ UNCHANGED <<args, done>>

Convert ==
  /\ Round({"CHAR", "STR", "PERCENT", "LONG_LONG", "LONG", "ULONG", "SIZE_T", "PTRDIFF",
            "BYTE", "UBYTE", "SHORT", "USHORT", "INT", "UINT"})
  /\ fmt' = Call.fmt /\ spec' = Call.spec
  /\ seen' = Append(seen, Call.spec)
  /\ UNCHANGED <<args, done>>

Invalid ==
  /\ Round({"INVALID"})
  /\ fmt' = Call.fmt /\ spec' = Call.spec
  /\ done' = TRUE
  /\ UNCHANGED <<args, seen>>

End ==
  /\ ~ done /\ fmt = <<>>
  /\ done' = TRUE
  /\ UNCHANGED <<parts, fmt, args, spec, seen>>

(* The characters of a part, and its arguments *)
IsText(part) == "text" \in DOMAIN part
Chars(part) ==
  IF IsText(part) THEN part.text
  ELSE <<"%">> \o part.flags \o part.width \o (IF part.prec = <<>> THEN <<>> ELSE <<".">> \o part.prec)
         \o part.qualifier \o <<part.conv>>
Args(part) == IF IsText(part) THEN <<>> ELSE part.args

Init ==
  /\ parts \in Formats
  /\ fmt = FlattenSeq([i \in DOMAIN parts |-> Chars(parts[i])])
  /\ args = FlattenSeq([i \in DOMAIN parts |-> Args(parts[i])])
  /\ spec = NoSpec
  /\ seen = <<>>
  /\ done = FALSE

Next == Text \/ Star \/ Pointer \/ Convert \/ Invalid \/ End

Spec == Init /\ [][Next]_vars

----------------------------------------------------------------------------
Star1 == <<"*">>
Abs(n) == IF n < 0 THEN - n ELSE n

(* What C says of a conversion, except that a negative precision is 0 *)
Meaning(part) ==
  LET width == IF part.width = <<>> THEN -1
               ELSE IF part.width = Star1 THEN part.args[1] ELSE skip_atoi(part.width)
      prec == IF part.prec = <<>> THEN -1
              ELSE IF part.prec = Star1 THEN Clamp(Last(part.args), 0, PRECISION_MAX)
              ELSE skip_atoi(part.prec)
      signed == part.conv \in {"d", "i"}
  IN  [type  |-> CASE part.conv = "c" -> "CHAR" [] part.conv = "s" -> "STR"
                   [] part.conv = "p" -> "PTR" [] part.conv = "%" -> "PERCENT"
                   [] OTHER -> Integer(part.qualifier, signed),
       flags |-> {FlagOf[part.flags[i]]: i \in DOMAIN part.flags}
                   \cup (IF part.width = Star1 /\ width < 0 THEN {"LEFT"} ELSE {})
                   \cup (IF signed THEN {"SIGN"} ELSE {})
                   \cup (IF part.conv = "x" THEN {"SMALL"} ELSE {}),
       width |-> IF part.width = Star1 THEN Clamp(Abs(width), 0, FIELD_WIDTH_MAX) ELSE width,
       prec  |-> prec,
       base  |-> CASE part.conv = "o" -> 8 [] part.conv \in {"x", "X"} -> 16 [] OTHER -> 10]

(* Text that comes after a pointer loses the letters and digits at its begin. *)
TextAt(i) ==
  LET text == parts[i].text
      after == i > 1 /\ ~ IsText(parts[i - 1]) /\ parts[i - 1].conv = "p"
  IN  IF after THEN Drop(text, Span(text, Alnum)) ELSE text

Valid ==
  LET bad == SelectInSeq(parts, LAMBDA p: ~ IsText(p) /\ p.conv = "n")
  IN  IF bad = 0 THEN Len(parts) ELSE bad - 1

Intended ==
  FlattenSeq([i \in 1 .. Valid |->
    IF ~ IsText(parts[i]) THEN <<Meaning(parts[i])>>
    ELSE IF TextAt(i) = <<>> THEN <<>> ELSE <<[text |-> TextAt(i)]>>])

(* vsnprintf() makes of a format the texts and conversions that it was made  *)
(* of, each with its own flags, width and precision, and with its own        *)
(* arguments for these, up to the first that is not valid; except for the     *)
(* width -2^23, whose opposite is not in the range of the bit field.         *)
FormatsDecoded ==
  (\A i \in DOMAIN parts: -2^23 \notin ToSet(Args(parts[i]))) =>
  /\ IsPrefix(seen, Intended)
  /\ done => seen = Intended
  /\ done /\ Valid = Len(parts) => args = <<>>
=============================================================================
