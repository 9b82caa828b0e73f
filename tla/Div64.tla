------------------------------- MODULE Div64 --------------------------------
(***************************************************************************)
(* do_div() of 32-bit machines: the division of a number of 64 bits by one *)
(* of 32, which riscv32 has no instruction for.  Clocks, timers and the    *)
(* printing of numbers use it.  W stands for 32.                           *)
(***************************************************************************)
EXTENDS Integers, Bitwise

CONSTANTS
  W

VARIABLES
  n,        \* uint64_t: the dividend, then the quotient
  base,     \* uint32_t
  constant, \* __builtin_constant_p(base)
  dividend, \* n at the begin
  rem,
  b, d, res, \* of __div64_32()
  pc

vars == <<n, base, constant, dividend, rem, b, d, res, pc>>

U32(x) == x % 2^W
U64(x) == x % 2^(2 * W)
High(x) == x \div 2^W
Ones == 2^(2 * W) - 1               \* ~0ULL

ilog2(x) == CHOOSE i \in 0 .. 2 * W: 2^i <= x /\ x < 2^(i + 1)
is_power_of_2(x) == \E i \in 0 .. W: x = 2^i
LowestBit(x) == CHOOSE p \in {2^i: i \in 0 .. 2 * W}: x % p = 0 /\ x % (2 * p) # 0   \* x & -x

(* m has one of the bits at which a cross product may overflow. *)
MayOverflow(m) == (m \div 2^(2 * W - 1)) % 2 = 1 \/ (m \div 2^(W - 1)) % 2 = 1

(* A sum of 64 bits that had wrapped if its upper half is below a summand's *)
Carried(sum, half) == High(sum) + (IF High(sum) < half THEN 2^W ELSE 0)

(* Mutant: the product of the upper and a lower half is added without carry. *)
xprod_64_NoCarry(m, x, bias) ==
  LET low == U32(m) * U32(x)
      first == IF ~ bias THEN High(low) ELSE Carried(U64(m + low), High(m))
      second == U64(first + U32(m) * High(x))
  IN  U64(High(U64(second + High(m) * U32(x))) + High(m) * High(x))

xprod_64(m, x, bias) ==
  LET low == U32(m) * U32(x)
      first == IF ~ bias THEN High(low)
               ELSE IF ~ MayOverflow(m) THEN High(U64(m + low))
               ELSE Carried(U64(m + low), High(m))
      second == U64(first + U32(m) * High(x))
      third == U64(second + High(m) * U32(x))
  IN  U64((IF MayOverflow(m) THEN Carried(third, High(second)) ELSE High(third))
          + High(m) * High(x))

(* The test of __div64_const32() of m, with the number x *)
Trial(m, x, p) ==
  LET t == U64(High(U32(m) * U32(x)) + U32(m) * High(x))
      r == U64(t + U32(x) * High(m))
  IN  U64(High(r) + (IF r < t THEN 2^W ELSE 0) + High(m) * High(x)) \div p

(* m / p, with as few bits as that needs *)
Reduced(m, p) ==
  LET bits == U32(2 * (2^W - 1 - (U32(2^(2 * W) - LowestBit(m)) | U32(High(m)))))
      r == IF bits = 0 THEN LowestBit(m) ELSE 2^ilog2(bits)
  IN  [m |-> m \div r, p |-> p \div r]

div64_const32(x0, b0) ==
  LET p == 2^ilog2(b0)
      up == U64((Ones \div b0) * p + (U64(((Ones % b0) + 1) * p + b0 - 1) \div b0))
      down == U64((Ones \div b0) * p + (((Ones % b0) + 1) * p) \div b0)
      highest == (Ones \div b0) * b0 - 1
      odd == b0 \div LowestBit(b0)
      less == Reduced(up, p)
  IN  IF Ones % odd = 0 THEN xprod_64(Ones \div odd, x0 \div LowestBit(b0), TRUE)
      ELSE IF Trial(up, highest, p) # highest \div b0 THEN xprod_64(down, x0, TRUE) \div p
      ELSE xprod_64(less.m, x0, FALSE) \div less.p

----------------------------------------------------------------------------
Return(quotient, remainder) ==
  /\ n' = quotient /\ rem' = remainder
  /\ pc' = "done"
  /\ UNCHANGED <<base, constant, dividend, b, d, res>>

(* do_div() *)
Shift ==
  /\ pc = "call" /\ constant /\ is_power_of_2(base)
  /\ Return(n \div base, n % base)

Reciprocal ==
  /\ pc = "call" /\ constant /\ ~ is_power_of_2(base)
  /\ LET q == div64_const32(n, base)
     IN  Return(q, U32(U32(n) + 2^(2 * W) - U32(q) * base))

Short ==
  /\ pc = "call" /\ ~ constant /\ High(n) = 0
  /\ Return(n \div base, n % base)

(* __div64_32() *)
Reduce ==
  /\ pc = "call" /\ ~ constant /\ High(n) # 0
  /\ LET high == IF High(n) >= base THEN High(n) \div base ELSE 0
     IN  res' = high * 2^W /\ rem' = n - U32(high * base) * 2^W
  /\ b' = base /\ d' = 1
  /\ pc' = "double"
  /\ UNCHANGED <<n, base, constant, dividend>>

(* (int64_t) b > 0 && b < rem *)
MayDouble == 0 < b /\ b < 2^(2 * W - 1) /\ b < rem

Double ==
  /\ pc = "double" /\ MayDouble
  /\ b' = U64(b + b) /\ d' = U64(d + d)
  /\ UNCHANGED <<n, base, constant, dividend, rem, res, pc>>

Doubled ==
  /\ pc = "double" /\ ~ MayDouble
  /\ pc' = "subtract"
  /\ UNCHANGED <<n, base, constant, dividend, rem, b, d, res>>

Subtract ==
  /\ pc = "subtract" /\ d # 0
  /\ IF rem >= b THEN rem' = rem - b /\ res' = U64(res + d) ELSE UNCHANGED <<rem, res>>
  /\ b' = b \div 2 /\ d' = d \div 2
  /\ UNCHANGED <<n, base, constant, dividend, pc>>

Subtracted ==
  /\ pc = "subtract" /\ d = 0
  /\ Return(res, U32(rem))

Init ==
  /\ base \in 1 .. 2^W - 1
  /\ n \in 0 .. Ones
  /\ constant \in BOOLEAN
  /\ dividend = n
  /\ rem = 0 /\ b = 0 /\ d = 0 /\ res = 0
  /\ pc = "call"

Next == Shift \/ Reciprocal \/ Short \/ Reduce \/ Double \/ Doubled \/ Subtract \/ Subtracted

Spec == Init /\ [][Next]_vars

----------------------------------------------------------------------------
(* do_div() returns the remainder and leaves the quotient, as its comment    *)
(* says, for all numbers that there are and however it does it; and while    *)
(* __div64_32() subtracts, what it has found and what is left are together   *)
(* the dividend.                                                             *)
DivisionExact ==
  /\ pc = "done" => n = dividend \div base /\ rem = dividend % base
  /\ pc \in {"double", "subtract"} => res * base + rem = dividend
=============================================================================
