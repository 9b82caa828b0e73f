------------------------------- MODULE Bitmap -------------------------------
(***************************************************************************)
(* Bitmaps (lib/bitmap.c, mm/mm.c): sequences of words, each of them the   *)
(* set of its bits that are set.  Words and bits count from 0.             *)
(***************************************************************************)
EXTENDS Integers

CONSTANT BITS_PER_LONG

Bits == 0 .. BITS_PER_LONG - 1

BITS_TO_LONGS(n) == (n + BITS_PER_LONG - 1) \div BITS_PER_LONG

BITMAP_FIRST_WORD_MASK(start) == {b \in Bits: b >= start % BITS_PER_LONG}

(* Mutant: one bit too many. *)
BITMAP_LAST_WORD_MASK_Open(nbits) == {b \in Bits: b <= nbits % BITS_PER_LONG}

BITMAP_LAST_WORD_MASK(nbits) == {b \in Bits: b <= (nbits - 1) % BITS_PER_LONG}

Least(S) == CHOOSE x \in S: \A y \in S: x <= y

(* The loop of bitmap_set() and bitmap_clear(), word by word *)
Masked(word, mask, set) == IF set THEN word \union mask ELSE word \ mask

RECURSIVE ForWords(_, _, _, _, _, _, _)
ForWords(map, p, len, bits, mask, size, set) ==
  IF len >= bits
  THEN ForWords([map EXCEPT ![p] = Masked(@, mask, set)], p + 1, len - bits,
                BITS_PER_LONG, Bits, size, set)
  ELSE IF len # 0
  THEN [map EXCEPT ![p] = Masked(@, mask \intersect BITMAP_LAST_WORD_MASK(size), set)]
  ELSE map

ForBits(map, start, nbits, set) ==
  ForWords(map, start \div BITS_PER_LONG, nbits, BITS_PER_LONG - (start % BITS_PER_LONG),
           BITMAP_FIRST_WORD_MASK(start), start + nbits, set)

bitmap_set(map, start, nbits) == ForBits(map, start, nbits, TRUE)
bitmap_clear(map, start, nbits) == ForBits(map, start, nbits, FALSE)

(* _find_next_bit() *)
RECURSIVE FindInWords(_, _, _, _, _)
FindInWords(map, nbits, start, mask, invert) ==
  LET p == start \div BITS_PER_LONG
      hit == mask \intersect (IF invert THEN Bits \ map[p] ELSE map[p])
      at == p * BITS_PER_LONG + Least(hit)
  IN  IF hit # {} THEN (IF at < nbits THEN at ELSE nbits)
      ELSE IF (p + 1) * BITS_PER_LONG >= nbits THEN nbits
      ELSE FindInWords(map, nbits, (p + 1) * BITS_PER_LONG, Bits, invert)

FindNextBit(map, nbits, start, invert) ==
  IF start >= nbits THEN nbits
  ELSE FindInWords(map, nbits, start, BITMAP_FIRST_WORD_MASK(start), invert)

find_next_bit(map, size, offset) == FindNextBit(map, size, offset, FALSE)
find_next_zero_bit(map, size, offset) == FindNextBit(map, size, offset, TRUE)

AlignUp(n, align) == ((n + align - 1) \div align) * align

(* Mutant: the search goes on behind the next aligned position. *)
RECURSIVE bitmap_find_skips(_, _, _, _, _)
bitmap_find_skips(map, size, start, nr, align) ==
  LET index == AlignUp(find_next_zero_bit(map, size, start), align)
      i == find_next_bit(map, index + nr, index)
  IN  IF index + nr > size THEN index + nr
      ELSE IF i < index + nr THEN bitmap_find_skips(map, size, i + 2, nr, align)
      ELSE index

(* bitmap_find_next_zero_area(): behind size if there is none *)
RECURSIVE bitmap_find_next_zero_area(_, _, _, _, _)
bitmap_find_next_zero_area(map, size, start, nr, align) ==
  LET index == AlignUp(find_next_zero_bit(map, size, start), align)
      i == find_next_bit(map, index + nr, index)
  IN  IF index + nr > size THEN index + nr
      ELSE IF i < index + nr THEN bitmap_find_next_zero_area(map, size, i + 1, nr, align)
      ELSE index

ENOMEM == -1

(* mm_bitmap_find_and_allocate() up to the place; from is -1 or the place *)
FindPlace(map, bit_max, pages, from, align) ==
  LET start == bitmap_find_next_zero_area(map, bit_max, IF from = -1 THEN 0 ELSE from,
                                          pages, align)
  IN  IF (from # -1 /\ start # from) \/ start > bit_max THEN ENOMEM ELSE start

(* Reference: the bits that are set, and the first place for nr bits *)
SetBits(map) == UNION {{p * BITS_PER_LONG + b: b \in map[p]}: p \in DOMAIN map}

FirstPlace(map, size, nr, align) ==
  LET ok == {n \in 0 .. size - nr: n % align = 0 /\ (n .. n + nr - 1) \intersect SetBits(map) = {}}
  IN  IF ok = {} THEN ENOMEM ELSE Least(ok)
=============================================================================
