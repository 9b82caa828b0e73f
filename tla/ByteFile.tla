------------------------------ MODULE ByteFile ------------------------------
(***************************************************************************)
(* What a regular file promises: a write replaces the bytes of its range,  *)
(* extends the file if the range ends behind it, and changes nothing else. *)
(***************************************************************************)
EXTENDS Naturals, Sequences

CONSTANT Bytes

VARIABLE file

Overwrite(f, p, d) ==
  [i \in 1 .. (IF Len(f) > p + Len(d) THEN Len(f) ELSE p + Len(d)) |->
     IF i > p /\ i <= p + Len(d) THEN d[i - p] ELSE f[i]]

Init == file = <<>>

Write ==
  \E p \in 0 .. Len(file), n \in 0 .. Len(file'):
    \E d \in [1 .. n -> Bytes]: file' = Overwrite(file, p, d)

Spec == Init /\ [][Write]_file
=============================================================================
