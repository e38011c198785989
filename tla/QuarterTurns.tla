---------------------------- MODULE QuarterTurns ----------------------------
(***************************************************************************)
(* Integer differences in the parameter plane and their quarter turns.     *)
(***************************************************************************)
EXTENDS Integers

Zero == <<0, 0>>

Plus(d, e)  == <<d[1] + e[1], d[2] + e[2]>>
Minus(d, e) == <<d[1] - e[1], d[2] - e[2]>>

(* amount is 0, 1, 2 or 3.                                                   *)
rshift90(shift, amount) ==
  LET turned == IF amount % 2 = 1 THEN <<-shift[2], shift[1]>> ELSE shift
  IN  IF amount >= 2 THEN <<-turned[1], -turned[2]>> ELSE turned
=============================================================================
