-------------------------------- MODULE MCAlu --------------------------------
(* Alu with words of 12 bits, so that bytes have 3 and immediates 6, and   *)
(* the operands around 0, the sign change, the ends of the parts and of    *)
(* the range.                                                              *)
EXTENDS Idioms

Edges == {0, 1, 2047, 2048, 4095}
Words == Edges \cup {2, 3, 4, 7, 8, 31, 63, 32, 64, 100, 1365, 2049, 2730, 4032,
                          4088, 4094}

Unary(words) == {[r \in 0..7 |-> IF r = 1 THEN x ELSE 0] : x \in words}
Binary == {[r \in 0..7 |-> IF r = 1 THEN x ELSE IF r = 3 THEN y ELSE 0] :
             x \in Words, y \in Words}
Double == {[r \in 0..7 |-> IF r \in 1..4 THEN f[r] ELSE 0] :
             f \in [1..4 -> Edges]}

From(programs, registers) ==
  {[program |-> p, regs |-> r] : p \in programs, r \in registers}

MCStarts ==
  From({AddLong, SubLong}, Double)
    \cup From({Carryless, Division("div"), Division("divu"), Product("mult"),
               Product("multu"), Compare, Least, CheckedAdd}, Binary)
    \cup From({Constant(64 * u + l) : u \in {0, 1, 31, 32, 63}, l \in 0..63}, Unary({0}))
    \cup From({Absolute, Sign, LowerByte, LowerHalf, Halves, Extend(3), Extend(6)}
                \cup {Rotate(k) : k \in 1..11}
                \cup {CompareImm(k) : k \in {0, 1, 5, 31, 32, 62, 63}}
                \cup {CheckedAddImm(k) : k \in {0, 1, 5, 31, 32, 62, 63}}, Unary(Words))
    \cup From({Loop}, {r \in Binary : r[1] \in (0..8) \cup {63, 2048, 4095}})
    \cup From({Skip(k) : k \in 1..7}, Unary({0}))
=============================================================================
