------------------------------- MODULE Idioms --------------------------------
(***************************************************************************)
(* The short sequences of instructions that compilers and the BIOS build   *)
(* larger arithmetic from, run on the instructions of Alu, and what each   *)
(* must compute.  Every sequence relies on several instructions agreeing   *)
(* on overflow, sign and width.                                            *)
(*                                                                         *)
(* Operands are in registers 1 to 4, 0 holds zero, results are in 5 to 7   *)
(* and 2.  a, b are the operands in 1 and 3.                               *)
(***************************************************************************)
EXTENDS Alu

R(op, d, s, t) == [op |-> op, d |-> d, s |-> s, t |-> t, imm |-> 0]

I(op, d, s, imm) ==
  [op |-> op, d |-> d, s |-> s, t |-> 0, imm |-> imm % Pow(Half)]

Sh(op, d, t, k) == [op |-> op, d |-> d, s |-> 0, t |-> t, imm |-> k]

(* Branches and stores: register t, and s as the other one or the base.    *)
B(op, s, t, imm) ==
  [op |-> op, d |-> 0, s |-> s, t |-> t, imm |-> imm % Pow(Half)]

P(name, k, code) == [name |-> name, k |-> k, code |-> code]

(* Sums of double words, (2,1) and (4,3), by the carry of SLTU.            *)
AddLong == P("addLong", 0,
  <<R("addu", 5, 1, 3), R("sltu", 6, 5, 3),
    R("addu", 7, 2, 4), R("addu", 7, 7, 6)>>)

SubLong == P("subLong", 0,
  <<R("sltu", 6, 1, 3), R("subu", 5, 1, 3),
    R("subu", 7, 2, 4), R("subu", 7, 7, 6)>>)

(* a + b from the bits of either and of both, and the negation of a.       *)
Carryless == P("carryless", 0,
  <<R("nor", 5, 1, 1), R("nor", 6, 3, 3), R("nor", 7, 5, 6),
    R("or", 6, 1, 3), R("addu", 7, 7, 6), R("and", 2, 1, 3),
    R("addu", 2, 2, 6), I("addiu", 5, 5, 1)>>)

(* A division, its operand put together again, hi and lo saved meanwhile.  *)
Division(op) == P(op, 0,
  <<R(op, 0, 1, 3), R("mflo", 5, 0, 0), R("mfhi", 6, 0, 0),
    R("mult", 0, 5, 3), R("mflo", 7, 0, 0), R("addu", 7, 7, 6),
    R("mtlo", 0, 5, 0), R("mthi", 0, 6, 0)>>)

Product(op) == P(op, 0,
  <<R(op, 0, 1, 3), R("mfhi", 5, 0, 0), R("mflo", 6, 0, 0)>>)

(* The word k by its halves, the lower one as bits and as a signed number. *)
Constant(k) ==
  LET upper == k \div Pow(Half)
      lower == k % Pow(Half)
  IN  P("constant", k,
        <<I("lui", 5, 0, upper), I("ori", 5, 5, lower),
          I("lui", 6, 0, upper + (2 * lower) \div Pow(Half)),
          I("addiu", 6, 6, lower)>>)

(* SLT as the SLTU of words moved by half the range.                       *)
Compare == P("compare", 0,
  <<I("lui", 4, 0, Pow(Half - 1)), R("addu", 5, 1, 4), R("addu", 6, 3, 4),
    R("sltu", 7, 5, 6), R("slt", 2, 1, 3)>>)

CompareImm(k) == P("compareImm", k,
  <<I("addiu", 4, 0, k), R("slt", 5, 1, 4), I("slti", 6, 1, k),
    R("sltu", 2, 1, 4), I("sltiu", 7, 1, k)>>)

(* a * b by repeated addition, as a loop that is not entered for a <= 0.   *)
Loop == P("loop", 0,
  <<B("blez", 1, 0, 4), I("addiu", 5, 0, 0),
    I("addiu", 1, 1, -1), B("bgtz", 1, 0, -2), R("addu", 5, 5, 3)>>)

Least == P("least", 0,
  <<R("slt", 6, 1, 3), B("bne", 6, 0, 2), R("addu", 5, 1, 0),
    R("addu", 5, 3, 0)>>)

Absolute == P("absolute", 0,
  <<B("bgez", 1, 0, 2), R("addu", 5, 1, 0), R("subu", 5, 0, 1)>>)

Sign == P("sign", 0,
  <<B("bltz", 1, 0, 4), I("addiu", 5, 0, -1), B("beq", 1, 0, 2),
    I("addiu", 5, 0, 0), I("addiu", 5, 0, 1)>>)

(* A branch over k - 1 instructions, with one in its slot.                 *)
Skip(k) == P("skip", k,
  <<B("beq", 0, 0, k)>> \o [n \in 1..k |-> I("addiu", 5, 5, 1)])

(* Rotations by k, to the left by a fixed and by a variable amount, which  *)
(* has a bit above those that count.                                       *)
Rotate(k) == P("rotate", k,
  <<Sh("sll", 5, 1, k), Sh("srl", 6, 1, Width - k), R("or", 7, 5, 6),
    I("addiu", 4, 0, k + Width), R("sllv", 5, 4, 1), R("or", 2, 5, 6)>>)

(* The lowest k bits moved up and shifted back by SRA and by SRAV, with an *)
(* amount that has a bit above those that count.                           *)
Extend(k) == P("extend", k,
  <<Sh("sll", 5, 1, Width - k), Sh("sra", 6, 5, Width - k),
    I("addiu", 4, 0, 2 * Width - k), R("srav", 7, 4, 5)>>)

(* The lower part of a word, by memory, by shifts and by a mask.           *)
LowerByte == P("byte", Quarter,
  <<B("sb", 0, 1, 3), I("lb", 5, 0, 3), I("lbu", 6, 0, 3),
    Sh("sll", 7, 1, 3 * Quarter), Sh("srl", 7, 7, 3 * Quarter),
    I("andi", 2, 1, Pow(Quarter) - 1)>>)

LowerHalf == P("half", Half,
  <<B("sh", 0, 1, 2), I("lh", 5, 0, 3), I("lhu", 6, 0, 2),
    Sh("sll", 7, 1, Half), Sh("srl", 7, 7, Half),
    I("andi", 2, 1, Pow(Half) - 1)>>)

(* A word taken apart and put together by halves, at odd addresses.        *)
Halves == P("halves", 0,
  <<B("sw", 0, 1, 3), I("lhu", 5, 0, 3), I("lhu", 6, 0, 1),
    Sh("sll", 7, 5, Half), R("or", 7, 7, 6), I("lw", 2, 0, 2)>>)

(* The carry of a sum, and the sum that is checked for overflow.           *)
CheckedAdd == P("add", 0,
  <<R("addu", 5, 1, 3), R("sltu", 6, 5, 3), R("add", 7, 1, 3)>>)

CheckedAddImm(k) == P("addi", k,
  <<I("addiu", 5, 1, k), I("addi", 7, 1, k)>>)

(* The sequences for words of this width; a skip is as far as the byte     *)
(* offset of a branch fits an immediate.                                   *)
Library(p) ==
  \/ p \in {AddLong, SubLong, Carryless, Division("div"), Division("divu"),
            Product("mult"), Product("multu"), Compare, Loop, Least, Absolute,
            Sign, LowerByte, LowerHalf, Halves, CheckedAdd,
            Extend(Quarter), Extend(Half)}
  \/ \E k \in 1..(Width - 1) : p = Rotate(k)
  \/ \E k \in 0..(Pow(Half) - 1) :
       p = CompareImm(k) \/ p = CheckedAddImm(k)
         \/ (k > 0 /\ 4 * k < Pow(Half - 1) /\ p = Skip(k))
  \/ \E k \in Word : p = Constant(k)

(* Register 0 holds zero in every state of the machine; twice the width is *)
(* a positive immediate, as with words of 32 bits.                         *)
ASSUME IdiomsAssumption ==
  /\ 0..7 \subseteq Reg
  /\ 2 * Width < Pow(Half - 1)
  /\ \A s \in Starts : Library(s.program) /\ s.regs[0] = 0
-----------------------------------------------------------------------------
(* Properties                                                              *)

Finished(names) == Ended /\ program.name \in names

Long(upper, lower) == upper * N + lower

a == given[1]
b == given[3]

(* The carry and the borrow that SLTU computes make double words out of    *)
(* words, and the bitwise instructions agree with addition.                *)
Sums ==
  LET left == Long(given[2], given[1])
      right == Long(given[4], given[3])
  IN  /\ Finished({"addLong"}) =>
           Long(regs[7], regs[5]) = (left + right) % (N * N)
      /\ Finished({"subLong"}) =>
           Long(regs[7], regs[5]) = (left - right) % (N * N)
      /\ Finished({"carryless"}) =>
           regs[7] = Cut(a + b) /\ regs[2] = regs[7] /\ regs[5] = Cut(-a)

(* Quotient and remainder put the operand together again and have the      *)
(* signs of a division that truncates; where there is no such quotient     *)
(* the process ends.                                                       *)
DivisionIdentity ==
  /\ Finished({"div", "divu"}) =>
       /\ regs[7] = a
       /\ hi = regs[6] /\ lo = regs[5]
  /\ Finished({"div"}) =>
       /\ Magnitude(Signed(hi)) < Magnitude(Signed(b))
       /\ hi # 0 => (Signed(hi) < 0 <=> Signed(a) < 0)
  /\ Finished({"divu"}) => hi < b
  /\ status = "aborted" => b = 0 \/ Signed(a) = Signed(b) * (N \div 2)

(* The product of unsigned words for MULTU and of signed ones for MULT, as *)
(* a double word in hi and lo.                                             *)
ProductInHiLo ==
  LET double == Long(regs[5], regs[6])
  IN  /\ Finished({"multu"}) => double = a * b
      /\ Finished({"mult"}) => double = (Signed(a) * Signed(b)) % (N * N)

(* Products have the lower word of the exact one, be the operands signed   *)
(* or not, and hi and lo are the whole product when that is one word and   *)
(* not negative.                                                           *)
ProductOfOneWord ==
  LET double == Long(regs[5], regs[6])
      signed == Signed(a) * Signed(b)
  IN  /\ Finished({"multu"}) =>
           regs[6] = Cut(a * b) /\ (a * b \in Word => double = a * b)
      /\ Finished({"mult"}) =>
           regs[6] = Cut(signed) /\ (signed \in Word => double = signed)

(* Both ways to build a constant from halves give it, sign extended lower  *)
(* halves included.                                                        *)
Constants ==
  Finished({"constant"}) => regs[5] = program.k /\ regs[6] = program.k

(* Signed and unsigned comparisons order words as their types say, with a  *)
(* register and with an immediate, which is sign extended for either.      *)
Comparisons ==
  /\ Finished({"compare"}) =>
       regs[2] = regs[7] /\ (regs[2] = 1 <=> Signed(a) < Signed(b))
  /\ Finished({"compareImm"}) =>
       regs[6] = regs[5] /\ regs[7] = regs[2]

(* Branches forward and backward, as far as the byte offset fits an        *)
(* immediate, make loops and choices that compute what they should, each   *)
(* with its delay slot.                                                    *)
Branches ==
  /\ Finished({"loop"}) =>
       regs[5] = IF Signed(a) <= 0 THEN 0 ELSE Cut(Signed(a) * b)
  /\ Finished({"least"}) =>
       regs[5] = IF Signed(a) < Signed(b) THEN a ELSE b
  /\ Finished({"absolute"}) => regs[5] = Magnitude(Signed(a))
  /\ Finished({"sign"}) =>
       regs[5] = IF Signed(a) < 0 THEN N - 1 ELSE IF a = 0 THEN 0 ELSE 1
  /\ Finished({"skip"}) => regs[5] = Cut(given[5] + 1)

(* Two shifts put a word together rotated, by a fixed amount and by a      *)
(* variable one, of which the lowest bits count.                           *)
Rotations ==
  Finished({"rotate"}) =>
    LET rotated == Cut(a * Pow(program.k)) + a \div Pow(Width - program.k)
    IN  regs[7] = rotated /\ regs[2] = rotated

(* The lowest bits of a word that were moved up come back as a signed      *)
(* number.                                                                 *)
ArithmeticShifts ==
  Finished({"extend"}) =>
    LET low == a % Pow(program.k)
    IN  /\ Signed(regs[6]) = IF 2 * low < Pow(program.k) THEN low
                             ELSE low - Pow(program.k)
        /\ regs[7] = regs[6]

(* The lower byte or halfword comes back from memory with its sign or      *)
(* without, at any address of its word, and from two shifts or a mask      *)
(* without.  A word is its halves.  SRA and SRAV agree, keep the bits that *)
(* remain and add none to a part that is not negative.                     *)
Parts ==
  /\ Finished({"byte", "half"}) =>
       /\ regs[6] = a % Pow(program.k)
       /\ regs[2] = regs[6] /\ regs[7] = regs[6]
       /\ Signed(regs[5]) = IF 2 * regs[6] < Pow(program.k) THEN regs[6]
                            ELSE regs[6] - Pow(program.k)
  /\ Finished({"halves"}) => regs[7] = a /\ regs[2] = a
  /\ Finished({"extend"}) =>
       LET low == a % Pow(program.k)
       IN  /\ regs[7] = regs[6] /\ regs[6] % Pow(program.k) = low
           /\ 2 * low < Pow(program.k) => regs[6] = low

(* The sum of a, as a signed word, and x is one.                           *)
SignedFits(x) == Signed(Cut(Signed(a) + x)) = Signed(a) + x

(* What ADD and ADDI add to a, as a signed number.                         *)
Addend == IF program.name = "add" THEN Signed(b) ELSE Signed(Sx(program.k, Half))

(* ADD and ADDI end the process if, and only if, the sum of signed words   *)
(* is none.                                                                *)
OverflowEnds ==
  /\ program.name \in {"add", "addi"} /\ status = "exited" => ~SignedFits(Addend)
  /\ Finished({"add", "addi"}) => SignedFits(Addend)

(* A sum that is a word both as a signed and as an unsigned number is      *)
(* never refused, one that is neither never gets through, and what gets    *)
(* through is the sum of the unchecked instruction.                        *)
CheckedSums ==
  LET carry == IF program.name = "add" THEN regs[6] = 1
               ELSE IF program.k < Pow(Half - 1) THEN regs[5] < a
               ELSE regs[5] > a
  IN  /\ program.name \in {"add", "addi"} /\ status = "exited" =>
           carry \/ ~SignedFits(Addend)
      /\ Finished({"add", "addi"}) =>
           regs[7] = regs[5] /\ (~carry \/ SignedFits(Addend))
=============================================================================
