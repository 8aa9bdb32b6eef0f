-------------------------------- MODULE Alu ---------------------------------
(***************************************************************************)
(* The arithmetic of mips::run (src/src/cpu/cpu.cpp), which Cpu leaves     *)
(* open: what every instruction computes, to the bit, on words of any      *)
(* width.  The code has words of 32 bits, immediates and halfwords of 16,  *)
(* bytes of 8; here they are Width, Half and Quarter, in that proportion.  *)
(*                                                                         *)
(* A word is a number 0..N-1; Signed is the same word as an int32_t.       *)
(***************************************************************************)
EXTENDS Integers, Sequences

CONSTANTS
  Width,    \* the bits of a word
  Reg,      \* register numbers
  Starts    \* where the machine may start: [program, regs]

(* 2 to the power of n, by doubling.                                       *)
Pow(n) ==
  LET p[i \in 0..n] == IF i = 0 THEN 1 ELSE 2 * p[i - 1]
  IN  p[n]

N == Pow(Width)
Half == Width \div 2
Quarter == Width \div 4

Word == 0..(N - 1)

(* An instruction is its operation, the register it writes, rs(), rt() and *)
(* the immediate, target or shift amount as encoded.                       *)
InstrType == [op : STRING, d : Reg, s : Reg, t : Reg, imm : Nat]

ASSUME AluAssumption ==
  /\ Width \in Nat /\ Width % 4 = 0 /\ Width > 0
  /\ 0 \in Reg
  /\ \A s \in Starts :
       /\ s.regs \in [Reg -> Word]
       /\ s.program.code \in Seq(InstrType)
       /\ 4 * Len(s.program.code) < N
       /\ \A k \in 1..Len(s.program.code) : s.program.code[k].imm < Pow(Half)

VARIABLES
  status,    \* "running", or how an instruction ended the process
  pc, npc,   \* where the current and the next instruction are
  regs, hi, lo,
  bytes,     \* a word of memory, at address 0
  program,   \* the code at address 0, and what it is
  given      \* history: the registers at the start

vars == <<status, pc, npc, regs, hi, lo, bytes, program, given>>

Ended == pc = 4 * Len(program.code)

ins == program.code[pc \div 4 + 1]
-----------------------------------------------------------------------------
(* Words                                                                   *)

(* Faulty variant: no wrap.                                                *)
Uncut(x) == x

Cut(x) == x % N

Signed(w) == IF 2 * w < N THEN w ELSE w - N

(* sx: the lowest bits of v, sign extended to a word.                      *)
Sx(v, bits) ==
  LET low == v % Pow(bits)
  IN  Cut(IF 2 * low < Pow(bits) THEN low ELSE low - Pow(bits))

BitSet(w) == {i \in 0..(Width - 1) : (w \div Pow(i)) % 2 = 1}

(* Sum(f, n) is f[1] + ... + f[n].                                         *)
Sum(f, n) ==
  LET sum[i \in 0..n] == IF i = 0 THEN 0 ELSE sum[i - 1] + f[i]
  IN  sum[n]

WordOf(bits) ==
  Sum([i \in 1..Width |-> IF i - 1 \in bits THEN Pow(i - 1) ELSE 0], Width)

BranchOps == {"beq", "bne", "blez", "bgtz", "bgez", "bltz"}

rs == regs[ins.s]
rt == regs[ins.t]

(* Faulty variant: no immediate is sign extended.                          *)
OperandUnsigned ==
  IF ins.op \in {"addi", "addiu", "slti", "sltiu", "andi", "ori"} THEN ins.imm
  ELSE rt

(* The second operand: arithmetic immediates are sign extended, those of   *)
(* logic are not.                                                          *)
Operand ==
  CASE ins.op \in {"addi", "addiu", "slti", "sltiu"} -> Sx(ins.imm, Half)
    [] ins.op \in {"andi", "ori"} -> ins.imm
    [] OTHER -> rt
-----------------------------------------------------------------------------
(* Instructions                                                            *)

(* A run ends at the end of the code, or when it leaves it by a branch.    *)
Running == status = "running" /\ pc < 4 * Len(program.code)

Advance ==
  /\ Running
  /\ pc' = npc /\ npc' = Cut(npc + 4)
  /\ UNCHANGED <<status, program, given>>

Writes(ops, value) ==
  /\ Running /\ ins.op \in ops
  /\ regs' = [regs EXCEPT ![ins.d] = value]
  /\ Advance
  /\ UNCHANGED <<hi, lo, bytes>>

(* Faulty variant: the variable shift amount is not masked.                *)
ShiftLeftUnmasked ==
  \/ Writes({"sll"}, Cut(rt * Pow(ins.imm)))
  \/ Writes({"sllv"}, IF rs < Width THEN Cut(rt * Pow(rs)) ELSE 0)

(* SLL, SLLV                                                               *)
ShiftLeft ==
  \/ Writes({"sll"}, Cut(rt * Pow(ins.imm)))
  \/ Writes({"sllv"}, Cut(rt * Pow(rs % Width)))

(* SRL, SRA, SRAV: the code shifts the unsigned word and casts the result, *)
(* so that SRA shifts zeros in like SRL.                                   *)
ShiftRight ==
  \/ Writes({"srl", "sra"}, rt \div Pow(ins.imm))
  \/ Writes({"srav"}, rt \div Pow(rs % Width))

(* ADDU, ADDIU, SUBU                                                       *)
Arithmetic ==
  \/ Writes({"addu", "addiu"}, Cut(rs + Operand))
  \/ Writes({"subu"}, Cut(rs - rt))

(* AND, ANDI, OR, ORI, NOR                                                 *)
Logic ==
  \/ Writes({"and", "andi"}, WordOf(BitSet(rs) \cap BitSet(Operand)))
  \/ Writes({"or", "ori"}, WordOf(BitSet(rs) \cup BitSet(Operand)))
  \/ Writes({"nor"}, WordOf(BitSet(N - 1) \ (BitSet(rs) \cup BitSet(rt))))

(* Faulty variants: signed words are compared as unsigned ones; equal     *)
(* words count as less.                                                    *)
SetOnLessUnsigned ==
  Writes({"slt", "slti", "sltu", "sltiu"}, IF rs < Operand THEN 1 ELSE 0)

SetOnLessOrEqual ==
  \/ Writes({"slt", "slti"}, IF Signed(rs) <= Signed(Operand) THEN 1 ELSE 0)
  \/ Writes({"sltu", "sltiu"}, IF rs <= Operand THEN 1 ELSE 0)

(* SLT, SLTI, SLTU, SLTIU                                                  *)
SetOnLess ==
  \/ Writes({"slt", "slti"}, IF Signed(rs) < Signed(Operand) THEN 1 ELSE 0)
  \/ Writes({"sltu", "sltiu"}, IF rs < Operand THEN 1 ELSE 0)

(* LUI                                                                     *)
LoadUpper == Writes({"lui"}, Cut(ins.imm * Pow(Half)))

(* Faulty variant: ADD and ADDI wrap like ADDU and ADDIU.                  *)
AddUnchecked == Writes({"add", "addi"}, Cut(rs + Operand))

(* ADD, ADDI: add_with_overflow takes an unsigned word and, for ADDI, a    *)
(* signed one; the exact sum has to fit an unsigned word.                  *)
Add ==
  LET sum == rs + (IF ins.op = "addi" THEN Signed(Operand) ELSE rt)
  IN  /\ Running /\ ins.op \in {"add", "addi"}
      /\ \/ sum \in Word /\ Writes({"add", "addi"}, sum)
         \/ /\ sum \notin Word
            /\ status' = "exited"
            /\ UNCHANGED <<pc, npc, regs, hi, lo, bytes, program, given>>

(* MFHI, MFLO                                                              *)
MoveFrom == Writes({"mfhi"}, hi) \/ Writes({"mflo"}, lo)

(* MTHI, MTLO                                                              *)
MoveTo ==
  /\ Running /\ ins.op \in {"mthi", "mtlo"}
  /\ IF ins.op = "mthi" THEN hi' = rs /\ UNCHANGED lo
                        ELSE lo' = rs /\ UNCHANGED hi
  /\ Advance
  /\ UNCHANGED <<regs, bytes>>

(* Faulty variant: hi and lo are swapped.                                  *)
MultiplySwapped ==
  /\ Running /\ ins.op \in {"mult", "multu"}
  /\ hi' = Cut(rs * rt)
  /\ lo' = 0
  /\ Advance
  /\ UNCHANGED <<regs, bytes>>

(* MULT, MULTU: the product is computed in a word, and its upper word is   *)
(* masked out before it is cut to the lower one.                           *)
Multiply ==
  /\ Running /\ ins.op \in {"mult", "multu"}
  /\ lo' = Cut(rs * rt)
  /\ hi' = 0
  /\ Advance
  /\ UNCHANGED <<regs, bytes>>

Magnitude(x) == IF x < 0 THEN -x ELSE x

(* std::div truncates, \div floors.                                        *)
Quotient(a, b) ==
  LET q == Magnitude(a) \div Magnitude(b)
  IN  IF (a < 0) = (b < 0) THEN q ELSE -q

(* The host traps on a zero divisor and on a quotient that does not fit.   *)
Traps == rt = 0 \/ (ins.op = "div" /\ 2 * rs = N /\ rt = N - 1)

(* Faulty variant: the quotient is rounded down.                           *)
DivideFloor ==
  LET a == IF ins.op = "div" THEN Signed(rs) ELSE rs
      b == IF ins.op = "div" THEN Signed(rt) ELSE rt
      q == IF b > 0 THEN a \div b ELSE (-a) \div (-b)
  IN  /\ Running /\ ins.op \in {"div", "divu"}
      /\ IF ~Traps
         THEN lo' = Cut(q) /\ hi' = Cut(a - q * b)
              /\ Advance /\ UNCHANGED <<regs, bytes>>
         ELSE /\ status' = "aborted"
              /\ UNCHANGED <<pc, npc, regs, hi, lo, bytes, program, given>>

(* DIV, DIVU                                                               *)
Divide ==
  LET a == IF ins.op = "div" THEN Signed(rs) ELSE rs
      b == IF ins.op = "div" THEN Signed(rt) ELSE rt
  IN  /\ Running /\ ins.op \in {"div", "divu"}
      /\ \/ /\ ~Traps
            /\ lo' = Cut(Quotient(a, b))
            /\ hi' = Cut(a - Quotient(a, b) * b)
            /\ Advance
            /\ UNCHANGED <<regs, bytes>>
         \/ /\ Traps
            /\ status' = "aborted"
            /\ UNCHANGED <<pc, npc, regs, hi, lo, bytes, program, given>>

Taken ==
  CASE ins.op = "beq"  -> rs = rt
    [] ins.op = "bne"  -> rs # rt
    [] ins.op = "blez" -> Signed(rs) <= 0
    [] ins.op = "bgtz" -> Signed(rs) > 0
    [] ins.op = "bgez" -> Signed(rs) >= 0
    [] ins.op = "bltz" -> Signed(rs) < 0

(* The offset counts instructions.  It is cut to an immediate after it was *)
(* made bytes, which loses its upper two bits.                             *)
Displacement == Sx(ins.imm * 4, Half)

(* Faulty variant: relative to the branch.                                 *)
BranchFromItself ==
  /\ Running /\ ins.op \in BranchOps
  /\ pc' = npc
  /\ npc' = Cut(IF Taken THEN pc + Displacement ELSE npc + 4)
  /\ UNCHANGED <<status, regs, hi, lo, bytes, program, given>>

(* BEQ, BNE, BLEZ, BGTZ, BGEZ, BLTZ: relative to the delay slot.           *)
Branch ==
  /\ Running /\ ins.op \in BranchOps
  /\ pc' = npc
  /\ npc' = Cut(npc + (IF Taken THEN Displacement ELSE 4))
  /\ UNCHANGED <<status, regs, hi, lo, bytes, program, given>>

AccessSize ==
  [lb |-> 1, lbu |-> 1, lh |-> 2, lhu |-> 2, lw |-> 4, sb |-> 1, sh |-> 2, sw |-> 4]

(* The first byte of an access of n bytes, cut to its alignment.           *)
Place(n) ==
  LET addr == Cut(rs + Sx(ins.imm, Half))
  IN  addr - (addr % n)

(* The memory of the model is one word; a run ends at an access elsewhere. *)
Accesses(ops) ==
  Running /\ ins.op \in ops /\ Place(AccessSize[ins.op]) < 4

Loaded(n) ==
  Sum([k \in 1..n |-> bytes[Place(n) + k - 1] * Pow(Quarter * (k - 1))], n)

(* LB, LBU, LH, LHU, LW                                                    *)
Load ==
  /\ Accesses({"lb", "lbu", "lh", "lhu", "lw"})
  /\ \/ Writes({"lb"}, Sx(Loaded(1), Quarter))
     \/ Writes({"lbu"}, Loaded(1))
     \/ Writes({"lh"}, Sx(Loaded(2), Half))
     \/ Writes({"lhu"}, Loaded(2))
     \/ Writes({"lw"}, Loaded(4))

(* Faulty variant: the upper end of the register is stored.                *)
StoreUpper ==
  /\ Accesses({"sb", "sh", "sw"})
  /\ LET n == AccessSize[ins.op]
     IN  bytes' = [q \in 0..3 |->
           IF q \in Place(n)..(Place(n) + n - 1)
           THEN (rt \div Pow(Quarter * (q - Place(n) + 4 - n))) % Pow(Quarter)
           ELSE bytes[q]]
  /\ Advance
  /\ UNCHANGED <<regs, hi, lo>>

(* SB, SH, SW: the lowest bytes of the register.                           *)
Store ==
  /\ Accesses({"sb", "sh", "sw"})
  /\ LET n == AccessSize[ins.op]
     IN  bytes' = [q \in 0..3 |->
           IF q \in Place(n)..(Place(n) + n - 1)
           THEN (rt \div Pow(Quarter * (q - Place(n)))) % Pow(Quarter)
           ELSE bytes[q]]
  /\ Advance
  /\ UNCHANGED <<regs, hi, lo>>

Init ==
  /\ status = "running"
  /\ pc = 0 /\ npc = 4
  /\ hi = 0 /\ lo = 0
  /\ bytes = [q \in 0..3 |-> 0]
  /\ \E s \in Starts : program = s.program /\ regs = s.regs /\ given = s.regs

Next ==
  \/ ShiftLeft \/ ShiftRight \/ Arithmetic \/ Logic \/ SetOnLess \/ LoadUpper
  \/ Add \/ MoveFrom \/ MoveTo \/ Multiply \/ Divide \/ Branch \/ Load \/ Store

Spec == Init /\ [][Next]_vars
-----------------------------------------------------------------------------
(* Every result is a word, that of an instruction that wraps included.     *)
TypeOK ==
  /\ status \in {"running", "exited", "aborted"}
  /\ {pc, npc, hi, lo} \subseteq Word
  /\ regs \in [Reg -> Word]
  /\ bytes \in [0..3 -> 0..(Pow(Quarter) - 1)]
=============================================================================
