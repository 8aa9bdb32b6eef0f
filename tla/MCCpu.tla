------------------------------- MODULE MCCpu --------------------------------
(* Instances of Cpu for TLC: a 64 byte address space with a boot ROM at    *)
(* 16..31 and again at 48..63, the two exception vectors at 8 and 40, and  *)
(* the range of the first ROM ending at 32.                                *)
EXTENDS Cpu

I(op) == [op |-> op, s |-> 0, t |-> 0, d |-> RA, imm |-> 0, w |-> 4,
          c |-> "other"]

MCNoop == I("none")
MCOpenBus == I("reserved")
MCMemory == {8, 12, 16, 20, 24, 28, 40}
MCMapped == MCMemory \cup {48, 52, 56, 60}
MCHome == [a \in MCMapped |-> IF a >= 48 THEN a - 32 ELSE a]

jal == [I("jal") EXCEPT !.imm = 24]
j == [I("j") EXCEPT !.imm = 8]
jr == [I("jr") EXCEPT !.s = RA]
jalr == [I("jalr") EXCEPT !.s = 0]
branch == [I("branch") EXCEPT !.imm = -8]
brlink == [I("brlink") EXCEPT !.imm = 4]
storeRom == [I("store") EXCEPT !.imm = 21, !.t = RA]
storeMirror == [I("store") EXCEPT !.imm = 53, !.t = RA]
storeReg == [I("store") EXCEPT !.s = RA, !.w = 1]
loadReg == [I("load") EXCEPT !.s = RA, !.t = RA, !.w = 2]
addRegs == [I("add") EXCEPT !.s = RA, !.t = RA, !.d = 0]
addi == [I("addi") EXCEPT !.s = RA, !.imm = -12]
divRegs == [I("div") EXCEPT !.s = RA, !.t = RA]
mtcSR == [I("mtc") EXCEPT !.c = "SR"]
mtcEPC == [I("mtc") EXCEPT !.c = "EPC", !.t = RA]
mtcCause == [I("mtc") EXCEPT !.c = "Cause"]
mtcOther == I("mtc")
mfcEPC == [I("mfc") EXCEPT !.c = "EPC", !.t = RA]

Programs(free, code) ==
  {[a \in MCMemory |-> IF a \in free THEN p[a] ELSE MCNoop] :
     p \in [free -> code]}

(* Control flow: every program of three words over jumps, calls, loads,    *)
(* stores and arithmetic.                                                  *)
FlowCode == {MCNoop, I("alu"), jal, j, jr, jalr, branch, brlink, I("syscall"),
             storeRom, storeMirror, storeReg, loadReg, addRegs, addi, divRegs,
             I("badcop"), I("reserved")}
FlowInstr == FlowCode
FlowPatch == {MCNoop, jr}
FlowImages == Programs({16, 20, 24}, FlowCode)

(* Modes: every program of three words, and every handler of two, over     *)
(* syscall, rfe and the COP0 moves.                                        *)
ModeCode == {MCNoop, I("syscall"), I("rfe"), mtcSR, mtcEPC, mtcCause, mfcEPC,
             jr, storeRom}
ModePatch == {I("rfe"), mtcOther, I("badcop")}
ModeInstr == ModeCode \cup ModePatch \cup {MCOpenBus}
ModeValues == {{}, {0, 1}, {2, 5, 16}, {0, 22}}
ModeImages == Programs({8, 12, 16, 20}, ModeCode)
=============================================================================
