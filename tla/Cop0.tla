------------------------------- MODULE Cop0 ---------------------------------
(***************************************************************************)
(* The system control coprocessor (src/src/cpu/cop0.hpp): the fields of    *)
(* the status and cause registers and what an exception and an rfe do to   *)
(* them.  The registers are bit sets, see BitMask.                         *)
(***************************************************************************)
EXTENDS BitMask

Bits == 0..31

(* sr_bits *)
IEc == BitField({0})
KUc == BitField({1})
IEp == BitField({2})
KUp == BitField({3})
IEo == BitField({4})
KUo == BitField({5})
AllExcBits == BitField(0..5)
IsC == BitField({16})
BEV == BitField({22})

(* cause_bits *)
ExcCode == BitField(2..6)
BD == BitField({31})

(* exc_code::Syscall, as the bits of its value *)
Syscall == {3}

On(m, v) == Get(m, v) # {}

(* Faulty variants: the stack pushed the wrong way; an rfe that leaves out *)
(* the previous bits.                                                      *)
PushModesDown(sr) == Put(IEc, Put(KUc, ShrPut(AllExcBits, sr, 2), {0}), {})

RfeOldOnly(sr) == sr \cup Shr(sr \cap 4..5, 2)

(* What cop0::enter_exception does to SR and to Cause.                     *)
PushModes(sr) ==
  LET pushed == ShlPut(AllExcBits, sr, 2)
  IN  Put(IEc, Put(KUc, pushed, {0}), {})

RecordCause(cause, code) == Put(ExcCode, cause, code)

(* What the RFE instruction does: sr |= (sr & 0x3c) >> 2                   *)
Rfe(sr) == sr \cup Shr(sr \cap 2..5, 2)
=============================================================================
