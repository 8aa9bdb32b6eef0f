----------------------------- MODULE CpuProofs ------------------------------
(***************************************************************************)
(* What Cpu guarantees for every address space, program and deadline.      *)
(***************************************************************************)
EXTENDS Cpu, BitMaskProofs

-----------------------------------------------------------------------------
(* The bits of SR and Cause after an exception and after an rfe.           *)

(* The bits of a register are integers, as the mask lemmas require.        *)
LEMMA WordOfBits == ASSUME NEW v \in SUBSET Bits PROVE v \in SUBSET Int
  BY DEF Bits

(* A one bit mask reads as set exactly when its bit is.                    *)
LEMMA BitSet ==
  ASSUME NEW k \in Int, NEW v \in SUBSET Int
  PROVE  On(BitField({k}), v) <=> k \in v
  <1> DEFINE m == BitField({k})
  <1>1. IsMask(m, k, k)
    BY BitOffset
  <1>2. Get(m, v) \in SUBSET Int
    BY <1>1, ShiftsAreWords DEF Get, IsMask
  <1>3. ASSUME NEW b \in Int PROVE b \in Get(m, v) <=> b = 0 /\ k \in v
    <2>1. b \in Get(m, v) <=> b \in 0..(k - k) /\ b + k \in v
      BY <1>1, GetMember
    <2>2. b \in 0..(k - k) <=> b = 0
      OBVIOUS
    <2>3. 0 + k = k
      OBVIOUS
    <2> QED
      BY <2>1, <2>2, <2>3
  <1>4. k \in v => 0 \in Get(m, v)
    BY <1>3
  <1>5. k \notin v => Get(m, v) = {}
    BY <1>2, <1>3
  <1> QED
    BY <1>4, <1>5 DEF On

(* An exception pushes the two current mode bits over the previous ones,   *)
(* and these over the old ones; then KUc is 1 and IEc 0.                   *)
THEOREM PushModesBits ==
  ASSUME NEW v \in SUBSET Bits
  PROVE  /\ PushModes(v) \in SUBSET Bits
         /\ \A b \in Int : b \in PushModes(v) <=>
              \/ b \in v /\ b \notin 0..5
              \/ b \in 2..5 /\ b - 2 \in v
              \/ b = 1
  <1> DEFINE pushed == ShlPut(AllExcBits, v, 2)
             kernel == Put(KUc, pushed, {0})
             stack == Get(AllExcBits, v)
  <1>1. /\ IsMask(AllExcBits, 0, 5) /\ IsMask(KUc, 1, 1) /\ IsMask(IEc, 0, 0)
    <2>1. 0 \in Int /\ 5 \in Int /\ 0 <= 5
      OBVIOUS
    <2>2. IsMask(BitField(0..5), 0, 5)
      BY <2>1, FieldOffset, Zenon
    <2>3. IsMask(BitField({1}), 1, 1) /\ IsMask(BitField({0}), 0, 0)
      BY BitOffset
    <2> QED
      BY <2>2, <2>3 DEF AllExcBits, KUc, IEc
  <1>2. v \in SUBSET Int
    BY WordOfBits
  <1>3. /\ stack \in SUBSET Int
        /\ \A b \in Int : b \in stack <=> b \in 0..5 /\ b \in v
    <2>1. stack \in SUBSET Int
      BY <1>1, <1>2, ShiftsAreWords DEF Get, IsMask
    <2>2. ASSUME NEW b \in Int PROVE b \in stack <=> b \in 0..5 /\ b \in v
      <3>1. b \in stack <=> b \in 0..(5 - 0) /\ b + 0 \in v
        BY <1>1, <1>2, GetMember
      <3> QED
        BY <3>1
    <2> QED
      BY <2>1, <2>2
  <1>4. /\ Shl(stack, 2) \in SUBSET Int
        /\ \A b \in Int : b \in Shl(stack, 2) <=> b - 2 \in stack
    BY <1>3, ShiftsAreWords, ShlMember
  <1>5. /\ pushed \in SUBSET Bits
        /\ \A b \in Int : b \in pushed <=>
             \/ b \in v /\ b \notin 0..5
             \/ b \in 2..5 /\ b - 2 \in v
    <2>1. \A b \in Int :
            b \in pushed <=> IF b \in 0..5 THEN b \in Shl(stack, 2) ELSE b \in v
      <3> TAKE b \in Int
      <3>1. b \in Put(AllExcBits, v, Shl(stack, 2))
              <=> IF b \in 0..5 THEN b - 0 \in Shl(stack, 2) ELSE b \in v
        BY <1>1, <1>2, <1>4, PutMember
      <3>2. b - 0 = b
        OBVIOUS
      <3> QED
        BY <3>1, <3>2 DEF ShlPut
    <2>2. pushed \subseteq v \cup 0..5
      <3>1. Put(AllExcBits, v, Shl(stack, 2)) \subseteq v \cup 0..5
        BY <1>1 DEF Put, IsMask
      <3> QED
        BY <3>1 DEF ShlPut
    <2>3. pushed \in SUBSET Bits
      <3>1. 0..5 \subseteq Bits
        BY DEF Bits
      <3> QED
        BY <2>2, <3>1
    <2> QED
      BY <1>3, <1>4, <2>1, <2>3
  <1>6. /\ kernel \in SUBSET Bits
        /\ \A b \in Int : b \in kernel <=> b = 1 \/ b \in pushed
    <2>1. kernel \subseteq pushed \cup {1}
      BY <1>1 DEF Put, IsMask
    <2>2. ASSUME NEW b \in Int PROVE b \in kernel <=> b = 1 \/ b \in pushed
      <3>1. b \in kernel <=> IF b \in 1..1 THEN b - 1 \in {0} ELSE b \in pushed
        BY <1>1, <1>5, WordOfBits, PutMember
      <3> QED
        BY <3>1
    <2> QED
      BY <1>5, <2>1, <2>2 DEF Bits
  <1>7. /\ Put(IEc, kernel, {}) \in SUBSET Bits
        /\ \A b \in Int : b \in Put(IEc, kernel, {}) <=> b # 0 /\ b \in kernel
    <2>1. Put(IEc, kernel, {}) \subseteq kernel \cup {0}
      BY <1>1 DEF Put, IsMask
    <2>2. ASSUME NEW b \in Int
          PROVE  b \in Put(IEc, kernel, {}) <=> b # 0 /\ b \in kernel
      <3>1. b \in Put(IEc, kernel, {})
              <=> IF b \in 0..0 THEN b - 0 \in {} ELSE b \in kernel
        BY <1>1, <1>6, WordOfBits, PutMember
      <3> QED
        BY <3>1
    <2> QED
      BY <1>6, <2>1, <2>2 DEF Bits
  <1> QED
    BY <1>5, <1>6, <1>7 DEF PushModes

(* An rfe only ever sets bits: each of the current and previous mode bits  *)
(* becomes the OR of itself and of the one above.                          *)
THEOREM RfeBits ==
  ASSUME NEW v \in SUBSET Bits
  PROVE  /\ Rfe(v) \in SUBSET Bits
         /\ \A b \in Int : b \in Rfe(v) <=>
              b \in v \/ (b \in 0..3 /\ b + 2 \in v)
  <1> DEFINE above == Shr(v \cap 2..5, 2)
  <1>1. v \cap 2..5 \in SUBSET Int
    OBVIOUS
  <1>2. above \in SUBSET Int
    BY <1>1, ShiftsAreWords
  <1>3. \A b \in Int : b \in above <=> b \in 0..3 /\ b + 2 \in v
    BY <1>1, ShrMember
  <1>4. above \subseteq Bits
    BY <1>2, <1>3 DEF Bits
  <1> QED
    BY <1>3, <1>4 DEF Rfe

(* Recording a cause stores its code and changes nothing outside ExcCode,  *)
(* the bits 2 to 6: the interrupts pending in Cause stay.                  *)
THEOREM CauseRecorded ==
  ASSUME NEW v \in SUBSET Bits, NEW code \in SUBSET (0..4)
  PROVE  /\ RecordCause(v, code) \in SUBSET Bits
         /\ Get(ExcCode, RecordCause(v, code)) = code
         /\ \A b \in Bits \ 2..6 : b \in RecordCause(v, code) <=> b \in v
  <1>1. IsMask(ExcCode, 2, 6)
    <2>1. 2 \in Int /\ 6 \in Int /\ 2 <= 6
      OBVIOUS
    <2>2. IsMask(BitField(2..6), 2, 6)
      BY <2>1, FieldOffset, Zenon
    <2> QED
      BY <2>2 DEF ExcCode
  <1>2. v \in SUBSET Int /\ code \in SUBSET Int
    BY WordOfBits
  <1>3. Get(ExcCode, RecordCause(v, code)) = code \cap 0..(6 - 2)
    BY <1>1, <1>2, ReadBack DEF RecordCause
  <1>4. RecordCause(v, code) \subseteq v \cup 2..6
    BY <1>1 DEF RecordCause, Put, IsMask
  <1>5. 2..6 \subseteq Bits
    BY DEF Bits
  <1>6. code \cap 0..(6 - 2) = code
    <2>1. 6 - 2 = 4
      OBVIOUS
    <2> QED
      BY <2>1
  <1>7. ASSUME NEW b \in Bits \ 2..6
        PROVE  b \in RecordCause(v, code) <=> b \in v
    <2>1. b \in Int /\ b \notin 2..6
      BY DEF Bits
    <2>2. b \in Put(ExcCode, v, code)
            <=> IF b \in 2..6 THEN b - 2 \in code ELSE b \in v
      BY <1>1, <1>2, <2>1, PutMember
    <2> QED
      BY <2>1, <2>2 DEF RecordCause
  <1> QED
    BY <1>3, <1>4, <1>5, <1>6, <1>7
-----------------------------------------------------------------------------
(* The loop                                                                *)

(* Address arithmetic wraps into the address space.                        *)
LEMMA WrapInAddress ==
  ASSUME NEW a \in Int
  PROVE  AddrLimit \in Nat \ {0} /\ Wrap(a) \in Address
  <1>1. AddrLimit \in Nat \ {0}
    BY AddressAssumption DEF Address
  <1>2. a % AddrLimit \in 0..(AddrLimit - 1)
    BY <1>1
  <1> QED
    BY <1>1, <1>2 DEF Wrap, Address

(* One turn around the address space is all a short offset can make.       *)
LEMMA WrapOnce ==
  ASSUME NEW a \in 0..(2 * AddrLimit - 1)
  PROVE  Wrap(a) = IF a < AddrLimit THEN a ELSE a - AddrLimit
  <1>1. AddrLimit \in Nat /\ AddrLimit > 0 /\ a \in Nat /\ a < 2 * AddrLimit
    BY AddressAssumption
  <1>2. CASE a < AddrLimit
    BY <1>1, <1>2 DEF Wrap
  <1>3. CASE a >= AddrLimit
    BY <1>1, <1>3 DEF Wrap
  <1> QED
    BY <1>1, <1>2, <1>3

(* Two steps of one instruction are one step of two.                       *)
LEMMA WrapTwice ==
  ASSUME NEW a \in Address
  PROVE  Wrap(Wrap(a + 4) + 4) = Wrap(a + 8)
  <1>1. AddrLimit \in Nat /\ AddrLimit >= 8 /\ a \in Nat /\ a < AddrLimit
    BY AddressAssumption DEF Address
  <1>2. CASE a + 4 < AddrLimit
    <2>1. Wrap(a + 4) = a + 4
      BY <1>1, <1>2, WrapOnce
    <2> QED
      BY <1>1, <2>1
  <1>3. CASE a + 4 >= AddrLimit
    <2>1. Wrap(a + 4) = a + 4 - AddrLimit
      BY <1>1, <1>3, WrapOnce
    <2>2. Wrap(a + 8) = a + 8 - AddrLimit
      BY <1>1, <1>3, WrapOnce
    <2>3. Wrap((a + 4 - AddrLimit) + 4) = a + 8 - AddrLimit
      BY <1>1, <1>3, WrapOnce
    <2> QED
      BY <2>1, <2>2, <2>3
  <1> QED
    BY <1>1, <1>2, <1>3

(* An address is its own residue.                                          *)
LEMMA WrapAddress ==
  ASSUME NEW a \in Address
  PROVE  Wrap(a) = a
  <1>1. AddrLimit \in Nat /\ a \in Nat /\ a < AddrLimit
    BY AddressAssumption DEF Address
  <1> QED
    BY <1>1 DEF Wrap

(* The processor leaves reset with a pc just below the reset vector.       *)
LEMMA ResetAddress ==
  Wrap(ResetVector - 4) = ResetVector - 4 /\ Wrap(ResetVector) = ResetVector
  <1>1. ResetVector - 4 \in Address /\ ResetVector \in Address
    BY AddressAssumption DEF Address
  <1> QED
    BY <1>1, WrapAddress

(* J and JAL stay in their region, and so in the address space.            *)
LEMMA TargetInAddress ==
  ASSUME NEW a \in Address, ins \in Instr, ins.op \in {"j", "jal"}
  PROVE  Target(a) \in Address
  <1>1. Segment \in Nat \ {0} /\ a \in Nat /\ AddrLimit \in Nat
    BY AddressAssumption DEF Address
  <1>2. a % Segment \in Nat /\ a % Segment <= a
    BY <1>1
  <1>3. a - (a % Segment) + Segment <= AddrLimit
    BY AddressAssumption
  <1>4. ins.imm \in 0..(Segment - 1)
    BY CodeAssumption
  <1> QED
    BY <1>1, <1>2, <1>3, <1>4 DEF Target, Align, Address
-----------------------------------------------------------------------------
(* Type correctness                                                        *)

(* The instruction stream: what a fetch and the end of an iteration set.   *)
StreamOK ==
  /\ status \in {"running", "stopped", "exited", "aborted"}
  /\ clock \in Nat /\ (status # "running" => clock > 0)
  /\ until \in Nat /\ died \in BOOLEAN /\ (status = "exited" => died)
  /\ {ins, next_ins} \subseteq Instr
  /\ {pc, npc} \subseteq Address

HistoryOK ==
  /\ slot \in BOOLEAN
  /\ caller \in [reg : Reg, at : Address] \cup {NoCall}
  /\ victim \in Address \cup {NoAddr}
  /\ handlers \in [depth : 0..2, inner : BOOLEAN, outer : BOOLEAN]
  /\ stored \in SUBSET Memory

(* The data: what executing an instruction sets.                           *)
DataOK ==
  /\ regs \in [Reg -> Address]
  /\ epc \in Address /\ sr \in SUBSET Bits /\ cause \in SUBSET Bits
  /\ mem \in [Memory -> Instr]

(* The type invariant is the conjunction of its three parts.               *)
LEMMA TypeParts == TypeOK <=> StreamOK /\ HistoryOK /\ DataOK
  BY DEF TypeOK, StreamOK, HistoryOK, DataOK

(* The same in the next state.                                             *)
LEMMA TypePartsPrimed == TypeOK' <=> StreamOK' /\ HistoryOK' /\ DataOK'
  BY DEF TypeOK, StreamOK, HistoryOK, DataOK

(* Decoding an instruction gives registers of the machine.                 *)
LEMMA Decoded ==
  ASSUME TypeOK
  PROVE  /\ ins \in InstrType
         /\ {ins.s, ins.t, ins.d, RA} \subseteq Reg /\ ins.imm \in Int
         /\ ins.w \in {1, 2, 4}
  BY CodeAssumption, MachineAssumption DEF TypeOK, InstrType

(* An address leads to a word of memory, or to none.                       *)
LEMMA WordsInMemory == ASSUME NEW a PROVE WordsAt(a) \subseteq Memory
  BY DEF WordsAt, Memory

(* And to one word only.                                                   *)
LEMMA OneWord ==
  ASSUME NEW a, NEW h \in WordsAt(a)
  PROVE  WordsAt(a) = {h}
  BY DEF WordsAt

(* The memory and the open bus only hold instruction words.                *)
LEMMA FetchedIsCode ==
  ASSUME TypeOK, NEW a \in Address
  PROVE  Fetched(mem, a) \subseteq Instr
  <1>1. {mem[h] : h \in WordsAt(a)} \subseteq Instr
    BY WordsInMemory DEF TypeOK
  <1> QED
    BY <1>1, CodeAssumption DEF Fetched

(* A fetch moves pc into the address space and prefetches a word.          *)
LEMMA FetchTypes ==
  ASSUME TypeOK, Fetch
  PROVE  /\ status = "running" /\ until' \in Nat
         /\ clock' \in Nat /\ clock' > 0
         /\ next_ins' \in Instr /\ pc' = npc /\ npc \in Address
         /\ Sequel \in Address
  <1>1. npc \in Address /\ npc \in Int
    BY AddressAssumption DEF TypeOK, Address
  <1>2. Sequel \in Address
    BY <1>1, WrapInAddress DEF Sequel
  <1>3. Fetched(mem, npc) \subseteq Instr
    BY <1>1, FetchedIsCode
  <1> QED
    BY <1>1, <1>2, <1>3 DEF Fetch, TypeOK

(* Observing an instruction keeps the history well typed.                  *)
LEMMA HistoryTypes ==
  ASSUME TypeOK, Observe
  PROVE  HistoryOK'
  <1>1. slot' \in BOOLEAN
    BY DEF Observe
  <1>2. caller' \in [reg : Reg, at : Address] \cup {NoCall}
    <2>1. pc \in Address /\ ins.d \in Reg /\ RA \in Reg
      BY Decoded DEF TypeOK
    <2>2. caller \in [reg : Reg, at : Address] \cup {NoCall}
      BY DEF TypeOK
    <2> QED
      BY <2>1, <2>2 DEF Observe, Caller, Link
  <1>3. victim' \in Address \cup {NoAddr}
    BY DEF Observe, Victim, TypeOK
  <1>4. handlers' \in [depth : 0..2, inner : BOOLEAN, outer : BOOLEAN]
    <2>1. handlers \in [depth : 0..2, inner : BOOLEAN, outer : BOOLEAN]
      BY DEF TypeOK
    <2>2. On(IEc, sr) \in BOOLEAN
      BY DEF On
    <2>3. handlers.inner \in BOOLEAN /\ handlers.outer \in BOOLEAN
      BY <2>1
    <2> QED
      BY <2>1, <2>2, <2>3 DEF Observe, Handlers
  <1>5. stored' \in SUBSET Memory
    BY WordsInMemory DEF Observe
  <1> QED
    BY <1>1, <1>2, <1>3, <1>4, <1>5 DEF HistoryOK

(* An iteration that ends keeps the stream well typed.                     *)
LEMMA RetireTypes ==
  ASSUME TypeOK, Fetch, NEW next \in Address, Retire(next)
  PROVE  StreamOK' /\ HistoryOK'
  <1>1. HistoryOK'
    BY HistoryTypes DEF Retire
  <1>2. StreamOK'
    BY FetchTypes DEF Retire, StreamOK, TypeOK
  <1> QED
    BY <1>1, <1>2

(* So does one that ends the program.                                      *)
LEMMA EndTypes ==
  ASSUME TypeOK, Fetch, NEW how \in {"exited", "aborted"}, End(how)
  PROVE  TypeOK'
  <1>1. StreamOK'
    BY FetchTypes DEF End, StreamOK, TypeOK
  <1>2. HistoryOK' /\ DataOK'
    BY DEF End, HistoryOK, DataOK, TypeOK, history, cop0
  <1> QED
    BY <1>1, <1>2, TypePartsPrimed
(* Every instruction writes registers and memory of the right type.        *)
LEMMA TypeStep ==
  ASSUME TypeOK, [Next]_vars
  PROVE  TypeOK'
  <1> USE DEF SetReg
  <1>1. CASE Alu
    <2>1. StreamOK' /\ HistoryOK'
      BY <1>1, FetchTypes, RetireTypes DEF Alu
    <2>2. DataOK'
      BY <1>1, Decoded, MachineAssumption DEF Alu, DataOK, TypeOK, cop0
    <2> QED
      BY <2>1, <2>2, TypePartsPrimed
  <1>2. CASE Add
    <2> DEFINE sum == regs[ins.s]
                        + (IF ins.op = "add" THEN regs[ins.t] ELSE ins.imm)
    <2>1. CASE sum \in Address
      <3>1. /\ Fetch /\ SetReg(ins.d, sum) /\ Retire(Sequel)
            /\ UNCHANGED <<cop0, mem>>
        BY <1>2, <2>1 DEF Add
      <3>2. StreamOK' /\ HistoryOK'
        BY <3>1, FetchTypes, RetireTypes
      <3>3. DataOK'
        BY <2>1, <3>1, Decoded DEF DataOK, TypeOK, cop0
      <3> QED
        BY <3>2, <3>3, TypePartsPrimed
    <2>2. CASE sum \notin Address
      BY <1>2, <2>2, EndTypes DEF Add
    <2> QED
      BY <2>1, <2>2
  <1>3. CASE NoEffect
    BY <1>3, FetchTypes, RetireTypes, TypePartsPrimed
       DEF NoEffect, DataOK, TypeOK, cop0
  <1>4. CASE Div
    <2>1. CASE Fetch /\ Retire(Sequel) /\ UNCHANGED <<regs, cop0, mem>>
      BY <2>1, FetchTypes, RetireTypes, TypePartsPrimed
         DEF DataOK, TypeOK, cop0
    <2>2. CASE Fetch /\ End("aborted")
      BY <2>2, EndTypes
    <2> QED
      BY <1>4, <2>1, <2>2 DEF Div
  <1>5. CASE Jr
    <2>1. regs[ins.s] \in Address
      BY Decoded DEF TypeOK
    <2> QED
      BY <1>5, <2>1, RetireTypes, TypePartsPrimed
         DEF Jr, DataOK, TypeOK, cop0
  <1>6. CASE Jalr
    <2> DEFINE linked == [regs EXCEPT ![ins.d] = Sequel]
    <2>1. linked \in [Reg -> Address] /\ linked[ins.s] \in Address
      BY <1>6, FetchTypes, Decoded DEF Jalr, TypeOK
    <2>2. Fetch /\ regs' = linked /\ Retire(linked[ins.s])
            /\ UNCHANGED <<cop0, mem>>
      BY <1>6 DEF Jalr
    <2>3. StreamOK' /\ HistoryOK'
      BY <2>1, <2>2, RetireTypes
    <2>4. DataOK'
      BY <2>1, <2>2 DEF DataOK, TypeOK, cop0
    <2> QED
      BY <2>3, <2>4, TypePartsPrimed
  <1>7. CASE Jump
    <2>1. Target(npc) \in Address
      BY <1>7, FetchTypes, TargetInAddress DEF Jump, TypeOK
    <2>2. StreamOK' /\ HistoryOK'
      BY <1>7, <2>1, RetireTypes DEF Jump
    <2>3. DataOK'
      BY <1>7, FetchTypes, Decoded DEF Jump, DataOK, TypeOK, cop0
    <2> QED
      BY <2>2, <2>3, TypePartsPrimed
  <1>8. CASE Branch
    <2>1. Wrap(npc + ins.imm) \in Address
      <3>1. npc \in Int /\ ins.imm \in Int
        BY <1>8, FetchTypes, Decoded, AddressAssumption DEF Branch, Address
      <3> QED
        BY <3>1, WrapInAddress
    <2>2. StreamOK' /\ HistoryOK'
      BY <1>8, <2>1, FetchTypes, RetireTypes DEF Branch
    <2>3. DataOK'
      BY <1>8, FetchTypes, Decoded DEF Branch, DataOK, TypeOK, cop0
    <2> QED
      BY <2>2, <2>3, TypePartsPrimed
  <1>9. CASE Trap
    <2>1. StreamOK' /\ HistoryOK'
      BY <1>9, RetireTypes, AddressAssumption DEF Trap
    <2>2. DataOK'
      <3>1. sr' \in SUBSET Bits
        BY <1>9, PushModesBits DEF Trap, TypeOK
      <3>2. cause' \in SUBSET Bits
        <4>1. Syscall \in SUBSET (0..4)
          BY DEF Syscall
        <4> QED
          BY <1>9, <4>1, CauseRecorded DEF Trap, TypeOK
      <3> QED
        BY <1>9, <3>1, <3>2 DEF Trap, DataOK, TypeOK
    <2> QED
      BY <2>1, <2>2, TypePartsPrimed
  <1>10. CASE Load
    <2>1. CASE /\ Fetch /\ \E v \in Value : SetReg(ins.t, v)
               /\ Retire(Sequel) /\ UNCHANGED <<cop0, mem>>
      <3>1. StreamOK' /\ HistoryOK'
        BY <2>1, FetchTypes, RetireTypes
      <3>2. DataOK'
        BY <2>1, Decoded, MachineAssumption DEF DataOK, TypeOK, cop0
      <3> QED
        BY <3>1, <3>2, TypePartsPrimed
    <2>2. CASE Fetch /\ End("aborted")
      BY <2>2, EndTypes
    <2> QED
      BY <1>10, <2>1, <2>2 DEF Load
  <1>11. CASE Store
    <2>1. CASE /\ Fetch /\ Retire(Sequel) /\ UNCHANGED <<regs, cop0>>
               /\ \E h \in WordsAt(Effective), p \in Patch :
                    mem' = [mem EXCEPT ![h] = p]
      <3>1. StreamOK' /\ HistoryOK'
        BY <2>1, FetchTypes, RetireTypes
      <3>2. DataOK'
        BY <2>1, CodeAssumption DEF DataOK, TypeOK, cop0
      <3> QED
        BY <3>1, <3>2, TypePartsPrimed
    <2>2. CASE Fetch /\ Retire(Sequel) /\ UNCHANGED <<regs, cop0, mem>>
      BY <2>2, FetchTypes, RetireTypes, TypePartsPrimed
         DEF DataOK, TypeOK, cop0
    <2>3. CASE Fetch /\ End("aborted")
      BY <2>3, EndTypes
    <2> QED
      BY <1>11, <2>1, <2>2, <2>3 DEF Store
  <1>12. CASE ReturnFromException
    <2>1. StreamOK' /\ HistoryOK'
      BY <1>12, FetchTypes, RetireTypes DEF ReturnFromException
    <2>2. DataOK'
      BY <1>12, RfeBits DEF ReturnFromException, DataOK, TypeOK
    <2> QED
      BY <2>1, <2>2, TypePartsPrimed
  <1>13. CASE MoveFromCop0
    <2>1. StreamOK' /\ HistoryOK'
      BY <1>13, FetchTypes, RetireTypes DEF MoveFromCop0
    <2>2. PICK v \in IF ins.c = "EPC" THEN {epc} ELSE Value : SetReg(ins.t, v)
      BY <1>13 DEF MoveFromCop0
    <2>3. v \in Address
      BY <2>2, MachineAssumption DEF TypeOK
    <2>4. DataOK'
      BY <1>13, <2>2, <2>3, Decoded DEF MoveFromCop0, DataOK, TypeOK, cop0
    <2> QED
      BY <2>1, <2>4, TypePartsPrimed
  <1>14. CASE MoveToCop0
    <2>1. StreamOK' /\ HistoryOK'
      BY <1>14, FetchTypes, RetireTypes DEF MoveToCop0
    <2>2. DataOK'
      BY <1>14, Decoded, MachineAssumption
         DEF MoveToCop0, DataOK, TypeOK, cop0
    <2> QED
      BY <2>1, <2>2, TypePartsPrimed
  <1>15. CASE BadCop0
    <2>1. CASE Fetch /\ Retire(Sequel) /\ UNCHANGED <<regs, cop0, mem>>
      BY <2>1, FetchTypes, RetireTypes, TypePartsPrimed
         DEF DataOK, TypeOK, cop0
    <2>2. CASE Fetch /\ End("aborted")
      BY <2>2, EndTypes
    <2> QED
      BY <1>15, <2>1, <2>2 DEF BadCop0
  <1>16. CASE Unimplemented
    BY <1>16, EndTypes DEF Unimplemented
  <1>17. CASE FetchAborts
    BY <1>17 DEF FetchAborts, TypeOK, cop0, history
  <1>18. CASE RunOut
    BY <1>18 DEF RunOut, TypeOK, cop0, history
  <1>19. CASE Resume
    <2>1. clock' \in Nat /\ until' \in Nat
      BY <1>19, MachineAssumption DEF Resume, TypeOK
    <2> QED
      BY <1>19, <2>1 DEF Resume, TypeOK, cop0, history
  <1>20. CASE UNCHANGED vars
    BY <1>20 DEF TypeOK, vars, cop0, history
  <1> QED
    BY <1>1, <1>2, <1>3, <1>4, <1>5, <1>6, <1>7, <1>8, <1>9, <1>10, <1>11,
       <1>12, <1>13, <1>14, <1>15, <1>16, <1>17, <1>18, <1>19, <1>20
       DEF Next, Loop

(* Every board starts well typed.                                          *)
LEMMA TypeInit == Init => TypeOK
  <1> SUFFICES ASSUME Init PROVE TypeOK
    OBVIOUS
  <1>1. pc \in Address /\ epc \in Address /\ npc \in Address
    <2>1. 0 \in Address
      BY AddressAssumption DEF Address
    <2>2. ResetVector \in Address
      BY AddressAssumption
    <2>3. ResetVector - 4 \in Int
      BY <2>2, AddressAssumption DEF Address
    <2>4. Wrap(ResetVector - 4) \in Address
      BY <2>3, WrapInAddress
    <2> QED
      BY <2>1, <2>2, <2>4 DEF Init, PowerOn
  <1>2. regs \in [Reg -> Address]
    BY AddressAssumption DEF Init, PowerOn, Address
  <1>3. handlers \in [depth : 0..2, inner : BOOLEAN, outer : BOOLEAN]
    BY DEF Init, PowerOn
  <1>4. StreamOK
    BY <1>1, CodeAssumption, MachineAssumption DEF Init, PowerOn, StreamOK
  <1>5. HistoryOK
    BY <1>3 DEF Init, PowerOn, HistoryOK
  <1>6. DataOK
    BY <1>1, <1>2, CodeAssumption DEF Init, PowerOn, DataOK
  <1> QED
    BY <1>4, <1>5, <1>6, TypeParts

(* The registers, the pipeline and the history keep their types in every   *)
(* run of the interpreter loop, whatever the program.                      *)
THEOREM TypeCorrect == Spec => []TypeOK
  <1> QED
    BY TypeInit, TypeStep, PTL DEF Spec
-----------------------------------------------------------------------------
(* Control flow                                                            *)

(* What an instruction that retires does to each part of the machine.      *)
Retirement ==
  /\ Fetch /\ Observe /\ ins' = next_ins'
  /\ ins.op \notin Jumps => npc' = Sequel
  /\ \A r \in Reg \ Written : regs'[r] = regs[r]
  /\ ins.op \in Calls => regs'[Link] = Sequel
  /\ \A h \in Memory \ stored' : mem'[h] = mem[h]
  /\ CASE ins.op = "syscall" ->
            /\ epc' = npc
            /\ sr' = PushModes(sr)
            /\ cause' = RecordCause(cause, Syscall)
       [] ins.op = "rfe" -> sr' = Rfe(sr) /\ UNCHANGED <<epc, cause>>
       [] ins.op = "mtc" ->
            /\ ins.c # "SR" => UNCHANGED sr
            /\ ins.c \notin {"Cause", "EPC"} => UNCHANGED <<epc, cause>>
       [] OTHER -> UNCHANGED cop0

(* What an iteration of the loop that does not end the run changes.        *)
LEMMA Retired ==
  ASSUME TypeOK, Loop, status' = "running"
  PROVE  Retirement
  <1> USE DEF Retire, SetReg, Written, Link, Calls, Jumps, Retirement, cop0
  <1>1. Reg # {} /\ regs \in [Reg -> Address] /\ {ins.t, ins.d, RA} \subseteq Reg
    BY Decoded DEF TypeOK
  <1>2. CASE Alu
    BY <1>1, <1>2 DEF Alu, End
  <1>3. CASE Add
    BY <1>1, <1>3 DEF Add, End
  <1>4. CASE NoEffect
    BY <1>1, <1>4 DEF NoEffect, End
  <1>5. CASE Div
    BY <1>1, <1>5 DEF Div, End
  <1>6. CASE Jr
    BY <1>1, <1>6 DEF Jr, End
  <1>7. CASE Jalr
    BY <1>1, <1>7 DEF Jalr, End
  <1>8. CASE Jump
    BY <1>1, <1>8 DEF Jump, End
  <1>9. CASE Branch
    BY <1>1, <1>9 DEF Branch, End
  <1>10. CASE Trap
    BY <1>1, <1>10 DEF Trap, End
  <1>11. CASE Load
    BY <1>1, <1>11 DEF Load, End
  <1>12. CASE Store
    <2>1. CASE /\ Fetch /\ Retire(Sequel) /\ UNCHANGED <<regs, cop0>>
               /\ ~Isolated
               /\ \E h \in WordsAt(Effective), p \in Patch :
                    mem' = [mem EXCEPT ![h] = p]
      <3>1. stored' = WordsAt(Effective)
        BY <1>12, <2>1 DEF Observe, Store
      <3>2. \A h \in Memory \ stored' : mem'[h] = mem[h]
        BY <2>1, <3>1 DEF TypeOK
      <3> QED
        BY <1>12, <2>1, <3>2 DEF Store
    <2>2. CASE Fetch /\ Retire(Sequel) /\ UNCHANGED <<regs, cop0, mem>>
      BY <1>12, <2>2 DEF Store
    <2>3. CASE End("aborted")
      BY <2>3 DEF End
    <2> QED
      BY <1>12, <2>1, <2>2, <2>3 DEF Store
  <1>13. CASE ReturnFromException
    BY <1>1, <1>13 DEF ReturnFromException, End
  <1>14. CASE MoveFromCop0
    BY <1>1, <1>14 DEF MoveFromCop0, End
  <1>15. CASE MoveToCop0
    BY <1>1, <1>15 DEF MoveToCop0, End
  <1>16. CASE BadCop0
    BY <1>1, <1>16 DEF BadCop0, End
  <1>17. CASE Unimplemented \/ FetchAborts \/ RunOut
    BY <1>17 DEF Unimplemented, FetchAborts, RunOut, End
  <1> QED
    BY <1>2, <1>3, <1>4, <1>5, <1>6, <1>7, <1>8, <1>9, <1>10, <1>11, <1>12,
       <1>13, <1>14, <1>15, <1>16, <1>17 DEF Loop

(* The other steps end the run and leave the data and the history alone.   *)
LEMMA Ended ==
  ASSUME TypeOK, Loop, status' # "running"
  PROVE  /\ UNCHANGED <<ins, regs, cop0, mem, history>>
         /\ status' = "stopped" => UNCHANGED <<next_ins, pc, npc, died>>
         /\ status' = "exited" => pc' = npc /\ npc' = Sequel /\ died'
         /\ status = "running"
  <1> USE DEF Retire, End, Fetch
  <1>1. CASE Alu
    BY <1>1 DEF Alu
  <1>2. CASE Add
    BY <1>2 DEF Add
  <1>3. CASE NoEffect
    BY <1>3 DEF NoEffect
  <1>4. CASE Div
    BY <1>4 DEF Div
  <1>5. CASE Jr
    BY <1>5 DEF Jr
  <1>6. CASE Jalr
    BY <1>6 DEF Jalr
  <1>7. CASE Jump
    BY <1>7 DEF Jump
  <1>8. CASE Branch
    BY <1>8 DEF Branch
  <1>9. CASE Trap
    BY <1>9 DEF Trap
  <1>10. CASE Load
    BY <1>10 DEF Load
  <1>11. CASE Store
    BY <1>11 DEF Store
  <1>12. CASE ReturnFromException
    BY <1>12 DEF ReturnFromException
  <1>13. CASE MoveFromCop0
    BY <1>13 DEF MoveFromCop0
  <1>14. CASE MoveToCop0
    BY <1>14 DEF MoveToCop0
  <1>15. CASE BadCop0
    BY <1>15 DEF BadCop0
  <1>16. CASE Unimplemented
    BY <1>16 DEF Unimplemented
  <1>17. CASE FetchAborts
    BY <1>17 DEF FetchAborts
  <1>18. CASE RunOut
    BY <1>18 DEF RunOut
  <1> QED
    BY <1>1, <1>2, <1>3, <1>4, <1>5, <1>6, <1>7, <1>8, <1>9,
       <1>10, <1>11, <1>12, <1>13, <1>14, <1>15, <1>16, <1>17, <1>18 DEF Loop
-----------------------------------------------------------------------------
(* The prefetched instruction                                              *)

(* A step prefetches the word at its pc, and only stores over it.          *)
LEMMA PrefetchedStep ==
  ASSUME TypeOK, Prefetched, [Next]_vars
  PROVE  Prefetched'
  <1>1. CASE Loop /\ status' = "running"
    <2>1. /\ Retirement
          /\ next_ins' \in Fetched(mem, npc) /\ pc' = npc /\ npc \in Address
      BY <1>1, Retired, FetchTypes DEF Retirement, Fetch
    <2>2. CASE WordsAt(npc) \cap stored' # {}
      <3>1. (WordsAt(pc) \cap stored)' # {}
        BY <2>1, <2>2 DEF WordsAt, Align
      <3> QED
        BY <2>1, <3>1 DEF Prefetched, Retirement
    <2>3. CASE WordsAt(npc) \cap stored' = {}
      <3>1. \A h \in WordsAt(npc) : mem'[h] = mem[h]
        BY <2>1, <2>3, WordsInMemory DEF Retirement
      <3>2. Fetched(mem', npc) = Fetched(mem, npc)
        BY <3>1 DEF Fetched
      <3>3. ins' = next_ins' /\ ins' \in Fetched(mem', npc)
        BY <2>1, <3>2 DEF Retirement
      <3>4. Fetched(mem, pc)' = Fetched(mem', npc)
        BY <2>1 DEF Fetched, WordsAt, Align
      <3> QED
        BY <3>3, <3>4 DEF Prefetched
    <2> QED
      BY <2>2, <2>3
  <1>2. CASE Loop /\ status' # "running"
    <2>1. CASE status' = "stopped"
      BY <1>2, <2>1, Ended DEF Prefetched, Fetched, history
    <2>2. CASE status' # "stopped"
      BY <1>2, <2>2, Ended, TypeStep DEF Prefetched, TypeOK
    <2> QED
      BY <2>1, <2>2
  <1>3. CASE Resume
    BY <1>3 DEF Resume, Prefetched, Fetched, TypeOK, history
  <1>4. CASE UNCHANGED vars
    BY <1>4 DEF Prefetched, Fetched, vars, history
  <1> QED
    BY <1>1, <1>2, <1>3, <1>4 DEF Next

(* The word 0 stands for the prefetch at reset.                            *)
LEMMA PrefetchedInit == Init => Prefetched
  <1> SUFFICES ASSUME Init PROVE Prefetched
    OBVIOUS
  <1> QED
    BY ResetAddress DEF Init, PowerOn, Prefetched

(* For every program: the word about to execute is the word memory holds   *)
(* at pc, unless the last instruction stored over it.                      *)
THEOREM PrefetchedCorrect == Spec => []Prefetched
  BY TypeInit, TypeStep, PrefetchedInit, PrefetchedStep, PTL DEF Spec
-----------------------------------------------------------------------------
(* Links and traps                                                         *)

(* The three facts hold together: a link and EPC are right because the     *)
(* fetches were sequential up to the call or the syscall.                  *)
FlowInv == TypeOK /\ Sequential /\ ReturnAddress /\ TrapRecord

(* A step that does not transfer control sets npc behind pc.               *)
LEMMA SequentialStep ==
  ASSUME TypeOK, Sequential, [Next]_vars
  PROVE  Sequential'
  <1>1. CASE Loop /\ status' = "running"
    BY <1>1, Retired DEF Retirement, Observe, Fetch, Sequential, Sequel, Wrap
  <1>2. CASE Loop /\ status' # "running"
    BY <1>2, Ended, TypeStep DEF Sequential, TypeOK, history, Sequel, Wrap
  <1>3. CASE Resume
    BY <1>3 DEF Resume, Sequential, history, Wrap
  <1>4. CASE UNCHANGED vars
    BY <1>4 DEF Sequential, vars, history, Wrap
  <1> QED
    BY <1>1, <1>2, <1>3, <1>4 DEF Next

(* Behind an instruction that is not in a delay slot lies a whole one.     *)
LEMMA LinkValue ==
  ASSUME TypeOK, Sequential, Retirement, ~slot
  PROVE  npc = Wrap(pc + 4) /\ Sequel = Wrap(pc + 8)
  <1>1. npc = Wrap(pc + 4) /\ pc \in Address
    BY DEF Retirement, Fetch, Sequential, TypeOK
  <1> QED
    BY <1>1, WrapTwice DEF Sequel

(* A step links behind its delay slot or writes no link register.          *)
LEMMA ReturnAddressStep ==
  ASSUME TypeOK, Sequential, ReturnAddress, [Next]_vars
  PROVE  ReturnAddress'
  <1>1. CASE Loop /\ status' = "running"
    <2>1. Retirement
      BY <1>1, Retired
    <2>2. caller' = Caller
      BY <2>1 DEF Retirement, Observe
    <2>3. CASE ins.op \in Calls /\ ~slot
      <3>1. caller' = [reg |-> Link, at |-> pc]
        BY <2>2, <2>3 DEF Caller
      <3>2. regs'[Link] = Wrap(pc + 8)
        BY <2>1, <2>3, LinkValue DEF Retirement
      <3>3. caller'.reg = Link /\ caller'.at = pc
        BY <3>1
      <3> QED
        BY <3>2, <3>3 DEF ReturnAddress, Wrap
    <2>4. CASE ins.op \in Calls /\ slot
      BY <2>2, <2>4 DEF Caller, ReturnAddress
    <2>5. CASE ins.op \notin Calls /\ caller.reg \in Written
      BY <2>2, <2>5 DEF Caller, ReturnAddress
    <2>6. CASE ins.op \notin Calls /\ caller.reg \notin Written
      <3>1. caller' = caller
        BY <2>2, <2>6 DEF Caller
      <3>2. caller # NoCall => regs'[caller.reg] = regs[caller.reg]
        BY <2>1, <2>6 DEF Retirement, TypeOK
      <3> QED
        BY <3>1, <3>2 DEF ReturnAddress, Wrap
    <2> QED
      BY <2>3, <2>4, <2>5, <2>6
  <1>2. CASE Loop /\ status' # "running"
    BY <1>2, Ended DEF ReturnAddress, history, Wrap
  <1>3. CASE Resume
    BY <1>3 DEF Resume, ReturnAddress, history, Wrap
  <1>4. CASE UNCHANGED vars
    BY <1>4 DEF ReturnAddress, vars, history, Wrap
  <1> QED
    BY <1>1, <1>2, <1>3, <1>4 DEF Next

(* A step records its own trap or leaves the record of the last.           *)
LEMMA TrapRecordStep ==
  ASSUME TypeOK, Sequential, TrapRecord, [Next]_vars
  PROVE  TrapRecord'
  <1>1. CASE Loop /\ status' = "running"
    <2>1. Retirement /\ victim' = Victim
      BY <1>1, Retired DEF Retirement, Observe
    <2>2. CASE ins.op = "syscall" /\ ~slot
      <3>1. victim' = pc /\ epc' = npc /\ cause' = RecordCause(cause, Syscall)
        BY <2>1, <2>2 DEF Retirement, Victim
      <3>2. epc' = Wrap(pc + 4)
        BY <2>1, <2>2, <3>1, LinkValue
      <3>3. Get(ExcCode, RecordCause(cause, Syscall)) = Syscall
        <4>1. Syscall \in SUBSET (0..4) /\ cause \in SUBSET Bits
          BY DEF Syscall, TypeOK
        <4> QED
          BY <4>1, CauseRecorded
      <3> QED
        BY <3>1, <3>2, <3>3 DEF TrapRecord, Wrap, Get
    <2>3. CASE ins.op = "syscall" /\ slot
      BY <2>1, <2>3 DEF Victim, TrapRecord
    <2>4. CASE ins.op = "mtc" /\ ins.c \in {"Cause", "EPC"}
      BY <2>1, <2>4 DEF Victim, TrapRecord
    <2>5. CASE /\ ins.op # "syscall"
               /\ ~(ins.op = "mtc" /\ ins.c \in {"Cause", "EPC"})
      <3>1. victim' = victim
        BY <2>1, <2>5 DEF Victim
      <3>2. UNCHANGED <<epc, cause>>
        BY <2>1, <2>5 DEF Retirement, cop0
      <3> QED
        BY <3>1, <3>2 DEF TrapRecord, Wrap, Get
    <2> QED
      BY <2>2, <2>3, <2>4, <2>5
  <1>2. CASE Loop /\ status' # "running"
    BY <1>2, Ended DEF TrapRecord, history, cop0, Wrap, Get
  <1>3. CASE Resume
    BY <1>3 DEF Resume, TrapRecord, history, cop0, Wrap, Get
  <1>4. CASE UNCHANGED vars
    BY <1>4 DEF TrapRecord, vars, history, cop0, Wrap, Get
  <1> QED
    BY <1>1, <1>2, <1>3, <1>4 DEF Next

(* The machine leaves reset without a call or a trap to remember.          *)
LEMMA FlowInit == Init => FlowInv
  <1> SUFFICES ASSUME Init PROVE FlowInv
    OBVIOUS
  <1>1. ResetVector \in Nat /\ ResetVector < AddrLimit /\ ResetVector >= 4
    BY AddressAssumption DEF Address
  <1>2. Sequential
    BY <1>1, ResetAddress DEF Init, PowerOn, Sequential
  <1> QED
    BY <1>2, TypeInit DEF FlowInv, Init, PowerOn, ReturnAddress, TrapRecord

(* The inductive invariant of the control flow holds in every run.         *)
THEOREM FlowCorrect == Spec => []FlowInv
  <1>1. FlowInv /\ [Next]_vars => FlowInv'
    BY TypeStep, SequentialStep, ReturnAddressStep, TrapRecordStep DEF FlowInv
  <1> QED
    BY <1>1, FlowInit, PTL DEF Spec

(* For every program: a link register that was not overwritten returns     *)
(* behind the delay slot of its call.                                      *)
THEOREM ReturnAddressCorrect == Spec => []ReturnAddress
  BY FlowCorrect, PTL DEF FlowInv

(* For every program: EPC and Cause describe the last trap until software  *)
(* writes them.                                                            *)
THEOREM TrapRecordCorrect == Spec => []TrapRecord
  BY FlowCorrect, PTL DEF FlowInv

(* For every program: only jumps, branches and traps divert the fetches.   *)
THEOREM SequentialCorrect == Spec => []Sequential
  BY FlowCorrect, PTL DEF FlowInv
-----------------------------------------------------------------------------
(* Modes                                                                   *)

(* The mode fields of SR are its bits 0, 1, 2 and 4.                       *)
LEMMA ModeBits ==
  ASSUME NEW v \in SUBSET Bits
  PROVE  /\ (On(IEc, v) <=> 0 \in v) /\ (On(KUc, v) <=> 1 \in v)
         /\ (On(IEp, v) <=> 2 \in v) /\ (On(IEo, v) <=> 4 \in v)
  BY WordOfBits, BitSet DEF IEc, KUc, IEp, IEo

(* ModeStack in terms of the bits.                                         *)
ModeStackBits ==
  /\ handlers.depth >= 1 =>
       0 \notin sr /\ 1 \in sr /\ (2 \in sr <=> handlers.inner)
  /\ handlers.depth = 2 =>
       ~handlers.inner /\ (4 \in sr <=> handlers.outer)

(* The mode stack in terms of the bits of SR.                              *)
LEMMA ModeStackInBits ==
  ASSUME TypeOK
  PROVE  ModeStack <=> ModeStackBits
  <1>1. sr \in SUBSET Bits /\ handlers.inner \in BOOLEAN
          /\ handlers.outer \in BOOLEAN
    BY DEF TypeOK
  <1> QED
    BY <1>1, ModeBits DEF ModeStack, ModeStackBits

(* The same in the next state.                                             *)
LEMMA ModeStackInBitsPrimed ==
  ASSUME TypeOK'
  PROVE  ModeStack' <=> ModeStackBits'
  <1>1. sr' \in SUBSET Bits /\ handlers'.inner \in BOOLEAN
          /\ handlers'.outer \in BOOLEAN
    BY DEF TypeOK
  <1>2. /\ (On(IEc, sr)' <=> 0 \in sr') /\ (On(KUc, sr)' <=> 1 \in sr')
        /\ (On(IEp, sr)' <=> 2 \in sr') /\ (On(IEo, sr)' <=> 4 \in sr')
    <2>1. /\ (On(IEc, sr') <=> 0 \in sr') /\ (On(KUc, sr') <=> 1 \in sr')
          /\ (On(IEp, sr') <=> 2 \in sr') /\ (On(IEo, sr') <=> 4 \in sr')
      BY <1>1, ModeBits
    <2> QED
      BY <2>1 DEF On, Get, IEc, KUc, IEp, IEo
  <1> QED
    BY <1>1, <1>2 DEF ModeStack, ModeStackBits

(* Traps push, rfe pops and MTC0 forgets the interrupted programs.         *)
LEMMA ModeStackStep ==
  ASSUME TypeOK, ModeStack, [Next]_vars
  PROVE  ModeStack'
  <1>1. TypeOK' /\ ModeStackBits
    BY TypeStep, ModeStackInBits
  <1>2. handlers \in [depth : 0..2, inner : BOOLEAN, outer : BOOLEAN]
          /\ sr \in SUBSET Bits
    BY DEF TypeOK
  <1>3. CASE Loop /\ status' = "running"
    <2>1. Retirement /\ handlers' = Handlers
      BY <1>3, Retired DEF Retirement, Observe
    <2>2. CASE ins.op = "syscall"
      <3>1. /\ 0 \notin sr' /\ 1 \in sr'
            /\ 2 \in sr' <=> 0 \in sr
            /\ 4 \in sr' <=> 2 \in sr
        <4>1. sr' = PushModes(sr)
          BY <2>1, <2>2 DEF Retirement
        <4> QED
          BY <1>2, <4>1, PushModesBits
      <3>2. handlers' = [depth |-> IF handlers.depth = 0 THEN 1 ELSE 2,
                         inner |-> On(IEc, sr), outer |-> handlers.inner]
        BY <2>1, <2>2 DEF Handlers
      <3>3. (On(IEc, sr) <=> 0 \in sr)
        BY <1>2, ModeBits
      <3>4. /\ handlers'.depth = IF handlers.depth = 0 THEN 1 ELSE 2
            /\ handlers'.inner <=> 0 \in sr
            /\ handlers'.outer <=> handlers.inner
        BY <3>2, <3>3
      <3>5. handlers'.depth = 2 => handlers.depth >= 1
        BY <1>2, <3>4
      <3>6. ModeStackBits'
        BY <1>1, <3>1, <3>4, <3>5 DEF ModeStackBits
      <3> QED
        BY <1>1, <3>6, ModeStackInBitsPrimed
    <2>3. CASE ins.op = "rfe"
      <3>1. /\ 0 \in sr' <=> 0 \in sr \/ 2 \in sr
            /\ 1 \in sr => 1 \in sr'
            /\ 2 \in sr' <=> 2 \in sr \/ 4 \in sr
        <4>1. sr' = Rfe(sr)
          BY <2>1, <2>3 DEF Retirement
        <4> QED
          BY <1>2, <4>1, RfeBits
      <3>2. handlers' = [depth |-> IF handlers.depth = 2 THEN 1 ELSE 0,
                         inner |-> handlers.outer, outer |-> handlers.outer]
        BY <2>1, <2>3 DEF Handlers
      <3>3. /\ handlers'.depth = IF handlers.depth = 2 THEN 1 ELSE 0
            /\ handlers'.inner <=> handlers.outer
        BY <3>2
      <3>4. ModeStackBits'
        BY <1>1, <3>1, <3>3 DEF ModeStackBits
      <3> QED
        BY <1>1, <3>4, ModeStackInBitsPrimed
    <2>4. CASE ins.op = "mtc" /\ ins.c = "SR"
      <3>1. handlers'.depth = 0
        BY <1>2, <2>1, <2>4 DEF Handlers
      <3>2. ModeStackBits'
        BY <3>1 DEF ModeStackBits
      <3> QED
        BY <1>1, <3>2, ModeStackInBitsPrimed
    <2>5. CASE ins.op \notin {"syscall", "rfe"}
                 /\ ~(ins.op = "mtc" /\ ins.c = "SR")
      <3>1. UNCHANGED <<sr, handlers>>
        BY <2>1, <2>5 DEF Retirement, Handlers, cop0
      <3>2. ModeStackBits'
        BY <1>1, <3>1 DEF ModeStackBits
      <3> QED
        BY <1>1, <3>2, ModeStackInBitsPrimed
    <2> QED
      BY <2>2, <2>3, <2>4, <2>5
  <1>4. CASE UNCHANGED <<sr, handlers>>
    <2>1. ModeStackBits'
      BY <1>1, <1>4 DEF ModeStackBits
    <2> QED
      BY <1>1, <2>1, ModeStackInBitsPrimed
  <1>5. CASE Loop /\ status' # "running"
    BY <1>4, <1>5, Ended DEF cop0, history
  <1>6. CASE UNCHANGED vars
    BY <1>4, <1>6 DEF vars, cop0, history
  <1>7. CASE Resume
    BY <1>4, <1>7 DEF Resume, cop0, history
  <1> QED
    BY <1>3, <1>5, <1>6, <1>7 DEF Next

(* For every program: handlers run in kernel mode with interrupts off, and *)
(* SR remembers what they interrupted, two deep.                           *)
THEOREM ModeStackCorrect == Spec => []ModeStack
  <1>1. Init => ModeStack
    BY DEF Init, PowerOn, ModeStack
  <1> QED
    BY <1>1, TypeInit, TypeStep, ModeStackStep, PTL DEF Spec

(* For every program: the rfe that ends a handler gives back the interrupt *)
(* enable of the program it interrupted.                                   *)
THEOREM InterruptEnableCorrect == Spec => InterruptEnableRestored
  <1>1. ASSUME TypeOK, ModeStack, Next
        PROVE  Retires /\ ins.op = "rfe" /\ handlers.depth >= 1 =>
                 (On(IEc, sr') <=> handlers.inner)
    <2> SUFFICES ASSUME Retires, ins.op = "rfe", handlers.depth >= 1
                 PROVE  On(IEc, sr') <=> handlers.inner
      OBVIOUS
    <2>1. sr' = Rfe(sr) /\ sr \in SUBSET Bits
      BY <1>1, Retired DEF Next, Resume, Retires, Retirement, TypeOK
    <2>2. sr' \in SUBSET Bits /\ (0 \in sr' <=> 0 \in sr \/ 2 \in sr)
      BY <2>1, RfeBits
    <2>3. 0 \notin sr /\ (2 \in sr <=> handlers.inner)
      BY <1>1, ModeStackInBits DEF ModeStackBits
    <2> QED
      BY <2>2, <2>3, ModeBits
  <1> QED
    BY <1>1, TypeCorrect, ModeStackCorrect, PTL DEF Spec, InterruptEnableRestored
-----------------------------------------------------------------------------
(* The instruction that killed the machine                                 *)

(* What makes an instruction end the process by std::exit, in terms of the *)
(* machine's registers: it depends on nothing else.                        *)
Fatal ==
  \/ ins.op = "reserved"
  \/ /\ ins.op \in {"add", "addi"}
     /\ regs[ins.s] + (IF ins.op = "add" THEN regs[ins.t] ELSE ins.imm)
          \notin Address

(* The machine that died stands at a fatal instruction.                    *)
DeathInv == died => Fatal

(* A fatal instruction does not retire.                                    *)
LEMMA FatalEnds ==
  ASSUME TypeOK, Fatal, Loop
  PROVE  status' # "running"
  <1> USE DEF Fatal
  <1>1. CASE ins.op = "reserved"
    BY <1>1 DEF Loop, Alu, Add, NoEffect, Div, Jr, Jalr, Jump, Branch, Trap,
                Load, Store, ReturnFromException, MoveFromCop0, MoveToCop0,
                BadCop0, Unimplemented, FetchAborts, RunOut, End
  <1>2. CASE /\ ins.op \in {"add", "addi"}
             /\ regs[ins.s] + (IF ins.op = "add" THEN regs[ins.t] ELSE ins.imm)
                  \notin Address
    BY <1>2 DEF Loop, Alu, Add, NoEffect, Div, Jr, Jalr, Jump, Branch, Trap,
                Load, Store, ReturnFromException, MoveFromCop0, MoveToCop0,
                BadCop0, Unimplemented, FetchAborts, RunOut, End
  <1> QED
    BY <1>1, <1>2

(* Only a fatal instruction exits: the other ends are aborts or deadlines. *)
LEMMA ExitIsFatal ==
  ASSUME TypeOK, Loop, status' # "running", died'
  PROVE  died \/ Fatal
  BY DEF Loop, Alu, Add, NoEffect, Div, Jr, Jalr, Jump, Branch, Trap,
         Load, Store, ReturnFromException, MoveFromCop0, MoveToCop0,
         BadCop0, Unimplemented, FetchAborts, RunOut, End, Retire, Fetch, Fatal

(* A dead machine stays at its instruction, in every process.              *)
LEMMA DeathStep ==
  ASSUME TypeOK, DeathInv, [Next]_vars
  PROVE  DeathInv' /\ (died => UNCHANGED <<ins, regs, cop0, mem>>)
  <1>1. CASE Loop /\ status' = "running"
    <2>1. ~died
      BY <1>1, FatalEnds DEF DeathInv
    <2>2. died' = died
      BY <1>1 DEF Loop, Alu, Add, NoEffect, Div, Jr, Jalr, Jump, Branch, Trap,
         Load, Store, ReturnFromException, MoveFromCop0, MoveToCop0,
         BadCop0, Unimplemented, FetchAborts, RunOut, End, Retire
    <2> QED
      BY <2>1, <2>2 DEF DeathInv
  <1>2. CASE Loop /\ status' # "running"
    <2>1. UNCHANGED <<ins, regs, cop0, mem>>
      BY <1>2, Ended
    <2>2. died' => Fatal
      BY <1>2, ExitIsFatal DEF DeathInv
    <2> QED
      BY <2>1, <2>2 DEF DeathInv, Fatal
  <1>3. CASE Resume
    BY <1>3 DEF Resume, DeathInv, Fatal
  <1>4. CASE UNCHANGED vars
    BY <1>4 DEF vars, DeathInv, Fatal
  <1> QED
    BY <1>1, <1>2, <1>3, <1>4 DEF Next

(* For every program: a machine that died of an instruction never gets     *)
(* beyond it, however often its dump is resumed.                           *)
THEOREM DiesAgainCorrect == Spec => DiesAgain
  <1>1. Init => DeathInv
    BY DEF Init, PowerOn, DeathInv
  <1>2. ASSUME TypeOK, DeathInv, [Next]_vars
        PROVE  DeathInv' /\ [died => UNCHANGED <<ins, regs, cop0, mem>>]_vars
    BY <1>2, DeathStep
  <1> QED
    BY <1>1, <1>2, TypeCorrect, PTL DEF Spec, DiesAgain
=============================================================================
