-------------------------------- MODULE Cpu ---------------------------------
(***************************************************************************)
(* The interpreter loop cpu::mips::run (src/src/cpu/cpu.cpp): a two stage  *)
(* pipeline in which one iteration fetches the word at npc and then        *)
(* executes the word fetched by the iteration before, so that the          *)
(* instruction behind a jump, a branch or a trap always executes.          *)
(*                                                                         *)
(* Control is kept in full; the words computed by ALU instructions, loaded *)
(* from memory or written to SR and Cause are any of a set of values, and  *)
(* an instruction is a record of its class, registers and offset.          *)
(***************************************************************************)
EXTENDS Cop0

CONSTANTS
  AddrLimit,     \* one past the highest address, 2^32 in the code
  Segment,       \* the region J and JAL stay in, 2^28 in the code
  Mapped,        \* the word addresses with a device behind them
  Home,          \* the memory word behind a mapped address: mirrors share it
  Edge,          \* the last, inclusive, address of each bus range: see Aborts
  PortWord,      \* the mapped words of a device with data ports
  Asserts,       \* is assert() compiled in (NDEBUG not defined)?
  Reg,           \* register numbers
  Value,         \* what an ALU instruction, a load or MFC0 may produce
  CopValue,      \* what MTC0 may leave in SR or in Cause
  Instr,         \* the instruction words that may be in memory
  Noop,          \* the word 0
  OpenBus,       \* the word an unmapped fetch returns, 0xffffffff
  Patch,         \* the words a store may leave in memory
  Images,        \* the memory contents the machine may start with
  ResetVector, ExcVector, RomExcVector,
  Deadlines      \* the values of run's argument

RA == 31

Address == 0..(AddrLimit - 1)

(* The words of the board's memory.  psx::psx connects RAM and ROM at      *)
(* three addresses each, so several addresses lead to one word.            *)
Memory == {Home[a] : a \in Mapped}

Op == {"none", "alu", "add", "addi", "div", "jr", "jalr", "j", "jal",
       "branch", "brlink", "syscall", "load", "store", "rfe", "mfc", "mtc",
       "badcop", "reserved"}

CopReg == {"SR", "Cause", "EPC", "other"}

(* s, t, d are the decoder's rs(), rt() and the destination register, imm  *)
(* the signed offset of loads, stores and branches or the shifted target   *)
(* of J and JAL, w the size of the access, c the COP0 register.            *)
InstrType == [op : Op, s : Reg, t : Reg, d : Reg, imm : Int, w : {1, 2, 4},
              c : CopReg]

ASSUME AddressAssumption ==
  /\ AddrLimit \in Nat /\ AddrLimit >= 8 /\ Segment \in Nat \ {0}
  /\ \A a \in Address : (a - (a % Segment)) + Segment <= AddrLimit
  /\ {ResetVector, ExcVector, RomExcVector} \subseteq Address
  /\ ResetVector >= 4 /\ ResetVector - 4 \notin Edge

ASSUME MachineAssumption ==
  /\ Asserts \in BOOLEAN
  /\ Reg \subseteq 0..31 /\ {0, RA} \subseteq Reg
  /\ Mapped \subseteq {a \in Address : a % 4 = 0}
  /\ Home \in [Mapped -> Mapped]
  /\ PortWord \subseteq Mapped
  /\ Edge \subseteq Address
  /\ Value \subseteq Address
  /\ CopValue \subseteq SUBSET Bits
  /\ Deadlines \subseteq Nat

ASSUME CodeAssumption ==
  /\ Instr \subseteq InstrType
  /\ {Noop, OpenBus} \subseteq Instr
  /\ Patch \subseteq Instr
  /\ Images \subseteq [Memory -> Instr]
  /\ \A i \in Instr : i.op \in {"j", "jal"} => i.imm \in 0..(Segment - 1)

VARIABLES
  status,   \* "running", or how the run ended
  clock, until,
  died,     \* history: an instruction has ended a process by std::exit
  ins, pc, next_ins, npc,
  regs,
  sr, cause, epc,
  mem,
  \* history of the executed instructions; no action of the code reads it
  slot,     \* the next instruction follows a jump, a branch or a trap
  caller,   \* the last call whose link register still holds its link
  victim,   \* the trapping instruction EPC and Cause still describe
  handlers, \* IEc at the (up to two) innermost traps not yet returned from
  stored    \* the word of Memory the last instruction wrote, if any

cop0 == <<sr, cause, epc>>
history == <<slot, caller, victim, handlers, stored>>
vars == <<status, clock, until, died, ins, pc, next_ins, npc, regs, cop0, mem,
          history>>

NoAddr == -1
NoCall == [reg |-> -1, at |-> NoAddr]
-----------------------------------------------------------------------------
(* Addresses                                                               *)

(* Faulty variant: program counters that do not wrap.                      *)
Unwrapped(a) == a

Wrap(a) == a % AddrLimit

Align(a, w) == a - (a % w)

(* The word of memory an address leads to, if any.                         *)
WordsAt(a) == {Home[b] : b \in {Align(a, 4)} \cap Mapped}

(* What the bus returns for an instruction fetch.  Only loads and stores   *)
(* are aligned by the cpu: an unaligned fetch mixes two words.             *)
Fetched(m, a) ==
  IF WordsAt(a) = {} THEN {OpenBus}
  ELSE IF a % 4 = 0 THEN {m[h] : h \in WordsAt(a)} ELSE Instr

(* The data address of a load or a store, cut to its alignment.            *)
Effective == Align(Wrap(regs[ins.s] + ins.imm), ins.w)

(* Isolating the cache makes the cpu drop its writes.                      *)
Isolated == On(IsC, sr)

(* The bus ranges include their end, which is one past the memory of the   *)
(* device: gsl::span terminates the program there.                         *)
Aborts(a) == a \in Edge

Target(a) == Align(a, Segment) + ins.imm

(* Faulty variant: npc is not advanced.                                    *)
Stuck == npc

Sequel == Wrap(npc + 4)
-----------------------------------------------------------------------------
(* History                                                                 *)

Jumps == {"jr", "jalr", "j", "jal", "branch", "brlink", "syscall"}

Calls == {"jal", "jalr", "brlink"}

Link == IF ins.op = "jalr" THEN ins.d ELSE RA

Written ==
  CASE ins.op \in {"alu", "add", "addi"} -> {ins.d}
    [] ins.op \in {"load", "mfc"}        -> {ins.t}
    [] ins.op \in Calls                  -> {Link}
    [] OTHER                             -> {}

Caller ==
  IF ins.op \in Calls THEN IF slot THEN NoCall ELSE [reg |-> Link, at |-> pc]
  ELSE IF caller.reg \in Written THEN NoCall ELSE caller

Victim ==
  CASE ins.op = "syscall" -> IF slot THEN NoAddr ELSE pc
    [] ins.op = "mtc" /\ ins.c \in {"Cause", "EPC"} -> NoAddr
    [] OTHER -> victim

Handlers ==
  CASE ins.op = "syscall" ->
         [depth |-> IF handlers.depth = 0 THEN 1 ELSE 2,
          inner |-> On(IEc, sr), outer |-> handlers.inner]
    [] ins.op = "rfe" ->
         [depth |-> IF handlers.depth = 2 THEN 1 ELSE 0,
          inner |-> handlers.outer, outer |-> handlers.outer]
    [] ins.op = "mtc" /\ ins.c = "SR" -> [handlers EXCEPT !.depth = 0]
    [] OTHER -> handlers

Observe ==
  /\ slot' = (ins.op \in Jumps)
  /\ caller' = Caller
  /\ victim' = Victim
  /\ handlers' = Handlers
  /\ stored' = IF ins.op = "store" /\ ~Isolated
               THEN WordsAt(Effective) ELSE {}
-----------------------------------------------------------------------------
(* One iteration of the loop                                               *)

(* Faulty variants: the fetch comes after npc is advanced; the clock       *)
(* stands still.                                                           *)
FetchLate ==
  /\ status = "running" /\ clock < until /\ ~Aborts(npc)
  /\ clock' = clock + 1
  /\ next_ins' \in Fetched(mem, Sequel)
  /\ pc' = npc
  /\ UNCHANGED until

FetchUntimed ==
  /\ status = "running" /\ clock < until /\ ~Aborts(npc)
  /\ next_ins' \in Fetched(mem, npc)
  /\ pc' = npc
  /\ UNCHANGED <<clock, until>>

Fetch ==
  /\ status = "running"
  /\ clock < until
  /\ ~Aborts(npc)
  /\ clock' = clock + 1
  /\ next_ins' \in Fetched(mem, npc)
  /\ pc' = npc
  /\ UNCHANGED until

(* The end of an iteration: the fetched word becomes the current one.      *)
Retire(next) ==
  /\ npc' = next
  /\ ins' = next_ins'
  /\ Observe
  /\ UNCHANGED <<status, died>>

(* Faulty variant: the instruction that ends the process is retired.       *)
EndRetires(how) ==
  /\ status' = how
  /\ npc' = Sequel
  /\ ins' = next_ins'
  /\ died' = (died \/ how = "exited")
  /\ UNCHANGED <<regs, cop0, mem, history>>

(* std::exit, or an abnormal end, in the middle of an iteration.           *)
End(how) ==
  /\ status' = how
  /\ npc' = Sequel
  /\ died' = (died \/ how = "exited")
  /\ UNCHANGED <<ins, regs, cop0, mem, history>>

SetReg(r, v) == regs' = [regs EXCEPT ![r] = v]

Alu ==
  /\ Fetch
  /\ ins.op = "alu"
  /\ \E v \in Value : SetReg(ins.d, v)
  /\ Retire(Sequel)
  /\ UNCHANGED <<cop0, mem>>

(* ADD, ADDI: the result must fit an unsigned word, and an overflow is     *)
(* fatal to the emulator.                                                  *)
Add ==
  LET sum == regs[ins.s] + (IF ins.op = "add" THEN regs[ins.t] ELSE ins.imm)
  IN  /\ Fetch
      /\ ins.op \in {"add", "addi"}
      /\ \/ /\ sum \in Address
            /\ SetReg(ins.d, sum)
            /\ Retire(Sequel)
            /\ UNCHANGED <<cop0, mem>>
         \/ /\ sum \notin Address
            /\ End("exited")

(* MULT, MULTU, MTHI, MTLO only write hi and lo, which are not carried;    *)
(* instructions of COP1, COP2 and COP3 are skipped with a warning; and the *)
(* word 0 shifts register 0 by nothing into itself.                        *)
NoEffect ==
  /\ Fetch
  /\ ins.op = "none"
  /\ Retire(Sequel)
  /\ UNCHANGED <<regs, cop0, mem>>

(* DIV, DIVU: a zero divisor, or a quotient that does not fit, raises      *)
(* SIGFPE in the host.  imm tells DIV (0) from DIVU (1).                   *)
Div ==
  LET traps == \/ regs[ins.t] = 0
               \/ /\ ins.imm = 0
                  /\ 2 * regs[ins.s] = AddrLimit
                  /\ regs[ins.t] = AddrLimit - 1
  IN  /\ Fetch
      /\ ins.op = "div"
      /\ \/ ~traps /\ Retire(Sequel) /\ UNCHANGED <<regs, cop0, mem>>
         \/ traps /\ End("aborted")

(* JR *)
Jr ==
  /\ Fetch
  /\ ins.op = "jr"
  /\ Retire(regs[ins.s])
  /\ UNCHANGED <<regs, cop0, mem>>

(* JALR: the link register is written before the target is read.          *)
Jalr ==
  LET linked == [regs EXCEPT ![ins.d] = Sequel]
  IN  /\ Fetch
      /\ ins.op = "jalr"
      /\ regs' = linked
      /\ Retire(linked[ins.s])
      /\ UNCHANGED <<cop0, mem>>

(* Faulty variant: the link is the delay slot.                             *)
JumpLinksSlot ==
  /\ Fetch
  /\ ins.op \in {"jal", "j"}
  /\ IF ins.op = "jal" THEN SetReg(RA, npc) ELSE UNCHANGED regs
  /\ Retire(Target(npc))
  /\ UNCHANGED <<cop0, mem>>

(* JAL and J, which it falls through to.                                  *)
Jump ==
  /\ Fetch
  /\ ins.op \in {"jal", "j"}
  /\ IF ins.op = "jal" THEN SetReg(RA, Sequel) ELSE UNCHANGED regs
  /\ Retire(Target(npc))
  /\ UNCHANGED <<cop0, mem>>

(* BEQ, BNE, BLEZ, BGTZ, BGEZ, BLTZ and the linking BGEZAL, BLTZAL; the    *)
(* condition is left open.                                                 *)
Branch ==
  /\ Fetch
  /\ ins.op \in {"branch", "brlink"}
  /\ IF ins.op = "brlink" THEN SetReg(RA, Sequel) ELSE UNCHANGED regs
  /\ \/ Retire(Wrap(npc + ins.imm))
     \/ Retire(Sequel)
  /\ UNCHANGED <<cop0, mem>>

(* Faulty variant: EPC is the next address to fetch.                       *)
TrapLate ==
  /\ Fetch
  /\ ins.op = "syscall"
  /\ epc' = Sequel
  /\ sr' = PushModes(sr)
  /\ cause' = RecordCause(cause, Syscall)
  /\ Retire(IF On(BEV, sr') THEN RomExcVector ELSE ExcVector)
  /\ UNCHANGED <<regs, mem>>

(* SYSCALL: mips::trap.                                                    *)
Trap ==
  /\ Fetch
  /\ ins.op = "syscall"
  /\ epc' = npc
  /\ sr' = PushModes(sr)
  /\ cause' = RecordCause(cause, Syscall)
  /\ Retire(IF On(BEV, sr') THEN RomExcVector ELSE ExcVector)
  /\ UNCHANGED <<regs, mem>>

Load ==
  /\ Fetch
  /\ ins.op = "load"
  /\ \/ /\ ~Aborts(Effective)
        /\ \E v \in Value : SetReg(ins.t, v)
        /\ Retire(Sequel)
        /\ UNCHANGED <<cop0, mem>>
     \/ /\ Aborts(Effective)
        /\ End("aborted")

(* A store of a device with ports may fail the assertion of the bus, when  *)
(* it is compiled in (DataBus says when it does).  Whatever the address,   *)
(* the word changes at all its mirrors.                                    *)
Store ==
  LET reaches == ~Isolated /\ ~Aborts(Effective)
  IN  /\ Fetch
      /\ ins.op = "store"
      /\ \/ /\ reaches
            /\ \E h \in WordsAt(Effective), p \in Patch :
                 mem' = [mem EXCEPT ![h] = p]
            /\ Retire(Sequel)
            /\ UNCHANGED <<regs, cop0>>
         \/ /\ Isolated \/ (reaches /\ WordsAt(Effective) = {})
            /\ Retire(Sequel)
            /\ UNCHANGED <<regs, cop0, mem>>
         \/ /\ \/ ~Isolated /\ Aborts(Effective)
               \/ reaches /\ Align(Effective, 4) \in PortWord /\ Asserts
            /\ End("aborted")

(* RFE *)
ReturnFromException ==
  /\ Fetch
  /\ ins.op = "rfe"
  /\ sr' = Rfe(sr)
  /\ Retire(Sequel)
  /\ UNCHANGED <<regs, cause, epc, mem>>

MoveFromCop0 ==
  /\ Fetch
  /\ ins.op = "mfc"
  /\ \E v \in IF ins.c = "EPC" THEN {epc} ELSE Value : SetReg(ins.t, v)
  /\ Retire(Sequel)
  /\ UNCHANGED <<cop0, mem>>

MoveToCop0 ==
  /\ Fetch
  /\ ins.op = "mtc"
  /\ \/ ins.c = "SR" /\ sr' \in CopValue /\ UNCHANGED <<cause, epc>>
     \/ ins.c = "Cause" /\ cause' \in CopValue /\ UNCHANGED <<sr, epc>>
     \/ ins.c = "EPC" /\ epc' = regs[ins.t] /\ UNCHANGED <<sr, cause>>
     \/ ins.c = "other" /\ UNCHANGED cop0
  /\ Retire(Sequel)
  /\ UNCHANGED <<regs, mem>>

(* Unknown COP0 commands end in assert(0), or do nothing without it.       *)
BadCop0 ==
  /\ Fetch
  /\ ins.op = "badcop"
  /\ \/ ~Asserts /\ Retire(Sequel) /\ UNCHANGED <<regs, cop0, mem>>
     \/ Asserts /\ End("aborted")

Unimplemented ==
  /\ Fetch
  /\ ins.op = "reserved"
  /\ End("exited")

(* The fetch itself may be what ends the program.                         *)
FetchAborts ==
  /\ status = "running"
  /\ clock < until
  /\ Aborts(npc)
  /\ clock' = clock + 1
  /\ status' = "aborted"
  /\ UNCHANGED <<until, died, ins, pc, next_ins, npc, regs, cop0, mem, history>>

(* clock++ < until is false, and counts once more.                         *)
RunOut ==
  /\ status = "running"
  /\ clock >= until
  /\ clock' = clock + 1
  /\ status' = "stopped"
  /\ UNCHANGED <<until, died, ins, pc, next_ins, npc, regs, cop0, mem, history>>

(* dump_cpu as the process exits, and restore_cpu in a later one: all but  *)
(* the deadline is kept, and the clock takes back the count of the loop    *)
(* condition.  A dump made earlier is the machine as it was then, so that  *)
(* resuming it is this step, taken then.  Session has the files.           *)
Resume ==
  /\ status \in {"stopped", "exited"}
  /\ status' = "running"
  /\ clock' = clock - 1
  /\ until' \in Deadlines
  /\ UNCHANGED <<died, ins, pc, next_ins, npc, regs, cop0, mem, history>>
-----------------------------------------------------------------------------
(* The board is a static object: what reset() does not set is zero.        *)
PowerOn ==
  /\ clock = 0
  /\ ins = Noop /\ pc = Wrap(ResetVector - 4)
  /\ next_ins = Noop /\ npc = ResetVector
  /\ regs = [r \in Reg |-> 0]
  /\ sr = {} /\ cause = {} /\ epc = 0
  /\ died = FALSE /\ slot = FALSE /\ stored = {}
  /\ caller = NoCall /\ victim = NoAddr
  /\ handlers = [depth |-> 0, inner |-> FALSE, outer |-> FALSE]

Init ==
  /\ PowerOn
  /\ status = "running"
  /\ until \in Deadlines
  /\ mem \in Images

(* mips::run                                                               *)
Loop ==
  \/ Alu \/ Add \/ NoEffect \/ Div \/ Jr \/ Jalr \/ Jump \/ Branch \/ Trap
  \/ Load \/ Store \/ ReturnFromException \/ MoveFromCop0 \/ MoveToCop0
  \/ BadCop0 \/ Unimplemented \/ FetchAborts \/ RunOut

Next == Loop \/ Resume

(* The loop of a single thread runs as long as the process does; nobody    *)
(* has to resume it.                                                       *)
Spec == Init /\ [][Next]_vars /\ WF_vars(Loop)
-----------------------------------------------------------------------------
(* Properties                                                              *)

(* Every register holds a value its C++ type can hold: program counters    *)
(* and registers wrap at 32 bits, COP0 fields stay in their word.          *)
TypeOK ==
  /\ status \in {"running", "stopped", "exited", "aborted"}
  /\ clock \in Nat /\ (status # "running" => clock > 0)
  /\ until \in Nat /\ died \in BOOLEAN /\ (status = "exited" => died)
  /\ {ins, next_ins} \subseteq Instr
  /\ {pc, npc, epc} \subseteq Address
  /\ regs \in [Reg -> Address]
  /\ sr \in SUBSET Bits /\ cause \in SUBSET Bits
  /\ mem \in [Memory -> Instr]
  /\ slot \in BOOLEAN
  /\ caller \in [reg : Reg, at : Address] \cup {NoCall}
  /\ victim \in Address \cup {NoAddr}
  /\ handlers \in [depth : 0..2, inner : BOOLEAN, outer : BOOLEAN]
  /\ stored \in SUBSET Memory

(* The instruction about to execute is the word that memory holds at pc,   *)
(* unless the instruction just executed stored over that very word, at pc  *)
(* or at another of its mirrors: the only self-modified code that runs     *)
(* stale is the delay slot of the store.  Dumping and restoring the        *)
(* machine makes no difference to this.                                    *)
Prefetched ==
  status \in {"running", "stopped"} /\ ~died =>
    /\ next_ins = ins
    /\ \/ ins \in Fetched(mem, pc)
       \/ WordsAt(pc) \cap stored # {}
       \/ ins = Noop /\ pc = ResetVector - 4

(* Nothing but a jump, a branch or a trap diverts the fetches: behind any  *)
(* other instruction they go on with the next word.                        *)
Sequential ==
  status # "aborted" /\ ~slot => npc = Wrap(pc + 4)

(* As long as nothing else is written to it, the link register of a call   *)
(* that was not itself in a delay slot holds the address behind the call's *)
(* delay slot, whatever jumps, traps and returns follow.                   *)
ReturnAddress ==
  caller # NoCall => regs[caller.reg] = Wrap(caller.at + 8)

(* Until software overwrites EPC or Cause, they describe the last trap     *)
(* (unless that was in a delay slot), whatever jumps, returns and nested   *)
(* handlers run: its cause is a syscall, and a return to EPC skips no      *)
(* instruction, as EPC is within the syscall and its delay slot.           *)
TrapRecord ==
  victim # NoAddr =>
    /\ epc \in {victim, Wrap(victim + 4)}
    /\ Get(ExcCode, cause) = Syscall

(* While SR is only changed by traps and rfe, a handler runs in kernel     *)
(* mode with interrupts disabled, and IEp and IEo hold the interrupt       *)
(* enable of the two innermost interrupted programs.                       *)
ModeStack ==
  /\ handlers.depth >= 1 =>
       /\ ~On(IEc, sr) /\ On(KUc, sr)
       /\ (On(IEp, sr) <=> handlers.inner)
  /\ handlers.depth = 2 =>
       ~handlers.inner /\ (On(IEo, sr) <=> handlers.outer)

(* A machine that died of an instruction, dumped in the middle of it and   *)
(* resumed, dies of it again: however often and with whatever deadlines it *)
(* is resumed, it changes no register, no COP0 register and no memory.     *)
DiesAgain ==
  [][died => UNCHANGED <<ins, regs, cop0, mem>>]_vars

Retires == status = "running" /\ status' = "running"

(* The rfe that ends a handler gives the interrupted program the interrupt *)
(* enable it had at the trap, also when handlers nest two deep and         *)
(* although rfe ORs the saved bits over the current ones.                  *)
InterruptEnableRestored ==
  [][Retires /\ ins.op = "rfe" /\ handlers.depth >= 1 =>
       (On(IEc, sr') <=> handlers.inner)]_vars

(* The loop ends, by its deadline or with the process, each time that the  *)
(* machine is resumed, also in the middle of an instruction.               *)
RunEnds == status = "running" ~> status # "running"

(* cop0.hpp says of EPC: "The instruction causing (or suffering) the       *)
(* exception is at EPC, unless BD is set in Cause, in which case EPC       *)
(* points to the previous (branch) instruction".                           *)
EpcNamesVictim ==
  victim # NoAddr /\ ~On(BD, cause) => epc = victim

(* cop0.hpp says of KUp, IEp: "The instruction rfe can be used to copy     *)
(* KUp, IEp back into KUc, IEc".                                           *)
RfeRestoresModes ==
  [][Retires /\ ins.op = "rfe" =>
       /\ (On(KUc, sr') <=> On(KUp, sr))
       /\ (On(IEc, sr') <=> On(IEp, sr))]_vars
=============================================================================
