# A verification model of psycris

psycris emulates the board of a PlayStation: a MIPS R3000 interpreter, a data
bus, RAM, ROM and the register files of a few devices. It is one process with
one thread. This directory models it in TLA+, checks the models with TLC and
proves the properties of the processor and its arithmetic, of the bus, the board
and the process with TLAPS: for every program, operand, layout, store and
deadline.

Paths below are relative to `src/src/`.

## Inventory

| Component | State | Operations | Talks to |
|---|---|---|---|
| Interpreter loop, `cpu/cpu.cpp` | clock, `ins`/`pc`, `next_ins`/`npc`, registers, hi/lo | `reset`, `run` (one iteration per instruction), `trap`, `run_cop`, `read`, `write` | bus, COP0 |
| COP0, `cpu/cop0.hpp` | SR, Cause, EPC, ... | `enter_exception`, register moves, `rfe` (in `cpu.cpp`), `interrupt_request` | called by the loop and by the interrupt controller |
| Bit masks, `bitmask.hpp` | none | the fields of a register: read, assign, `&=`, `<<=`, `>>=` | COP0, DMA, SPU |
| Data bus, `hw/bus.hpp` | the list of connections | `connect`, `read`, `write`, `touch_data_ports` | devices, by callback after each write |
| Mapped devices, `hw/mmap_device.hpp`, `psx.cpp` | a slice of one board memory each, a sorted port list | `post_write` forwarded to `wcb` | bus |
| Interrupt controller, `hw/devices/interrupt_control.cpp` | I_STAT, I_MASK | `request`, `wcb(i_stat)` | COP0; called by DMA |
| DMA registers, `hw/devices/dma.cpp` | DPCR, DICR | `wcb(dicr)` | interrupt controller |
| SPU registers, `hw/devices/spu.cpp` | 200 registers, SPUCNT, SPUSTAT | `wcb(spucnt)`, `wcb(spustat)` | none |
| Process, `main.cpp`, `loader.cpp`, `psx.cpp` | the board, the dump file | `load_bios`, `restore_board`, `run`, `dump_on_exit` | all |
| ALU, in `cpu/cpu.cpp` | registers, hi/lo | what each instruction computes | part of the loop |
| Disassembler, names of ports, logging, options | none that matters | text | log |

What is hard in it, component by component:

* **Loop.** Two instructions are in flight. The word at `npc` is fetched before
  the current one executes, so a store may come too late for it, and a trap
  saves a `pc` that has already moved. The program counters go through delay
  slots, jumps in delay slots and wrapping addresses. The correct loop executes
  what is in memory (but for the one stale word), continues sequentially,
  returns from calls behind their delay slots, and ends.
* **COP0.** SR holds a three deep stack of modes, pushed by a masked shift and
  popped by an OR. Whether the interrupt enable of an interrupted program
  survives nested handlers depends on long sequences of traps, `rfe` and moves.
* **Bus.** A write may cover parts of several ports and gaps between them. Each
  callback must get its port's old and new value, once and in order. Ranges
  include their end. In a build with assertions some writes end the program.
* **Devices.** Callbacks write the memory whose ports the bus is still walking,
  and a callback may run another device's callback. Interrupts are signalled on
  edges of I_STAT only.
* **ALU.** Words are unsigned or signed by turns. Shifts, comparisons, sign
  extension, overflow and branch offsets must agree, because programs build
  larger arithmetic from several of them.
* **Process.** A run ends by its deadline, by `exit` in the middle of an
  instruction, or by a signal, with or without a dump, and a later process
  restores the dump and goes on. Ticks must be counted once.

There are no threads, messages or locks anywhere; every hazard is one of order,
sequence, boundary, or of an abnormal end. `PROJECT.json` lists them by line.

## Modules

| Module | Models |
|---|---|
| `BitMask` | `bitmask.hpp`: words are sets of bit positions, masks as `BitField` |
| `Cop0` | fields of SR and Cause; what an exception and `rfe` do to them |
| `Cpu` | `mips::run`: one action per class of instruction, and the ends of the run |
| `MCCpu` | instances of `Cpu`: a 64 byte address space and families of programs |
| `Alu` | what every instruction computes, to the bit, on words of any width |
| `Idioms` | the sequences compilers build from those instructions, and their results |
| `MCAlu` | words of 12 bits and operands at every edge |
| `DataPorts` | the ports of a device and the loop of `touch_data_ports` over them |
| `DataBus` | `data_bus`: lookup, reads, writes and the notification of ports |
| `MCDataBus` | two devices, one mapped twice, with a gap between its ports |
| `Board` | the address map, the registers and callbacks of the devices, over `DataBus` and `DataPorts` |
| `Registers` | what the board promises of its registers: independent words, interrupts on edges |
| `MCBoard` | a small RAM and ROM, all registers with ports, and the guest's stores |
| `Checkpoints` | what dump and restore promise: a machine that can be saved and resumed |
| `Session` | launches, the loop, its ends, dumps and restores; implements `Checkpoints` |
| `MCSession` | the programs of the instance |
| `BitMaskProofs`, `CpuProofs`, `SessionProofs`, `DataPortsProofs`, `DataBusProofs`, `BoardProofs`, `AluProofs` | the theorems about the module each is named after (`CpuProofs` has those of `Cop0`, `AluProofs` those of `Idioms`) |
| `InductionProofs` | induction over naturals, stated with sets |

### Cpu

`ins`, `pc`, `next_ins`, `npc`, `regs`, `sr`, `cause`, `epc` and `clock` are the
members of `mips` and `cop0`; `until` is the argument of `run`; `mem` is the
board memory by words. `Home` gives the word behind a mapped address: the
connections of `psx.cpp:61-67` show RAM and ROM at three addresses each, and a
store through one mirror changes what all of them show. One step is one iteration of the `while` loop:
`Fetch` (clock, prefetch, `pc`), the instruction, and `Retire`
(`ins = next_ins`). `End` is an end inside an iteration: `npc` has moved and the
instruction has not retired. Such an end is `exited` (`std::exit(99)`, atexit
handlers run) or `aborted` (a signal, an assertion, `std::terminate`).

`Resume` is a later process that restores the machine from its dump: when the
run stopped or exited, `restore_cpu` puts every member back, with the clock one
less, and the loop goes on to a deadline of its own. A dump that was made
earlier is a state of the run, so that resuming from it is `Resume` taken then.
What becomes of the files is in `Session`.

An instruction is a record of class, registers, offset and width. Abstracted:
the result of an ALU instruction or of a load is any of `Value`; whether a
branch is taken is open; what MTC0 leaves in SR or Cause is any of `CopValue`;
hi and lo are not carried (`Alu` has both exactly); the word a partial store leaves behind is any of
`Patch`. Exact: every effect on the pipeline, the links, the sum and overflow
rule of ADD and ADDI, effective addresses, the mode bits and the cause code.
An unaligned fetch mixes two words and may return any instruction. `Edge` are
the addresses where the bus ends the program (see DataBus), and with `Asserts`
a store to a device with ports may.

The variables `slot`, `caller`, `victim`, `handlers`, `stored` and `died` are
history: no action reads them to decide anything about the machine. They say
what the last instruction was, which call, trap and handlers are still open and
whether an instruction ended the process, and only the properties use them.

### Alu and Idioms

`Alu` executes a short program with the pipeline reduced to `pc` and `npc` (so
that branches have their slots) and computes what `Cpu` leaves open. A word has
`Width` bits, immediates and halfwords `Half`, bytes `Quarter`, in the
proportion of the code, and `Pow(n)` is 2 to the power of n. Its memory is the
word at address 0, read and written by bytes, halfwords and words: the bound
`Accesses` ends a run at an access elsewhere, and `Running` at a branch out of
the code. Instructions that differ only in their operands are one
action, which writes the destination or ends the run.

`Idioms` holds no code of psycris. It has the instruction sequences that a guest
relies on (sums and differences of double words, constants from two halves,
comparisons, loops, rotations, sign extensions, parts of words, checked additions) and says what
each must compute. A mistake in one instruction alone would be restating it;
these need several to agree. `Library` is the set of all sequences for words of
a width, with every rotation, constant, immediate and distance of a skip; the
instance runs some of them, and the proofs are about all.

Facts about the code that the model makes visible:

* SRA and SRAV shift in zeros (`cpu.cpp:79`, `cpu.cpp:85`), so that `sll; sra`
  does not extend a sign: run `alu_shift`. `Parts` claims what holds of an
  arithmetic shift and of this one: the two agree, keep the bits that remain,
  and add none to a part that is not negative.
* MULT and MULTU compute 32 bits and set hi to zero: run `alu_product`.
  `ProductOfOneWord` has the products that need no more. The product of two
  `int32_t` that overflows is undefined in C++; the build wraps.
* ADD and ADDI end the process on a carry of unsigned words, not on the overflow
  of signed ones: adding -1 to 1 ends the process by ADD, adding -1 to 0 by
  ADDI (run `alu_overflow`). `CheckedSums` says what both rules have in common:
  a sum that fits signed and unsigned is never refused, and one that fits
  neither way never gets through.
* A branch offset is cut to 16 bits *after* it was multiplied by four, so that a
  branch reaches a quarter of the distance (`Branches` has it that far).
* A division by zero, or of the smallest word by -1, is a signal.

### DataBus

`mem` is the board memory by bytes; devices own slices of it (`Layout`), as
`psx.cpp` hands them out, and `Ranges` are the connections in order. An access
finds its device, and `Survives` says whether it ends the program: the span of
the device checks the first byte only, and a copy may run into the next slice
but not over the end of the board memory. (Past the end of the memory the copy
is undefined; the build has the address sanitizer on by default, which ends the
program there.) `last` records the last access and its callbacks for the
properties.

`DataPorts` has what bus and board share. `Scan` is the loop of
`touch_data_ports` as a recursive function over `Step`, one iteration: where the
rest of the write starts, how many of its bytes remain, and the ports hit so
far. `Informed` computes the two arguments of the callback of a hit.

### Board

The bus of `DataBus`, instantiated with the slices that `build_layout_map` hands
out and the connections of `psx::psx`, and on top of it what a guest store makes
the devices do. Bytes are sets of bits, so `Register` reads a word of `BitMask`
from the memory and the callbacks use its masks. `StoreDevice` is the whole of
`data_bus::write`: the bytes are overwritten, the ports are walked (`Scan`), and
`Notified` makes the callbacks one after the other (`PostWrite`), each on the
memory the ones before left. `SpuCntWritten` rewrites SPUSTAT; `IStatRequests` is the condition under
which the interrupt control calls `cop0::interrupt_request`, which only logs;
`requested` records that it did. `StoreAborts` is the failed assertion on bytes
that no port took, or the span check; the process is gone and its memory with
it. `SpuSkip` cuts registers off the start of the SPU for the instance; the
offsets of the rest stay those of the code.

`Request` is `interrupt_control::request` for one of `Pins`: it sets the bit of
the pin in I_STAT behind the back of the bus and calls the callback itself,
unless the bit was set. On this board `wcb(dicr)` is the only caller, and
nothing calls that, because `dma::dma` hands no ports to `mmap_device`
(`dma.cpp:5`). So `Request` is what the controller offers a device, taken at any
time, and `wcb(dicr)` is not an action.

`Registers` is the abstract board: I_STAT, I_MASK, SPUCNT and SPUSTAT as four
words. A step changes one of them; a SPUCNT written sets SPUSTAT, and an enabled
bit of I_STAT that rises is signalled. `Board` implements it with the registers
read from the bytes of its memory: partial and odd stores, mirrors, gaps, the
walk over ports, callbacks that write the memory under that walk and requests
from devices are all steps of one register, or stutters.

### Session and Checkpoints

`Session` is `main`: `Launch` parses the options, `LoadBios`, `Restore` and
`LoadFails` are the ways into and past the loop, `Tick`, `Fault` and `RunOut`
what an iteration does to the clock, `Exit` the handler `dump_on_exit`, and
`Killed` any end without a handler. A program is the set of ticks at which its
instruction ends the process by `std::exit` (an overflow, an unimplemented
opcode); the machine is deterministic, so a restored machine meets it again.
`faulted` says that an instruction of this process, or of the one whose dump it
restored, ended it by `std::exit`. (That the machine itself is unchanged then is
`DiesAgain` of `Cpu`.)
`disk` holds a file `dump@<clock>` per clock: none, whole, or cut short.

Facts about the code that the model makes visible:

* The dump of a process that never ran (a BIOS too short, a file that cannot be
  opened) is `dump@0`. Restored, its clock is 2^64-1 and it executes nothing.
* `--ticks` is "number of CPU ticks to simulate", and the loop takes it as a
  clock since power on: a restored run of `--ticks 10000` from `dump@10001`
  executes nothing. What holds for a restored run as well
  is that it never simulates more than its ticks (`DeadlineKept`).
* A dump written after a fatal instruction has the same name as one written by
  a deadline at that clock, and replaces it.

## What the runs show

| Run | Shows |
|---|---|
| `cpu_flow` | types, `Prefetched`, `Sequential`, `ReturnAddress`, and `DiesAgain`: a machine that a fatal instruction ended dies again however often it is resumed, and changes nothing |
| `cpu_modes` | `TrapRecord`, `ModeStack`, `InterruptEnableRestored` with runs cut and resumed, and `RunEnds` |
| `alu` | the results of the idioms: `Sums`, `DivisionIdentity`, `ProductOfOneWord`, `Constants`, `Comparisons`, `Branches`, `Rotations`, `Parts`, `CheckedSums` |
| `bus` | types, `PortsReached` and `CallbackValues` |
| `board` | types, `SpuStatusMirrors`, `RequestedOnEdge` with requests of devices between stores, `SlicesIsolated`, and that the bytes implement `Registers` |
| `session` | types, `TicksAccounted`, `DeadlineKept`, `FatalStaysFatal`, `ProcessEnds`, and that it implements `Checkpoints` |
| `cpu_epc` | EPC is the address *behind* a trapping syscall and BD is never set: `cop0.hpp:101` says otherwise |
| `cpu_rfe` | `rfe` does not copy KUp and IEp back, as `cop0.hpp:61` says: it ORs them |
| `bus_ports` | a port behind a gap is not informed of a write to it; `bus.hpp:33` |
| `alu_product` | hi is zero whatever the product, and not its upper word: `cpu.hpp:74` |
| `alu_shift` | `sll; sra` does not extend a sign: `cpu.cpp:79`, `cpu.cpp:85` |
| `alu_overflow` | ADD and ADDI end the process for sums that fit, and let sums through that do not: `cop0.hpp:145`, `decoder.hpp:49` |

Two of these divergences meet: `rfe` never clears a bit, and yet the interrupt
enable is restored (`InterruptEnableRestored`), because every exception clears
IEc, so the OR starts from 0. KUc is set by every exception and for that reason
never restored.

A passing property claims nothing that a comment of the code denies. Where code
and comment differ, the passing run has the part they agree on, and a run of its
own shows the difference. Four divergences take one step to see and have no run:

* register 0 is written like any other (`cpu.cpp:353`), where
  `disassembly.cpp:12` calls it constant; the model has it as the code does;
* a range includes its end (`bus.hpp:106`), so that the first address of a
  device that starts there (`bus.hpp:131`) ends the program: `Survives`;
* bit 31 of DICR is what was stored, not what the rule of `dma.hpp:33` gives,
  because the callback that computes it never runs (`dma.cpp:5`);
* a restored run simulates fewer ticks than `config.cpp:12` says.

### Bounds

* `AddrLimit = 64`, `Segment = 32`: addresses wrap and J stays in a region
  within a few instructions. The memory has seven words: four of ROM at the reset
  vector, which appear a second time at 48, the words of the two exception
  vectors, and the word behind one. The range of the first ROM ends at 32, which
  is the `Edge`. Programs store into their ROM and run off its end at 60 into
  open bus; `cpu_flow` stores at either mirror and returns into either (`Value`
  has 18 and 28, and 52 for the mirror).
* `cpu_flow` runs *every* program of three words over 17 instructions up to
  `Deadlines = {6}` iterations. The first executes the empty pipeline of the reset; five
  instructions are enough for a call, its slot, an overwrite and a return, and
  for a store over its own delay slot.
* `cpu_modes` runs every program of two words with every handler of two words
  over syscall, `rfe`, the COP0 moves, a jump and a patching store, with
  deadlines 3 and 8: a run is cut at 3 and resumed, and 8 iterations are enough
  for two nested traps and two `rfe`. Fetches that run off the mapped words are
  instructions that end the process, so that `RunEnds` and `DiesAgain` see them. `CopValue` has the all-zero register, kernel bits that are set and
  clear, IsC and BEV.
* `Reg = {0, 31}`: an ordinary register and the link register.
* `bus`: 8 bytes of board memory, ports of one and two bytes with and without a
  gap, writes of 1, 2 and 4 bytes at aligned and odd offsets, at the end of a
  range, in the alias and in no range. Two byte values tell old from new.
* `board`: four bytes of RAM and ROM, both mapped three times, the registers of the
  interrupt control and the DMA, and the eight bytes of the SPU around SPUCNT
  and SPUSTAT (offsets 424 to 431): 32 bytes. The stores are of 1, 2 and 4
  bytes, at register, odd, unmapped and end addresses, with values that set and
  clear enabled and masked bits, and mode bits inside and outside `spu_mode`.
  Devices request on `Pins = {3, 9}`, one in either byte of I_STAT's lower half.
* `session`: a clock of six values, so that it wraps and `dump@0` can be
  restored; deadlines 0, 2 and 4, so that a restored machine may be behind its
  deadline, at it or beyond; a program without a fatal instruction and one whose
  third is. The number of processes and of attempts is not bounded.
* `alu`: 12 bits are the fewest with bytes of three, so that sign extension,
  odd halves and amounts beyond the width all happen. Operands are around 0, the
  sign change, the ends of a byte and a half and of the range, in pairs, and in
  fours for double words; every constant of five upper halves is built; branches
  skip up to the seven instructions a 6 bit byte offset reaches.
* `board` has `Asserts` TRUE: without assertions a 32 bit store at offset 424
  of the SPU starts in front of every port, changes SPUCNT without its callback,
  and `SpuStatusMirrors` is violated.
* `Asserts` is TRUE in `cpu_flow` and FALSE in `cpu_modes` and `bus`, where
  writes that the assertion would stop must be seen to complete.

Programs end (by design of the runs), so deadlock is not checked.

### Fairness

`Spec` of Cpu assumes weak fairness of `Loop`: `run` is a loop of the only
thread, it blocks on nothing, and the process is scheduled. `Resume` is not
fair, because nobody has to start another process. `RunEnds` says that a run
that started comes to its deadline or its end; the clock is what makes it, so
that a loop of the guest cannot keep it.

`Spec` of Session assumes weak fairness of `Process`, all that a launched
process does by itself: loading, ticks, faults, the end of the loop, `exit`.
Launching is not fair, and neither is a signal. `ProcessEnds` says that every
process ends, whatever it loaded, that of a clock that wrapped included.

`DataBus`, `Board` and `Alu` claim no liveness and assume no fairness: a guest
may stop storing, and the end of a program of the ALU is the same question as
`RunEnds`.

## What is proved

For all values of the constants that satisfy `AddressAssumption`,
`MachineAssumption` and `CodeAssumption`, so for the real address space, every
program, every memory and every deadline:

* `TypeCorrect`: the machine stays well typed. This is inductive by itself, with
  one step per action; `TypeOK` is split in three parts (`StreamOK`,
  `HistoryOK`, `DataOK`) because most actions share the first two through
  `Fetch`, `Observe`, `Retire` and `End`.
* `PrefetchedCorrect`: `Prefetched` is inductive relative to `TypeOK`: the
  prefetch reads memory before the instruction stores, and `stored` is the word
  of memory that may have changed since, through whichever of its mirrors
  (`Home`, of which nothing is assumed but that it leads to mapped words).
* `SequentialCorrect`, `ReturnAddressCorrect`, `TrapRecordCorrect` from
  `FlowInv == TypeOK /\ Sequential /\ ReturnAddress /\ TrapRecord`. The link of
  a call is `npc + 4`; that this is `pc + 8` of the calling instruction needs
  `Sequential` about the step before, which is why the three are proved
  together and why calls in delay slots are excepted. `TrapRecord` says that EPC
  is within the trapping syscall and its delay slot, which the documented EPC
  would be as well; that the code saves the second of the two is the finding of
  `cpu_epc`.
* `ModeStackCorrect` from `TypeOK /\ ModeStack`, over the bits of SR
  (`PushModesBits`, `RfeBits`); `InterruptEnableCorrect` follows for each step.
* `CauseRecorded`: an exception's code reads back from Cause, whatever was in
  it, and every bit outside of ExcCode is as it was.
* `DiesAgainCorrect` from `DeathInv`: a machine that an instruction ended stands
  before an instruction that is `Fatal` with the registers it has. Nothing an
  end leaves behind changes that (`FatalEnds`, `ExitIsFatal`): `pc` and `npc`
  moved, `next_ins` was fetched, but `ins`, the registers and the memory stay.
  So a resumed machine meets the same instruction and ends again.
* `ReadBack`, `FieldsIndependent`: the laws of masks on which these rest, for
  every word.

For every clock width, set of deadlines and program (`SessionAssumption`):

* `SessionCorrect`: `SessionInv`, the inductive invariant of `Session`. The
  properties alone are not inductive. `PhaseInv` says what clock and steps are
  in each phase (equal while running, one apart at an exit, or the wrapped clock
  of a restored `dump@0`); `DumpInv` says the same of every whole dump and of
  its name; `FaultInv` says that a machine with a fault, in memory or on disk,
  stands before a fatal instruction.
* `TicksAccountedCorrect`, `DeadlineKeptCorrect`, `FatalStaysFatalCorrect`
  follow from it, and `CheckpointsImplemented` shows the refinement: a tick is
  an `Advance`, an exit with a dump a `Save`, a restore or a launch a `Resume`,
  everything else a stutter.

The lemmas `Retired` and `Ended` summarise every action as "an iteration that
retires" or "an end of the run", so that the later proofs split on two cases
rather than on eighteen; `Resume` is the one step that is neither.

The assumptions say: the address space is divided in whole regions, vectors lie
in it, the word before the reset vector is not at the end of a range, loads give
addresses (32 bit values), and memory holds instruction words.

For every layout of slices and sorted ports, every list of connections and every
value (`LayoutAssumption`, `SliceAssumption`), whether assertions are compiled
in or not:

* `ScanWalks`: what the loop of `touch_data_ports` computes. Its inductive
  invariant is `State`, `Prefix` and `HitsMade` of `DataPortsProofs`: `left` and
  `over` add up to the width of the write; unless the write is consumed, `at` is
  where its rest starts, and the bytes consumed are in ports already visited;
  the hits are, in order, the visited ports for which `InReach` holds (a byte of
  the port is written, and no byte in front of it is outside of the ports), each
  with the bytes it overlaps. The step needs that the ports are sorted.
* `BusTypes`, `WritesReachPorts`, `CallbacksGetValues`: `TypeOK`,
  `PortsReached` and `CallbackValues` of `DataBus`. The ports that are told are
  the ones a write overlaps in front of its first byte outside of every port;
  what lies behind such a gap is the finding of `bus_ports`. For the last one, the bytes
  of a port are those a hit takes back from the overwritten value and those the
  write never touched (`InformedValues`), whatever the overlap is.

The loop is a recursive function, and a statement about all of its iterations is
an induction. The library's induction theorems cannot be instantiated by the
provers at hand, so `InductionProofs` has its own, stated with sets rather than
predicates: every non-empty set of naturals has a least element (`LeastElement`,
from the well-foundedness of the library), hence `Upwards` (a subset of 0..k with 0,
and with n + 1 for each n, is all of it), hence `Iteration` (the function a
recursive definition describes exists and satisfies it).

For every size of the memories, place of the devices and set of stores
(`BoardAssumption`):

* `StoreLands`: an aligned store that completes stays in the slice of its device
  and lands inside one port, or beside all ports. The interrupt control has no
  gap between its ports (`IcPorts`); SPUCNT and SPUSTAT are two bytes behind a
  multiple of four, so that a word never starts in them (`SpuPorts`). So at most
  one callback runs, on the memory the store left (`CallRuns`), and
  `Notified` is never longer than one call (`NotifiedNone`, `NotifiedOne`).
* `StepEffect`: what a step does to the four registers is one of five effects.
  This takes that words survive being cut into bytes and put together
  (`RoundTrip`), that what is written apart from a register leaves it alone
  (`RegisterApart`) and what the masks of `spu_mode` do (`ModeBits`, from the
  laws of `BitMaskProofs`).
* `BoardTypes`, `SignalsRisingBits`, `StepsStayInSlices` hold for both builds.
* `StatusFollowsControl` and `BoardImplementsRegisters` have the hypothesis
  `Asserts`, because a store beside the ports of the SPU may change SPUCNT
  without its callback in the other build. The refinement is proved step by
  step: an effect is an action of `Registers`; a step that changes none of the
  registers is an I_MASK written with the value it had, which like it signals
  nothing.

For every `Width` that is a multiple of four, so for the 32 bits of the code,
and all operands (`AluAssumption`, `IdiomsAssumption`: every start is a sequence
of `Library` with zero in register 0, and twice the width is a positive
immediate, which holds from 16 bits on, and for 12):

* `AluTypes`: every instruction of every program leaves words, bytes and program
  counters of the model's types.
* `IdiomsProgress`: the inductive invariant `IdiomsInv`. It has one conjunct per
  sequence, which says what the registers hold before each of its instructions,
  and that only a division aborts. A step of a sequence is looked up in its code
  (`Executes`, `ExecutesAdd`, `ExecutesHiLo`, `ExecutesDivide`), changes one
  register (`SetsOne`), and makes the next case of its conjunct true. Where a
  sequence does not branch, `npc` is always `pc + 4` (`Straight`); for those that
  do, the conjunct has one case per place, with the `npc` that a branch before
  it left, and for `Loop` the invariant of the loop: register 5 holds b as many
  times as register 1 was counted down.
* `SumsHold`, `DivisionsHold`, `ProductsHold`, `ConstantsHold`,
  `ComparisonsHold`, `BranchesHold`, `RotationsHold`, `PartsHold`,
  `CheckedSumsHold`: the properties of `Idioms`, from what `IdiomsInv` says at the
  end of each sequence. What is left there is arithmetic: a sum is below its operand exactly if it wrapped
  (`CarryOfSum`), wrapping twice is wrapping once (`CutInside`), a truncating
  quotient leaves a remainder with the sign of the dividend (`Truncated`), a
  distance in instructions survives the cut to an immediate if it is short enough
  in bytes (`Displaced`), and the bytes of a word are the digits of its halves
  (`TwoDigits`, `NestedDivision`, `LoadedBytes`).
* The bitwise instructions need the connection of sets of bits with numbers: the
  sum over the bits of a word is the word (`WordOfBitSet`), for disjoint sets it
  is additive (`UnionAndIntersection`, `OrIsSum`), and so the complement is
  `N - 1 - w` and a mask is a remainder. Each is an induction over the positions
  by `Upwards`.

Only model-checked: `RunEnds` and `ProcessEnds`, because liveness is out of the
prover's reach.

## Not modelled, and why

* Disassembler, register tracer, names of ports and logging only print. The
  targets they print start from `pc + 4` where the loop starts from the moved
  `pc`; `Sequential` says that these agree but in a delay slot.
* Option parsing is a library call made once; the options are inputs of
  `Launch`.
* `src/main.cpp` at the top of the tree is a prototype that nothing builds.
* COP0's `reset` and `restore_from_exception` are never called; the loading of
  executables is commented out.
* `dma::wcb(dicr)` cannot run (`dma.cpp:5` hands no ports to `mmap_device`), so that the rule for bit 31 and
  the interrupt of a DMA have no behaviour to model.
* The other 198 registers of the SPU, and those of the DMA, are bytes that keep
  what is stored: the stores of `Board` treat them as such.

## Plan

Core first; what is done is marked.

1. `BitMask`, `Cop0`, `Cpu` with `cpu_flow` and `cpu_modes`, proofs (done).
2. `DataBus` with `bus` (done).
3. `Board`, which composes the devices with `DataBus`; run
   `board`; requests of devices and the refinement of `Registers` (done).
   Left: the callbacks that only a repaired DMA would make.
4. `Checkpoints` and `Session`, run `session`, proofs (done).
5. `Alu` and `Idioms` with `alu`, proofs for every width (done).
6. An abstract architectural processor without prefetch, and a three deep mode
   stack, each implemented by `Cpu` under a refinement mapping, with the step
   refinement proved.
7. Proofs about the bus and the board: the walk over the ports, what callbacks
   are told, slices, and the refinement of `Registers` (done).
