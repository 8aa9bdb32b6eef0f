------------------------------- MODULE Board ---------------------------------
(***************************************************************************)
(* The board (src/src/psx.cpp) as the guest's stores see it: the data bus  *)
(* over the slices of RAM, ROM, interrupt control, DMA and SPU, with the   *)
(* write callbacks of the devices, which run inside the store and write    *)
(* registers of their own.                                                 *)
(*                                                                         *)
(* Bytes are sets of bit positions, so that registers are the words of     *)
(* BitMask.  Sizes and addresses are parameters; the offsets of registers  *)
(* are those of the code.                                                  *)
(***************************************************************************)
EXTENDS BitMask, DataPorts

CONSTANTS
  RamSize, RomSize,
  SpuSkip,   \* the bytes left out at the start of the SPU, 0 in the code
  SpuSize,   \* the bytes that are left of it
  RamAt, RomAt, IcAt, DmaAt, SpuAt,  \* where the devices are connected
  Asserts,   \* is assert() compiled in (NDEBUG not defined)?
  Byte,      \* the bytes in use, sets of bits
  Stores,    \* the stores of the guest, [addr, value], not yet aligned
  Pins       \* the pins on which devices request interrupts

Device == {"ram", "rom", "ic", "dma", "spu"}

Port(offset, size) == [offset |-> offset, size |-> size]

IStat == Port(0, 4)
IMask == Port(4, 4)
Dicr == Port(4, 4)
SpuCnt == Port(426 - SpuSkip, 2)
SpuStat == Port(430 - SpuSkip, 2)

(* build_layout_map: the slices follow each other in this order.  The DMA  *)
(* has registers but hands no ports to mmap_device.                        *)
Layout == [d \in Device |->
  CASE d = "ram" -> [base |-> 0, size |-> RamSize, ports |-> <<>>]
    [] d = "rom" -> [base |-> RamSize, size |-> RomSize, ports |-> <<>>]
    [] d = "ic"  -> [base |-> RamSize + RomSize, size |-> 8,
                     ports |-> <<IStat, IMask>>]
    [] d = "dma" -> [base |-> RamSize + RomSize + 8, size |-> 8,
                     ports |-> <<>>]
    [] d = "spu" -> [base |-> RamSize + RomSize + 16, size |-> SpuSize,
                     ports |-> <<SpuCnt, SpuStat>>]]

MemBytes == RamSize + RomSize + 16 + SpuSize

At(start, d) ==
  [start |-> start, end |-> start + Layout[d].size, device |-> d]

(* The connections of psx::psx, RAM and ROM with their mirrors.            *)
Ranges == <<At(RomAt[1], "rom"), At(RomAt[2], "rom"), At(RomAt[3], "rom"),
            At(RamAt[1], "ram"), At(RamAt[2], "ram"), At(RamAt[3], "ram"),
            At(IcAt, "ic"), At(DmaAt, "dma"), At(SpuAt, "spu")>>

ASSUME BoardAssumption ==
  /\ RamSize \in Nat \ {0} /\ RomSize \in Nat \ {0}
  /\ RamSize % 4 = 0 /\ RomSize % 4 = 0
  /\ SpuSkip \in 0..426 /\ SpuSkip % 4 = 0
  /\ SpuSize \in Nat /\ SpuSize % 4 = 0 /\ SpuStat.offset + 2 <= SpuSize
  /\ RamAt \in [1..3 -> Nat] /\ RomAt \in [1..3 -> Nat]
  /\ {IcAt, DmaAt, SpuAt} \subseteq Nat
  /\ \A i \in 1..Len(Ranges) : Ranges[i].start % 4 = 0
  /\ Asserts \in BOOLEAN
  /\ Byte \subseteq SUBSET (0..7) /\ {} \in Byte
  /\ Stores \subseteq [addr : Nat, value : UNION {[1..n -> Byte] : n \in {1, 2, 4}}]
  /\ Pins \subseteq 0..10

VARIABLES
  status,     \* "up", or "aborted" when a store terminated the program
  mem,        \* the board memory
  requested,  \* did the last step make cop0::interrupt_request run?
  \* history
  statStored  \* did the guest store to SPUSTAT after its last SPUCNT store?

vars == <<status, mem, requested, statStored>>

Bus == INSTANCE DataBus WITH
  ZeroByte <- {}, OpenByte <- 0..7, last <- 0,
  Addresses <- {s.addr : s \in Stores}, Values <- {s.value : s \in Stores}
-----------------------------------------------------------------------------
(* Registers                                                               *)

BitsOf(bytes) ==
  UNION {{8 * (b - 1) + i : i \in bytes[b]} : b \in DOMAIN bytes}

(* Faulty variant: a byte keeps the bits above it.                         *)
BytesUncut(word, n) ==
  [b \in 1..n |-> {i - 8 * (b - 1) : i \in {j \in word : j >= 8 * (b - 1)}}]

BytesOf(word, n) == [b \in 1..n |-> {i \in 0..7 : 8 * (b - 1) + i \in word}]

Place(d, reg) == Layout[d].base + reg.offset

(* mmap_device::read and write                                             *)
Register(m, d, reg) == BitsOf(Bytes(m, Place(d, reg), reg.size))

SetRegister(m, d, reg, word) ==
  Overwritten(m, Place(d, reg), BytesOf(word, reg.size))

spu_mode == BitField(0..5)

(* Faulty variants: the status takes what SPUCNT held before; interrupts   *)
(* are requested for every pending bit, not only for new ones.             *)
SpuCntStale(m, call) ==
  SetRegister(m, "spu", SpuStat,
              Put(spu_mode, {}, Get(spu_mode, BitsOf(call.old))))

IStatLevel(m, call) ==
  BitsOf(call.new) \cap Register(m, "ic", IMask) # {}

(* spu::wcb(spucnt): SPUSTAT is rewritten with the mode bits of SPUCNT.    *)
SpuCntWritten(m, call) ==
  SetRegister(m, "spu", SpuStat,
              Put(spu_mode, {}, Get(spu_mode, BitsOf(call.new))))

(* interrupt_control::wcb(i_stat): does it request an interrupt?  A bit    *)
(* that is set now and differs from before, and is enabled.                *)
IStatRequests(m, call) ==
  LET new == BitsOf(call.new)
      old == BitsOf(call.old)
  IN  (new \cap ((new \ old) \cup (old \ new))) \cap Register(m, "ic", IMask)
        # {}

(* post_write of a port that is hit, in the memory s.mem.  I_MASK and      *)
(* SPUSTAT have no effect.                                                 *)
PostWrite(s, d, hit, before) ==
  LET call == Informed(s.mem, Layout[d].base, hit, before)
  IN  CASE d = "spu" /\ call.port = SpuCnt ->
             [s EXCEPT !.mem = SpuCntWritten(s.mem, call)]
        [] d = "ic" /\ call.port = IStat ->
             [s EXCEPT !.requested = @ \/ IStatRequests(s.mem, call)]
        [] OTHER -> s

(* The ports a store hits are called in their order, each on the memory    *)
(* the callbacks before it left.                                           *)
Notified(m, d, hits, before) ==
  LET after[i \in 0..Len(hits)] ==
        IF i = 0 THEN [mem |-> m, requested |-> FALSE]
        ELSE PostWrite(after[i - 1], d, hits[i], before)
  IN  after[Len(hits)]
-----------------------------------------------------------------------------
(* Faulty variant: the cpu does not align its stores.                      *)
AsIs(addr, n) == addr

(* mips::write                                                             *)
Aligned(addr, n) == addr - (addr % n)

Hits(addr, value) ==
  LET d == Layout[Bus!Found(addr).device]
  IN  Scan(d.ports, Bus!Offset(addr), Len(value))

Completes(addr, value) ==
  /\ Bus!Survives(addr, Len(value))
  /\ \/ ~Asserts
     \/ Len(Layout[Bus!Found(addr).device].ports) = 0
     \/ Hits(addr, value).left = 0

Informs(addr, value, d, port) ==
  /\ Bus!Found(addr).device = d
  /\ \E i \in 1..Len(Hits(addr, value).hits) :
       Hits(addr, value).hits[i].port = port

(* A store reaches no device.                                              *)
StoreNowhere(addr) ==
  /\ ~Bus!IsMapped(addr)
  /\ requested' = FALSE
  /\ UNCHANGED <<status, mem, statStored>>

StoreDevice(addr, value) ==
  /\ Bus!IsMapped(addr) /\ Completes(addr, value)
  /\ LET d == Bus!Found(addr).device
         before == Bytes(mem, Bus!Position(addr), Len(value))
         after == Notified(Overwritten(mem, Bus!Position(addr), value),
                           d, Hits(addr, value).hits, before)
     IN  mem' = after.mem /\ requested' = after.requested
  /\ statStored' = IF Informs(addr, value, "spu", SpuStat) THEN TRUE
                   ELSE IF Informs(addr, value, "spu", SpuCnt) THEN FALSE
                   ELSE statStored
  /\ UNCHANGED status

(* A store beside the ports of a device fails the assertion of the bus; at *)
(* the end of a range the span of the device stops it.  What is in memory  *)
(* then ends with the process, no handler of exit runs.                    *)
StoreAborts(addr, value) ==
  /\ Bus!IsMapped(addr) /\ ~Completes(addr, value)
  /\ status' = "aborted"
  /\ requested' = FALSE
  /\ UNCHANGED <<mem, statStored>>

(* Stores that Cpu does not drop for an isolated cache.                     *)
Store ==
  /\ status = "up"
  /\ \E s \in Stores :
       LET addr == Aligned(s.addr, Len(s.value))
       IN  \/ StoreNowhere(addr)
           \/ StoreDevice(addr, s.value)
           \/ StoreAborts(addr, s.value)

(* Faulty variant: the callback is told the old value as the new one.      *)
RequestUntold ==
  /\ status = "up"
  /\ \E pin \in Pins :
       LET stat == Register(mem, "ic", IStat)
           changed == stat \cup {pin}
           call == [new |-> BytesOf(stat, 4), old |-> BytesOf(stat, 4)]
       IN  /\ mem' = SetRegister(mem, "ic", IStat, changed)
           /\ requested' = (changed # stat /\ IStatRequests(mem', call))
  /\ UNCHANGED <<status, statStored>>

(* interrupt_control::request: sets the bit of a pin behind the back of    *)
(* the bus and calls the callback itself, unless the bit was set already.  *)
(* On this board wcb(dicr) would be the only caller, and it never runs:    *)
(* dma::dma hands no ports to mmap_device.  So this is what the operation  *)
(* offers to devices.                                                      *)
Request ==
  /\ status = "up"
  /\ \E pin \in Pins :
       LET stat == Register(mem, "ic", IStat)
           changed == stat \cup {pin}
           call == [new |-> BytesOf(changed, 4), old |-> BytesOf(stat, 4)]
       IN  /\ mem' = SetRegister(mem, "ic", IStat, changed)
           /\ requested' = (changed # stat /\ IStatRequests(mem', call))
  /\ UNCHANGED <<status, statStored>>

(* The board memory is zero but for DICR, which dma::dma sets: 0x07654321. *)
Init ==
  /\ status = "up"
  /\ mem = SetRegister([q \in 0..(MemBytes - 1) |-> {}], "dma", Dicr,
                       {0, 5, 8, 9, 14, 16, 18, 21, 22, 24, 25, 26})
  /\ requested = FALSE
  /\ statStored = FALSE

Next == Store \/ Request

Spec == Init /\ [][Next]_vars
-----------------------------------------------------------------------------
(* Properties                                                              *)

(* The registers the callbacks write stay made of bytes.                   *)
TypeOK ==
  /\ status \in {"up", "aborted"}
  /\ mem \in [0..(MemBytes - 1) -> SUBSET (0..7)]
  /\ requested \in BOOLEAN /\ statStored \in BOOLEAN

(* SPUSTAT shows the mode bits of SPUCNT and nothing else, whichever way   *)
(* either was stored, until the guest stores to SPUSTAT itself; with the   *)
(* assertion of the bus compiled in, no store can get around the callback. *)
SpuStatusMirrors ==
  ~statStored =>
    Register(mem, "spu", SpuStat)
      = Register(mem, "spu", SpuCnt) \cap spu_mode.mask

(* The interrupt control signals an interrupt exactly when an enabled bit  *)
(* of I_STAT rises, whether a store of any width or a device raises it:    *)
(* once when the bit rises and not while it stays.                         *)
RequestedOnEdge ==
  [][requested' <=>
       (Register(mem', "ic", IStat) \ Register(mem, "ic", IStat))
         \cap Register(mem, "ic", IMask) # {}]_vars

Slice(d) == Layout[d].base..(Layout[d].base + Layout[d].size - 1)

(* A store changes bytes of one device only: aligned stores cannot run     *)
(* over the end of a slice into the next, and callbacks stay at home.      *)
SlicesIsolated ==
  [][\E d \in Device :
       \A q \in 0..(MemBytes - 1) : mem'[q] # mem[q] => q \in Slice(d)]_vars

R == INSTANCE Registers WITH
  i_stat <- Register(mem, "ic", IStat), i_mask <- Register(mem, "ic", IMask),
  spucnt <- Register(mem, "spu", SpuCnt),
  spustat <- Register(mem, "spu", SpuStat), signalled <- requested,
  SpuModes <- spu_mode.mask

(* The bytes of the board, its mirrors, the walk over ports and the        *)
(* callbacks that write other registers implement four independent         *)
(* registers: a store reaches one of them, with its effect, or none.       *)
ImplementsRegisters == R!Spec
=============================================================================
