----------------------------- MODULE BoardProofs -----------------------------
(***************************************************************************)
(* For every size of the memories, every place of the devices and every    *)
(* store: the types, the slices, when interrupts are signalled, and, with  *)
(* the assertion of the bus compiled in, that SPUSTAT mirrors SPUCNT and   *)
(* that the board implements independent registers.                        *)
(*                                                                         *)
(* An aligned store stays in the slice of its device and inside one port   *)
(* or outside all of them, so that at most one callback runs.              *)
(***************************************************************************)
EXTENDS Board, DataPortsProofs, BitMaskProofs, SequenceTheorems

(* The place of the registers with callbacks: behind the memories.         *)
Io == RamSize + RomSize

LEMMA LayoutFacts ==
  /\ Layout["ram"] = [base |-> 0, size |-> RamSize, ports |-> <<>>]
  /\ Layout["rom"] = [base |-> RamSize, size |-> RomSize, ports |-> <<>>]
  /\ Layout["ic"] = [base |-> Io, size |-> 8, ports |-> <<IStat, IMask>>]
  /\ Layout["dma"] = [base |-> Io + 8, size |-> 8, ports |-> <<>>]
  /\ Layout["spu"] = [base |-> Io + 16, size |-> SpuSize,
                      ports |-> <<SpuCnt, SpuStat>>]
  BY DEF Layout, Device, Io

(* SPUCNT is two bytes behind a multiple of four, SPUSTAT four behind it.  *)
LEMMA PortFacts ==
  /\ IStat = [offset |-> 0, size |-> 4] /\ IMask = [offset |-> 4, size |-> 4]
  /\ SpuCnt.offset \in Nat /\ SpuCnt.offset % 4 = 2 /\ SpuCnt.size = 2
  /\ SpuStat.offset = SpuCnt.offset + 4 /\ SpuStat.size = 2
  /\ SpuCnt.offset + 6 <= SpuSize
  /\ {IStat, IMask, SpuCnt, SpuStat} \subseteq PortType
  <1>1. SpuSkip \in 0..426 /\ SpuSkip % 4 = 0 /\ SpuSize \in Nat
    BY BoardAssumption
  <1>2. /\ SpuCnt.offset = 426 - SpuSkip /\ SpuCnt.size = 2
        /\ SpuStat.offset = 430 - SpuSkip /\ SpuStat.size = 2
    BY DEF SpuCnt, SpuStat, Port
  <1>3. SpuStat.offset + 2 <= SpuSize
    BY BoardAssumption
  <1>4. (426 - SpuSkip) % 4 = 2
    BY <1>1
  <1>5. /\ SpuCnt.offset \in Nat /\ SpuStat.offset = SpuCnt.offset + 4
        /\ SpuCnt.offset + 6 <= SpuSize /\ SpuStat.offset \in Nat
    BY <1>1, <1>2, <1>3
  <1>6. SpuCnt \in PortType /\ SpuStat \in PortType
    BY <1>2, <1>5 DEF SpuCnt, SpuStat, Port, PortType, Width
  <1>7. IStat \in PortType /\ IMask \in PortType
    BY DEF IStat, IMask, Port, PortType, Width
  <1> QED
    BY <1>2, <1>4, <1>5, <1>6, <1>7 DEF IStat, IMask, Port

LEMMA SizeFacts ==
  /\ Io \in Nat /\ Io % 4 = 0 /\ MemBytes = Io + 16 + SpuSize /\ MemBytes \in Nat
  /\ \A d \in Device :
       /\ Layout[d].base \in Nat /\ Layout[d].size \in Nat
       /\ Layout[d].size % 4 = 0
       /\ Layout[d].base + Layout[d].size <= MemBytes
  <1>1. /\ RamSize \in Nat /\ RomSize \in Nat /\ SpuSize \in Nat
        /\ RamSize % 4 = 0 /\ RomSize % 4 = 0 /\ SpuSize % 4 = 0
    BY BoardAssumption
  <1>2. /\ Io \in Nat /\ Io % 4 = 0 /\ MemBytes = Io + 16 + SpuSize
        /\ MemBytes \in Nat
    BY <1>1 DEF Io, MemBytes
  <1>3. ASSUME NEW d \in Device
        PROVE  /\ Layout[d].base \in Nat /\ Layout[d].size \in Nat
               /\ Layout[d].size % 4 = 0
               /\ Layout[d].base + Layout[d].size <= MemBytes
    <2>1. CASE d = "ram"
      BY <2>1, <1>1, <1>2, LayoutFacts DEF Io
    <2>2. CASE d = "rom"
      BY <2>2, <1>1, <1>2, LayoutFacts DEF Io
    <2>3. CASE d = "ic"
      BY <2>3, <1>1, <1>2, LayoutFacts
    <2>4. CASE d = "dma"
      BY <2>4, <1>1, <1>2, LayoutFacts
    <2>5. CASE d = "spu"
      BY <2>5, <1>1, <1>2, LayoutFacts
    <2> QED
      BY <2>1, <2>2, <2>3, <2>4, <2>5 DEF Device
  <1> QED
    BY <1>2, <1>3

LEMMA PortsFacts ==
  ASSUME NEW d \in Device
  PROVE  Layout[d].ports \in Seq(PortType) /\ Sorted(Layout[d].ports)
  <1>1. CASE d \in {"ram", "rom", "dma"}
    <2>1. Layout[d].ports = <<>>
      BY <1>1, LayoutFacts
    <2> QED
      BY <2>1 DEF Sorted
  <1>2. CASE d = "ic"
    <2>1. Layout[d].ports = <<IStat, IMask>>
      BY <1>2, LayoutFacts
    <2> QED
      BY <2>1, PortFacts DEF Sorted
  <1>3. CASE d = "spu"
    <2>1. Layout[d].ports = <<SpuCnt, SpuStat>>
      BY <1>3, LayoutFacts
    <2> QED
      BY <2>1, PortFacts DEF Sorted
  <1> QED
    BY <1>1, <1>2, <1>3 DEF Device

LEMMA StoreFacts ==
  ASSUME NEW s \in Stores
  PROVE  /\ s.addr \in Nat /\ Len(s.value) \in {1, 2, 4}
         /\ s.value \in [1..Len(s.value) -> Byte]
         /\ s.value \in [1..Len(s.value) -> SUBSET (0..7)]
  <1>1. s.addr \in Nat /\ s.value \in UNION {[1..n -> Byte] : n \in {1, 2, 4}}
    BY BoardAssumption
  <1>2. PICK n \in {1, 2, 4} : s.value \in [1..n -> Byte]
    BY <1>1
  <1>3. n \in Nat /\ Len(s.value) = n
    BY <1>2, SeqDef
  <1>4. Byte \subseteq SUBSET (0..7)
    BY BoardAssumption
  <1> QED
    BY <1>1, <1>2, <1>3, <1>4

(* mips::write                                                             *)
LEMMA AlignedFacts ==
  ASSUME NEW addr \in Nat, NEW n \in {1, 2, 4}
  PROVE  Aligned(addr, n) \in Nat /\ Aligned(addr, n) % n = 0
  <1>1. CASE n = 1
    BY <1>1 DEF Aligned
  <1>2. CASE n = 2
    BY <1>2 DEF Aligned
  <1>3. CASE n = 4
    BY <1>3 DEF Aligned
  <1> QED
    BY <1>1, <1>2, <1>3

(* Every connection starts at a multiple of four.                          *)
LEMMA FoundFacts ==
  ASSUME NEW addr \in Nat, Bus!IsMapped(addr)
  PROVE  /\ Bus!Found(addr).device \in Device
         /\ \E start \in Nat : /\ start % 4 = 0 /\ start <= addr
                               /\ Bus!Offset(addr) = addr - start
  <1>1. Bus!Matching(addr) \in SUBSET Nat /\ Bus!Matching(addr) # {}
    BY DEF Bus!IsMapped, Bus!Matching
  <1>2. \E i \in Bus!Matching(addr) : \A j \in Bus!Matching(addr) : i <= j
    BY <1>1, LeastElement
  <1>3. PICK i \in Bus!Matching(addr) : Bus!Found(addr) = Ranges[i]
    BY <1>2 DEF Bus!Found
  <1>4. i \in 1..9 /\ i \in 1..Len(Ranges)
    BY DEF Bus!Matching, Ranges
  <1>5. Ranges[i].device \in Device /\ Ranges[i].start \in Nat
    <2>1. /\ RamAt[1] \in Nat /\ RamAt[2] \in Nat /\ RomAt[1] \in Nat
          /\ RomAt[2] \in Nat /\ RamAt[3] \in Nat /\ RomAt[3] \in Nat
          /\ IcAt \in Nat /\ DmaAt \in Nat /\ SpuAt \in Nat
      BY BoardAssumption
    <2>2. \A j \in 1..9 : \E start \in Nat, d \in Device : Ranges[j] = At(start, d)
      BY <2>1 DEF Ranges, Device
    <2>3. PICK start \in Nat, d \in Device : Ranges[i] = At(start, d)
      BY <1>4, <2>2
    <2> QED
      BY <2>3 DEF At
  <1>6. Ranges[i].start % 4 = 0
    BY <1>4, BoardAssumption
  <1>7. Ranges[i].start <= addr
    BY DEF Bus!Matching, Bus!InRange
  <1> QED
    BY <1>3, <1>5, <1>6, <1>7 DEF Bus!Offset
-----------------------------------------------------------------------------
(* Aligned accesses                                                        *)

LEMMA Multiples ==
  ASSUME NEW a \in Nat, NEW start \in Nat, NEW n \in {1, 2, 4}, NEW size \in Nat,
         start <= a, start % 4 = 0, a % n = 0, size % 4 = 0, a - start < size
  PROVE  /\ a - start \in Nat /\ a - start + n <= size
         /\ n = 2 => (a - start) % 2 = 0
         /\ n = 4 => (a - start) % 4 = 0
  <1>1. CASE n = 1
    BY <1>1
  <1>2. CASE n = 2
    <2>1. a % 2 = 0
      BY <1>2
    <2> QED
      BY <2>1, <1>2
  <1>3. CASE n = 4
    <2>1. a % 4 = 0
      BY <1>3
    <2> QED
      BY <2>1, <1>3
  <1> QED
    BY <1>1, <1>2, <1>3

(* An aligned store that survives stays in the slice of its device.        *)
LEMMA StaysInSlice ==
  ASSUME NEW addr \in Nat, NEW n \in {1, 2, 4}, addr % n = 0,
         Bus!IsMapped(addr), Bus!Survives(addr, n)
  PROVE  LET d == Bus!Found(addr).device
             o == Bus!Offset(addr)
         IN  /\ d \in Device /\ o \in Nat /\ o + n <= Layout[d].size
             /\ n = 2 => o % 2 = 0
             /\ n = 4 => o % 4 = 0
             /\ Bus!Position(addr) = Layout[d].base + o
  <1> DEFINE d == Bus!Found(addr).device
             o == Bus!Offset(addr)
  <1>1. PICK start \in Nat : start % 4 = 0 /\ start <= addr /\ o = addr - start
    BY FoundFacts
  <1>2. d \in Device
    BY FoundFacts
  <1>3. o < Layout[d].size
    BY DEF Bus!Survives
  <1>4. Bus!Position(addr) = Layout[d].base + o
    BY DEF Bus!Position
  <1>5. Layout[d].size \in Nat /\ Layout[d].size % 4 = 0
    BY <1>2, SizeFacts
  <1> DEFINE size == Layout[d].size
  <1> HIDE DEF d, o, size
  <1>6. size \in Nat /\ size % 4 = 0 /\ addr - start < size
    BY <1>1, <1>3, <1>5 DEF size
  <1>7. /\ addr - start \in Nat /\ addr - start + n <= size
        /\ n = 2 => (addr - start) % 2 = 0
        /\ n = 4 => (addr - start) % 4 = 0
    BY <1>1, <1>6, Multiples
  <1> QED
    BY <1>1, <1>2, <1>4, <1>7 DEF d, o, size

(* A write inside one port hits this port only.                            *)
LEMMA HitsOne ==
  ASSUME NEW ports \in Seq(PortType), Sorted(ports),
         NEW offset \in Nat, NEW n \in Nat, n >= 1, NEW i \in 1..Len(ports),
         Written(offset, n) \subseteq PortBytes(ports[i])
  PROVE  LET scan == Scan(ports, offset, n)
         IN  /\ Len(scan.hits) = 1 /\ scan.hits[1].port = ports[i]
             /\ scan.hits[1] \in HitType
             /\ GoodHit(ports, offset, n, Len(ports), scan.hits[1])
  <1> DEFINE N == Len(ports)
             scan == Scan(ports, offset, n)
             L == Len(scan.hits)
  <1>1. scan \in State /\ HitsMade(ports, offset, n, N, scan)
    BY ScanWalks
  <1>2. L \in Nat /\ \A j \in 1..L : scan.hits[j] \in HitType
    BY <1>1 DEF State
  <1>3. \A j \in 1..N : /\ ports[j].offset \in Nat /\ ports[j].size \in Nat
                       /\ ports[j] \in PortType
    <2>1. \A j \in 1..N : ports[j] \in PortType
      OBVIOUS
    <2> QED
      BY <2>1, PortOf
  <1>4. offset \in Written(offset, n)
    BY DEF Written
  <1>5. ports[i].offset <= offset /\ offset \in PortBytes(ports[i])
    BY <1>3, <1>4, ByteOf
  <1>6. InReach(ports, offset, n, ports[i])
    <2>1. ASSUME NEW b \in Written(offset, n) PROVE ~(b < ports[i].offset)
      <3>1. offset <= b /\ b \in Nat
        BY WrittenByte
      <3>2. ports[i].offset \in Nat
        BY <1>3
      <3> QED
        BY <3>1, <3>2, <1>5
    <2> QED
      BY <2>1, <1>4, <1>5 DEF InReach
  <1>7. ASSUME NEW j \in 1..N, j # i PROVE ~InReach(ports, offset, n, ports[j])
    <2>1. SUFFICES ASSUME NEW b \in Written(offset, n), b \in PortBytes(ports[j])
                   PROVE  FALSE
      BY DEF InReach
    <2>2. b \in PortBytes(ports[i])
      OBVIOUS
    <2>3. \/ ports[i].offset + ports[i].size <= ports[j].offset
          \/ ports[j].offset + ports[j].size <= ports[i].offset
      <3>1. i < j \/ j < i
        BY <1>7
      <3> QED
        BY <3>1, SortedPorts
    <2>4. /\ b \in Nat /\ ports[j].offset <= b
          /\ b < ports[j].offset + ports[j].size
      BY <2>1, <1>3, ByteOf
    <2>5. ports[i].offset <= b /\ b < ports[i].offset + ports[i].size
      BY <2>2, <1>3, ByteOf
    <2>6. /\ ports[i].offset \in Nat /\ ports[i].size \in Nat
          /\ ports[j].offset \in Nat /\ ports[j].size \in Nat
      BY <1>3
    <2> DEFINE o == ports[i].offset
               z == ports[i].size
               p == ports[j].offset
               y == ports[j].size
    <2>7. /\ o \in Nat /\ z \in Nat /\ p \in Nat /\ y \in Nat /\ b \in Nat
          /\ o + z <= p \/ p + y <= o
          /\ p <= b /\ b < p + y /\ o <= b /\ b < o + z
      BY <2>3, <2>4, <2>5, <2>6
    <2> HIDE DEF N, o, z, p, y
    <2> QED
      BY <2>7
  <1> HIDE DEF scan
  <1>8. ASSUME NEW j \in 1..L PROVE scan.hits[j].port = ports[i]
    <2>1. PICK k \in 1..N : scan.hits[j].port = ports[k]
      BY <1>1 DEF HitsMade, GoodHit
    <2>2. InReach(ports, offset, n, ports[k])
      BY <2>1, <1>1 DEF HitsMade
    <2> QED
      BY <2>1, <2>2, <1>7
  <1>9. L >= 1
    <2>1. \E j \in 1..L : scan.hits[j].port = ports[i]
      BY <1>1, <1>6 DEF HitsMade
    <2> QED
      BY <2>1, <1>2
  <1>10. ~(L >= 2)
    <2>1. SUFFICES ASSUME L >= 2 PROVE FALSE
      OBVIOUS
    <2>2. 1 \in 1..L /\ 2 \in 1..L
      BY <2>1, <1>2
    <2>3. scan.hits[1].port.offset < scan.hits[2].port.offset
      BY <2>2, <1>1 DEF HitsMade
    <2>4. scan.hits[1].port = ports[i] /\ scan.hits[2].port = ports[i]
      BY <2>2, <1>8
    <2>5. ports[i].offset < ports[i].offset
      BY <2>3, <2>4
    <2> QED
      BY <2>5, <1>3
  <1>11. L = 1 /\ 1 \in 1..L
    <2>1. L \in Nat /\ L >= 1 /\ ~(L >= 2)
      BY <1>2, <1>9, <1>10
    <2> HIDE DEF L
    <2>2. L = 1
      BY <2>1
    <2> QED
      BY <2>2
  <1>12. GoodHit(ports, offset, n, N, scan.hits[1])
    BY <1>1, <1>11 DEF HitsMade
  <1> QED
    BY <1>2, <1>8, <1>11, <1>12 DEF scan

(* A write that starts outside of the ports hits none and consumes nothing. *)
LEMMA HitsNone ==
  ASSUME NEW ports \in Seq(PortType), Sorted(ports),
         NEW offset \in Nat, NEW n \in Nat, n >= 1,
         \A i \in 1..Len(ports) : offset \notin PortBytes(ports[i])
  PROVE  LET scan == Scan(ports, offset, n)
         IN  Len(scan.hits) = 0 /\ scan.left = n
  <1> DEFINE N == Len(ports)
             scan == Scan(ports, offset, n)
             L == Len(scan.hits)
  <1>1. /\ scan \in State /\ HitsMade(ports, offset, n, N, scan)
        /\ Prefix(ports, offset, n, N, scan)
    BY ScanWalks
  <1>2. L \in Nat /\ scan.over \in Nat /\ scan.left \in Nat
    BY <1>1 DEF State
  <1>3. \A j \in 1..N : ports[j] \in PortType
    OBVIOUS
  <1>4. offset \in Written(offset, n)
    BY DEF Written
  <1>5. ASSUME NEW j \in 1..N PROVE ~InReach(ports, offset, n, ports[j])
    <2>1. SUFFICES ASSUME InReach(ports, offset, n, ports[j]) PROVE FALSE
      OBVIOUS
    <2>2. PICK b \in Written(offset, n) : b \in PortBytes(ports[j])
      BY <2>1 DEF InReach
    <2>3. b \in Nat /\ offset <= b /\ b < ports[j].offset + ports[j].size
      BY <2>2, <1>3, ByteOf, WrittenByte
    <2>4. ~(ports[j].offset <= offset /\ offset < ports[j].offset + ports[j].size)
      BY <1>3, ByteOf
    <2>5. ports[j].offset \in Nat /\ ports[j].size \in Nat
      BY <1>3, PortOf
    <2>6. offset < ports[j].offset
      <3> HIDE DEF N
      <3> QED
        BY <2>3, <2>4, <2>5
    <2> QED
      BY <2>1, <2>6, <1>4 DEF InReach
  <1> HIDE DEF scan
  <1>6. ~(L >= 1)
    <2>1. SUFFICES ASSUME L >= 1 PROVE FALSE
      OBVIOUS
    <2>2. 1 \in 1..L
      BY <2>1, <1>2
    <2>3. PICK k \in 1..N : scan.hits[1].port = ports[k]
      BY <2>2, <1>1 DEF HitsMade, GoodHit
    <2> QED
      BY <2>2, <2>3, <1>1, <1>5 DEF HitsMade
  <1>7. scan.over = 0
    <2>1. SUFFICES ASSUME scan.over >= 1 PROVE FALSE
      BY <1>2
    <2>2. offset \in Written(offset, scan.over)
      <3> DEFINE over == scan.over
      <3>1. over \in Nat /\ over >= 1
        BY <2>1, <1>2
      <3> HIDE DEF over
      <3>2. offset \in Written(offset, over)
        BY <3>1 DEF Written
      <3> QED
        BY <3>2 DEF over
    <2> QED
      BY <2>2, <1>1 DEF Prefix
  <1>8. scan.left + scan.over = n
    BY <1>1 DEF Prefix
  <1> QED
    BY <1>2, <1>6, <1>7, <1>8 DEF scan

(* The ports of the interrupt control have no gap.                         *)
LEMMA IcPorts ==
  ASSUME NEW o \in Nat, NEW n \in {1, 2, 4}, o + n <= 8,
         n = 2 => o % 2 = 0, n = 4 => o % 4 = 0
  PROVE  \/ o + n <= 4 /\ Written(o, n) \subseteq PortBytes(IStat)
         \/ o >= 4 /\ Written(o, n) \subseteq PortBytes(IMask)
  <1>1. o + n <= 4 \/ o >= 4
    <2>1. CASE n = 1
      BY <2>1
    <2>2. CASE n = 2
      BY <2>2
    <2>3. CASE n = 4
      BY <2>3
    <2> QED
      BY <2>1, <2>2, <2>3
  <1>2. PortBytes(IStat) = 0..3 /\ PortBytes(IMask) = 4..7
    BY PortFacts DEF PortBytes
  <1> QED
    BY <1>1, <1>2 DEF Written

(* A store that starts in a port of the SPU ends in it: words start        *)
(* between the ports.                                                      *)
LEMMA SpuPorts ==
  ASSUME NEW o \in Nat, NEW n \in {1, 2, 4},
         n = 2 => o % 2 = 0, n = 4 => o % 4 = 0,
         NEW p \in {SpuCnt, SpuStat}, o \in PortBytes(p)
  PROVE  Written(o, n) \subseteq PortBytes(p)
  <1> DEFINE c == p.offset
  <1>1. c \in Nat /\ c % 4 = 2 /\ p.size = 2
    <2>1. SpuCnt.offset \in Nat /\ SpuCnt.offset % 4 = 2
      BY PortFacts
    <2>2. (SpuCnt.offset + 4) % 4 = 2
      BY <2>1
    <2>3. CASE p = SpuCnt
      BY <2>1, <2>3, PortFacts
    <2>4. CASE p = SpuStat
      BY <2>1, <2>2, <2>4, PortFacts
    <2> QED
      BY <2>3, <2>4
  <1>2. PortBytes(p) = c..(c + 1)
    BY <1>1 DEF PortBytes
  <1> HIDE DEF c
  <1>3. o = c \/ o = c + 1
    BY <1>1, <1>2
  <1>4. n # 4
    BY <1>1, <1>3
  <1>5. n = 2 => o = c
    BY <1>1, <1>3
  <1> QED
    BY <1>1, <1>2, <1>3, <1>4, <1>5 DEF Written
-----------------------------------------------------------------------------
(* Registers                                                               *)

Memory == [0..(MemBytes - 1) -> SUBSET (0..7)]

LEMMA BytesOfType ==
  ASSUME NEW word, NEW n
  PROVE  BytesOf(word, n) \in [1..n -> SUBSET (0..7)]
  BY DEF BytesOf

LEMMA BitsOfType ==
  ASSUME NEW n \in {2, 4}, NEW bytes \in [1..n -> SUBSET (0..7)]
  PROVE  BitsOf(bytes) \in SUBSET (0..(8 * n - 1))
  <1>1. ASSUME NEW b \in 1..n, NEW i \in 0..7
        PROVE  8 * (b - 1) + i \in 0..(8 * n - 1)
    OBVIOUS
  <1> QED
    BY <1>1 DEF BitsOf

(* A word is cut into bytes and put together again.                        *)
LEMMA RoundTrip ==
  ASSUME NEW n \in {2, 4}, NEW word \in SUBSET (0..(8 * n - 1))
  PROVE  BitsOf(BytesOf(word, n)) = word
  <1> DEFINE bytes == BytesOf(word, n)
  <1>1. /\ DOMAIN bytes = 1..n
        /\ \A b \in 1..n : bytes[b] = {i \in 0..7 : 8 * (b - 1) + i \in word}
    BY DEF BytesOf
  <1> HIDE DEF bytes
  <1>2. ASSUME NEW b \in 1..n, NEW i \in bytes[b] PROVE 8 * (b - 1) + i \in word
    BY <1>1
  <1>3. ASSUME NEW x \in word
        PROVE  \E b \in 1..n : \E i \in bytes[b] : x = 8 * (b - 1) + i
    <2>1. \E b \in 1..n, i \in 0..7 : x = 8 * (b - 1) + i
      <3>1. x \in 0..(8 * n - 1)
        OBVIOUS
      <3>2. CASE x < 8
        <4>1. 1 \in 1..n /\ x \in 0..7 /\ x = 8 * (1 - 1) + x
          BY <3>1, <3>2
        <4> QED
          BY <4>1
      <3>3. CASE x >= 8 /\ x < 16
        <4>1. 2 \in 1..n /\ x - 8 \in 0..7 /\ x = 8 * (2 - 1) + (x - 8)
          BY <3>1, <3>3
        <4> QED
          BY <4>1
      <3>4. CASE x >= 16 /\ x < 24
        <4>1. 3 \in 1..n /\ x - 16 \in 0..7 /\ x = 8 * (3 - 1) + (x - 16)
          BY <3>1, <3>4
        <4> QED
          BY <4>1
      <3>5. CASE x >= 24
        <4>1. 4 \in 1..n /\ x - 24 \in 0..7 /\ x = 8 * (4 - 1) + (x - 24)
          BY <3>1, <3>5
        <4> QED
          BY <4>1
      <3> QED
        BY <3>1, <3>2, <3>3, <3>4, <3>5
    <2>2. PICK b \in 1..n, i \in 0..7 : x = 8 * (b - 1) + i
      BY <2>1
    <2>3. i \in bytes[b]
      BY <2>2, <1>1
    <2> QED
      BY <2>2, <2>3
  <1>4. BitsOf(bytes)
          = UNION {{8 * (b - 1) + i : i \in bytes[b]} : b \in 1..n}
    BY <1>1 DEF BitsOf
  <1>5. BitsOf(bytes) \subseteq word
    BY <1>2, <1>4
  <1>6. word \subseteq BitsOf(bytes)
    BY <1>3, <1>4
  <1> QED
    BY <1>5, <1>6 DEF bytes

LEMMA PlaceFacts ==
  /\ Place("ic", IStat) = Io /\ Place("ic", IMask) = Io + 4
  /\ Place("spu", SpuCnt) = Io + 16 + SpuCnt.offset
  /\ Place("spu", SpuStat) = Io + 20 + SpuCnt.offset
  /\ Io \in Nat /\ SpuCnt.offset \in Nat /\ MemBytes \in Nat
  /\ Io + 22 + SpuCnt.offset <= MemBytes
  <1>1. /\ Io \in Nat /\ MemBytes = Io + 16 + SpuSize /\ SpuSize \in Nat
        /\ SpuCnt.offset \in Nat /\ SpuCnt.offset + 6 <= SpuSize
        /\ SpuStat.offset = SpuCnt.offset + 4
    BY SizeFacts, PortFacts, BoardAssumption
  <1> DEFINE c == SpuCnt.offset
  <1>2. /\ Place("ic", IStat) = Io + 0 /\ Place("ic", IMask) = Io + 4
        /\ Place("spu", SpuCnt) = (Io + 16) + c
        /\ Place("spu", SpuStat) = (Io + 16) + (c + 4)
    BY <1>1, LayoutFacts, PortFacts DEF Place
  <1>3. c \in Nat /\ c + 6 <= SpuSize
    BY <1>1
  <1> HIDE DEF c
  <1>4. (Io + 16) + (c + 4) = Io + 20 + c /\ Io + 22 + c <= MemBytes
    BY <1>1, <1>3
  <1>5. MemBytes \in Nat
    BY SizeFacts
  <1> QED
    BY <1>1, <1>2, <1>3, <1>4, <1>5 DEF c

(* The registers with callbacks: within the memory, as wide as a port.     *)
RegisterAt(d, reg) ==
  \/ d = "ic" /\ reg \in {IStat, IMask}
  \/ d = "spu" /\ reg \in {SpuCnt, SpuStat}

LEMMA RegisterFacts ==
  ASSUME NEW d, NEW reg, RegisterAt(d, reg)
  PROVE  /\ Place(d, reg) \in Nat /\ reg.size \in {2, 4}
         /\ Place(d, reg) + reg.size <= MemBytes /\ MemBytes \in Nat
  <1> DEFINE c == SpuCnt.offset
  <1>1. /\ Place("ic", IStat) = Io /\ Place("ic", IMask) = Io + 4
        /\ Place("spu", SpuCnt) = Io + 16 + c
        /\ Place("spu", SpuStat) = Io + 20 + c
        /\ Io \in Nat /\ c \in Nat /\ MemBytes \in Nat
        /\ Io + 22 + c <= MemBytes
    BY PlaceFacts
  <1>2. IStat.size = 4 /\ IMask.size = 4 /\ SpuCnt.size = 2 /\ SpuStat.size = 2
    BY PortFacts
  <1> HIDE DEF c
  <1> QED
    BY <1>1, <1>2 DEF RegisterAt

LEMMA RegisterType ==
  ASSUME NEW m \in Memory, NEW d, NEW reg, RegisterAt(d, reg)
  PROVE  Register(m, d, reg) \in SUBSET (0..(8 * reg.size - 1))
  <1>1. /\ Place(d, reg) \in Nat /\ reg.size \in {2, 4}
        /\ Place(d, reg) + reg.size <= MemBytes /\ MemBytes \in Nat
    BY RegisterFacts
  <1>2. reg.size \in Nat
    BY <1>1
  <1>3. Bytes(m, Place(d, reg), reg.size) \in [1..reg.size -> SUBSET (0..7)]
    BY <1>1, <1>2, BytesType DEF Memory
  <1> QED
    BY <1>1, <1>3, BitsOfType DEF Register

(* What is written apart from a register leaves it alone.                  *)
LEMMA RegisterApart ==
  ASSUME NEW m \in Memory, NEW d, NEW reg, RegisterAt(d, reg),
         NEW from \in Nat, NEW n \in Nat, NEW value \in [1..n -> SUBSET (0..7)],
         \/ Place(d, reg) + reg.size <= from
         \/ from + n <= Place(d, reg)
  PROVE  Register(Overwritten(m, from, value), d, reg) = Register(m, d, reg)
  <1>1. /\ Place(d, reg) \in Nat /\ reg.size \in {2, 4}
        /\ Place(d, reg) + reg.size <= MemBytes /\ MemBytes \in Nat
    BY RegisterFacts
  <1>2. reg.size \in Nat
    BY <1>1
  <1>3. Bytes(Overwritten(m, from, value), Place(d, reg), reg.size)
          = Bytes(m, Place(d, reg), reg.size)
    <2> DEFINE place == Place(d, reg)
               size == reg.size
    <2>1. /\ place \in Nat /\ size \in Nat /\ place + size <= MemBytes
          /\ place + size <= from \/ from + n <= place
          /\ MemBytes \in Nat
          /\ DOMAIN m = 0..(MemBytes - 1) /\ DOMAIN value = 1..n
      BY <1>1, <1>2 DEF Memory
    <2> HIDE DEF place, size
    <2>2. Bytes(Overwritten(m, from, value), place, size) = Bytes(m, place, size)
      BY <2>1, <1>1, BytesApart
    <2> QED
      BY <2>2 DEF place, size
  <1> QED
    BY <1>3 DEF Register

LEMMA RegisterSet ==
  ASSUME NEW m \in Memory, NEW d, NEW reg, RegisterAt(d, reg),
         NEW word \in SUBSET (0..(8 * reg.size - 1))
  PROVE  /\ SetRegister(m, d, reg, word) \in Memory
         /\ Register(SetRegister(m, d, reg, word), d, reg) = word
  <1>1. /\ Place(d, reg) \in Nat /\ reg.size \in {2, 4}
        /\ Place(d, reg) + reg.size <= MemBytes /\ MemBytes \in Nat
    BY RegisterFacts
  <1>2. reg.size \in Nat
    BY <1>1
  <1> DEFINE bytes == BytesOf(word, reg.size)
  <1>3. bytes \in [1..reg.size -> SUBSET (0..7)]
    BY BytesOfType
  <1>4. BitsOf(bytes) = word
    BY <1>1, RoundTrip
  <1> HIDE DEF bytes
  <1>5. Bytes(Overwritten(m, Place(d, reg), bytes), Place(d, reg), reg.size)
          = bytes
    BY <1>1, <1>2, <1>3, BytesWritten DEF Memory
  <1>6. Overwritten(m, Place(d, reg), bytes) \in Memory
    BY <1>1, <1>2, <1>3, OverwrittenType DEF Memory
  <1>7. SetRegister(m, d, reg, word) = Overwritten(m, Place(d, reg), bytes)
    BY DEF SetRegister, bytes
  <1> QED
    BY <1>4, <1>5, <1>6, <1>7 DEF Register
-----------------------------------------------------------------------------
(* The callbacks                                                           *)

LEMMA NotifiedNone ==
  ASSUME NEW m, NEW d, NEW hits, Len(hits) = 0, NEW before
  PROVE  Notified(m, d, hits, before) = [mem |-> m, requested |-> FALSE]
  <1> DEFINE start == [mem |-> m, requested |-> FALSE]
             Follows(g) ==
               g = [i \in 0..Len(hits) |->
                      IF i = 0 THEN start ELSE PostWrite(g[i - 1], d, hits[i], before)]
             after == CHOOSE g : Follows(g)
  <1>1. Follows([i \in 0..0 |-> start])
    <2> HIDE DEF start
    <2> QED
      OBVIOUS
  <1>2. Follows(after)
    <2> HIDE DEF Follows
    <2> QED
      BY <1>1
  <1>3. Notified(m, d, hits, before) = after[0]
    BY DEF Notified
  <1> HIDE DEF after, start
  <1> QED
    BY <1>2, <1>3 DEF start

LEMMA NotifiedOne ==
  ASSUME NEW m, NEW d, NEW hits, Len(hits) = 1, NEW before
  PROVE  Notified(m, d, hits, before)
           = PostWrite([mem |-> m, requested |-> FALSE], d, hits[1], before)
  <1> DEFINE start == [mem |-> m, requested |-> FALSE]
             Follows(g) ==
               g = [i \in 0..Len(hits) |->
                      IF i = 0 THEN start ELSE PostWrite(g[i - 1], d, hits[i], before)]
             after == CHOOSE g : Follows(g)
             end == PostWrite(start, d, hits[1], before)
             f == [i \in 0..1 |-> IF i = 0 THEN start ELSE end]
  <1>1. Follows(f)
    <2> HIDE DEF start
    <2>1. \A i \in 0..1 :
            f[i] = IF i = 0 THEN start ELSE PostWrite(f[i - 1], d, hits[i], before)
      <3>1. f[0] = start /\ f[1] = end
        OBVIOUS
      <3>2. \A i \in 0..1 : i = 0 \/ i = 1
        OBVIOUS
      <3>3. 1 - 1 = 0 /\ 1 # 0
        OBVIOUS
      <3> HIDE DEF f
      <3> QED
        BY <3>1, <3>2, <3>3
    <2>2. f = [i \in 0..1 |-> f[i]]
      OBVIOUS
    <2> HIDE DEF f, end
    <2> QED
      BY <2>1, <2>2
  <1>2. Follows(after)
    <2> HIDE DEF Follows
    <2> QED
      BY <1>1
  <1>3. Notified(m, d, hits, before) = after[1]
    BY DEF Notified
  <1> HIDE DEF after, start
  <1>4. after[0] = start /\ after[1] = PostWrite(after[1 - 1], d, hits[1], before)
    <2>1. 0 \in 0..1 /\ 1 \in 0..1
      OBVIOUS
    <2> QED
      BY <1>2, <2>1
  <1>5. 1 - 1 = 0
    OBVIOUS
  <1> QED
    BY <1>3, <1>4, <1>5 DEF start

(* The mode bits of SPUCNT, put into an empty status.                      *)
LEMMA ModeBits ==
  ASSUME NEW word \in SUBSET (0..15)
  PROVE  /\ spu_mode.mask = 0..5
         /\ Put(spu_mode, {}, Get(spu_mode, word)) = word \cap (0..5)
  <1>1. IsMask(spu_mode, 0, 5)
    <2>1. 0 \in Int /\ 5 \in Int /\ 0 <= 5
      OBVIOUS
    <2>2. IsMask(BitField(0..5), 0, 5)
      BY <2>1, FieldOffset
    <2> QED
      BY <2>2 DEF spu_mode
  <1>2. word \in SUBSET Int /\ {} \in SUBSET Int
    OBVIOUS
  <1> DEFINE modes == Get(spu_mode, word)
             stat == Put(spu_mode, {}, modes)
  <1>3. modes \in SUBSET Int
    BY <1>1, <1>2, ShiftsAreWords DEF Get, IsMask
  <1>4. stat \in SUBSET Int
    BY <1>1, <1>3, ShiftsAreWords DEF Put, IsMask
  <1>5. ASSUME NEW b \in Int PROVE b \in stat <=> b \in word \cap (0..5)
    <2>1. b \in stat <=> b \in 0..5 /\ b - 0 \in modes
      <3> HIDE DEF modes
      <3> QED
        BY <1>1, <1>2, <1>3, PutMember
    <2>2. b \in modes <=> b \in 0..(5 - 0) /\ b + 0 \in word
      BY <1>1, <1>2, GetMember
    <2> HIDE DEF modes, stat
    <2> QED
      BY <2>1, <2>2
  <1>6. spu_mode.mask = 0..5
    BY <1>1 DEF IsMask
  <1> QED
    BY <1>4, <1>5, <1>6
-----------------------------------------------------------------------------
(* What a store that completes does, by where it lands: n bytes of device  *)
(* d, from the position at, after which the memory is m.                   *)
BesidePorts(d, m) ==
  /\ d # "ic" /\ (d = "spu" => ~Asserts)
  /\ mem' = m /\ requested' = FALSE /\ statStored' = statStored

InIStat(d, at, n, m) ==
  /\ d = "ic" /\ at >= Io /\ at + n <= Io + 4 /\ mem' = m
  /\ requested' = ((Register(m, "ic", IStat) \ Register(mem, "ic", IStat))
                     \cap Register(mem, "ic", IMask) # {})
  /\ statStored' = statStored

InIMask(d, at, n, m) ==
  /\ d = "ic" /\ at >= Io + 4 /\ at + n <= Io + 8 /\ mem' = m
  /\ requested' = FALSE /\ statStored' = statStored

InSpuCnt(d, at, n, m) ==
  /\ d = "spu" /\ at >= Io + 16 + SpuCnt.offset
  /\ at + n <= Io + 18 + SpuCnt.offset
  /\ mem' = SetRegister(m, "spu", SpuStat, Register(m, "spu", SpuCnt) \cap (0..5))
  /\ requested' = FALSE /\ statStored' = FALSE

InSpuStat(d, at, n, m) ==
  /\ d = "spu" /\ at >= Io + 20 + SpuCnt.offset
  /\ at + n <= Io + 22 + SpuCnt.offset /\ mem' = m
  /\ requested' = FALSE /\ statStored' = TRUE

Landed(d, at, n, m) ==
  \/ BesidePorts(d, m)
  \/ InIStat(d, at, n, m) \/ InIMask(d, at, n, m)
  \/ InSpuCnt(d, at, n, m) \/ InSpuStat(d, at, n, m)

AlignedStore(addr, value, n) ==
  /\ addr \in Nat /\ n \in {1, 2, 4} /\ addr % n = 0
  /\ value \in [1..n -> SUBSET (0..7)] /\ Len(value) = n

(* The store and its walk, before the callbacks.                           *)
LEMMA StoreScan ==
  ASSUME mem \in Memory, NEW addr, NEW n, NEW value,
         AlignedStore(addr, value, n), StoreDevice(addr, value)
  PROVE  LET d == Bus!Found(addr).device
             o == Bus!Offset(addr)
             at == Bus!Position(addr)
             m == Overwritten(mem, at, value)
             scan == Scan(Layout[d].ports, o, n)
             after == Notified(m, d, scan.hits, Bytes(mem, at, n))
         IN  /\ d \in Device /\ o \in Nat /\ o + n <= Layout[d].size
             /\ n = 2 => o % 2 = 0
             /\ n = 4 => o % 4 = 0
             /\ at = Layout[d].base + o /\ at \in Nat /\ at + n <= MemBytes
             /\ m \in Memory
             /\ mem' = after.mem /\ requested' = after.requested
             /\ status' = status /\ Hits(addr, value) = scan
             /\ ~Asserts \/ Len(Layout[d].ports) = 0 \/ scan.left = 0
  <1> DEFINE d == Bus!Found(addr).device
             o == Bus!Offset(addr)
             at == Bus!Position(addr)
             m == Overwritten(mem, at, value)
             scan == Scan(Layout[d].ports, o, n)
  <1>0. /\ addr \in Nat /\ n \in {1, 2, 4} /\ addr % n = 0 /\ n \in Nat /\ n >= 1
        /\ value \in [1..n -> SUBSET (0..7)] /\ Len(value) = n
    BY DEF AlignedStore
  <1>1. Bus!IsMapped(addr) /\ Bus!Survives(addr, n)
    BY <1>0 DEF StoreDevice, Completes
  <1>2. /\ d \in Device /\ o \in Nat /\ o + n <= Layout[d].size
        /\ n = 2 => o % 2 = 0
        /\ n = 4 => o % 4 = 0
        /\ at = Layout[d].base + o
    BY <1>0, <1>1, StaysInSlice
  <1>3. /\ Layout[d].base \in Nat /\ Layout[d].size \in Nat /\ MemBytes \in Nat
        /\ Layout[d].base + Layout[d].size <= MemBytes
    BY <1>2, SizeFacts
  <1>4. at \in Nat /\ at + n <= MemBytes
    <2> DEFINE base == Layout[d].base
               size == Layout[d].size
    <2>1. /\ base \in Nat /\ size \in Nat /\ o \in Nat /\ MemBytes \in Nat
          /\ base + size <= MemBytes /\ o + n <= size /\ at = base + o
      BY <1>2, <1>3
    <2> HIDE DEF base, size, o, at
    <2> QED
      BY <2>1, <1>0
  <1>5. m \in Memory
    <2>1. n \in Nat /\ value \in [1..n -> SUBSET (0..7)]
      BY <1>0
    <2> DEFINE D == 0..(MemBytes - 1)
    <2>2. mem \in [D -> SUBSET (0..7)] 
      BY DEF Memory
    <2> HIDE DEF at, D
    <2>3. m \in [D -> SUBSET (0..7)]
      BY <2>1, <2>2, <1>4, OverwrittenType
    <2> QED
      BY <2>3 DEF Memory, D
  <1>6. Hits(addr, value) = scan
    BY <1>0 DEF Hits
  <1>7. ~Asserts \/ Len(Layout[d].ports) = 0 \/ scan.left = 0
    BY <1>6 DEF StoreDevice, Completes
  <1> DEFINE after == Notified(m, d, scan.hits, Bytes(mem, at, n))
  <1>8. mem' = after.mem /\ requested' = after.requested /\ status' = status
    BY <1>0, <1>6 DEF StoreDevice
  <1> QED
    BY <1>2, <1>4, <1>5, <1>6, <1>7, <1>8

StoreIn(addr, n, value, d, reg) ==
  /\ AlignedStore(addr, value, n) /\ StoreDevice(addr, value)
  /\ d = Bus!Found(addr).device /\ RegisterAt(d, reg)
  /\ Written(Bus!Offset(addr), n) \subseteq PortBytes(reg)

CallOf(m, d, reg) ==
  [port |-> reg, new |-> Bytes(m, Place(d, reg), reg.size),
   old |-> Bytes(mem, Place(d, reg), reg.size)]

CalledBack(m, d, reg, hit, before) ==
  /\ CallOf(m, d, reg) = Informed(m, Layout[d].base, hit, before)
  /\ mem' = PostWrite([mem |-> m, requested |-> FALSE], d, hit, before).mem
  /\ requested'
       = PostWrite([mem |-> m, requested |-> FALSE], d, hit, before).requested

(* The store that lands in a port: its callback gets the values the port   *)
(* has and had, and runs on the memory after the store.                    *)
LEMMA StoreInPort ==
  ASSUME mem \in Memory, NEW addr, NEW n, NEW value, NEW d, NEW reg,
         StoreIn(addr, n, value, d, reg)
  PROVE  /\ \E hit : CalledBack(Overwritten(mem, Bus!Position(addr), value), d, reg,
                              hit, Bytes(mem, Bus!Position(addr), n))
         /\ \A port : Informs(addr, value, d, port) <=> port = reg
  <1> DEFINE o == Bus!Offset(addr)
             at == Bus!Position(addr)
             m == Overwritten(mem, at, value)
             ports == Layout[d].ports
             base == Layout[d].base
             scan == Scan(ports, o, n)
             before == Bytes(mem, at, n)
             hit == scan.hits[1]
  <1>0. /\ AlignedStore(addr, value, n) /\ StoreDevice(addr, value)
        /\ d = Bus!Found(addr).device /\ RegisterAt(d, reg)
        /\ Written(Bus!Offset(addr), n) \subseteq PortBytes(reg)
    BY DEF StoreIn
  <1>1. /\ d \in Device /\ o \in Nat
        /\ at = base + o /\ at \in Nat /\ at + n <= MemBytes
        /\ mem' = Notified(m, d, scan.hits, before).mem
        /\ requested' = Notified(m, d, scan.hits, before).requested
        /\ Hits(addr, value) = scan
    <2> DEFINE e == Bus!Found(addr).device
               walk == Scan(Layout[e].ports, o, n)
               end == Notified(m, e, walk.hits, before)
    <2>1. /\ e \in Device /\ o \in Nat /\ o + n <= Layout[e].size
          /\ n = 2 => o % 2 = 0
          /\ n = 4 => o % 4 = 0
          /\ at = Layout[e].base + o /\ at \in Nat /\ at + n <= MemBytes
          /\ m \in Memory
          /\ mem' = end.mem /\ requested' = end.requested
          /\ status' = status /\ Hits(addr, value) = walk
          /\ ~Asserts \/ Len(Layout[e].ports) = 0 \/ walk.left = 0
      BY <1>0, StoreScan
    <2>2. d = e
      BY <1>0
    <2> HIDE DEF e, m, before, o, at
    <2> QED
      BY <2>1, <2>2
  <1>2. ports \in Seq(PortType) /\ Sorted(ports) /\ base \in Nat
    BY <1>1, PortsFacts, SizeFacts
  <1>3. PICK i \in 1..Len(ports) : ports[i] = reg
    <2>1. CASE d = "ic"
      <3>1. ports = <<IStat, IMask>>
        BY <2>1, LayoutFacts
      <3>2. reg = IStat \/ reg = IMask
        BY <1>0, <2>1 DEF RegisterAt
      <3> HIDE DEF ports
      <3>3. /\ 1 \in 1..Len(ports) /\ ports[1] = IStat
            /\ 2 \in 1..Len(ports) /\ ports[2] = IMask
        BY <3>1
      <3> QED
        BY <3>2, <3>3
    <2>2. CASE d = "spu"
      <3>1. ports = <<SpuCnt, SpuStat>>
        BY <2>2, LayoutFacts
      <3>2. reg = SpuCnt \/ reg = SpuStat
        BY <1>0, <2>2 DEF RegisterAt
      <3> HIDE DEF ports
      <3>3. /\ 1 \in 1..Len(ports) /\ ports[1] = SpuCnt
            /\ 2 \in 1..Len(ports) /\ ports[2] = SpuStat
        BY <3>1
      <3> QED
        BY <3>2, <3>3
    <2> QED
      BY <1>0, <2>1, <2>2 DEF RegisterAt
  <1>4. /\ Len(scan.hits) = 1 /\ hit.port = reg /\ hit \in HitType
        /\ GoodHit(ports, o, n, Len(ports), hit)
    <2>1. n \in Nat /\ n >= 1
      BY <1>0 DEF AlignedStore
    <2>2. Written(o, n) \subseteq PortBytes(ports[i])
      BY <1>0, <1>3
    <2> HIDE DEF o, ports
    <2> QED
      BY <1>1, <1>2, <1>3, <2>1, <2>2, HitsOne
  <1>5. Place(d, reg) = base + reg.offset
    BY DEF Place
  <1>6. base + reg.offset + reg.size <= MemBytes /\ MemBytes \in Nat
    BY <1>0, <1>5, RegisterFacts
  <1>7. Informed(m, base, hit, before)
          = [port |-> reg, new |-> Bytes(m, Place(d, reg), reg.size),
             old |-> Bytes(mem, Place(d, reg), reg.size)]
    <2>1. DOMAIN mem = 0..(MemBytes - 1) /\ DOMAIN value = 1..n /\ n \in Nat
      BY <1>0 DEF Memory, AlignedStore
    <2>2. base + o + n <= MemBytes
      BY <1>1
    <2>3. base + hit.port.offset + hit.port.size <= MemBytes
      BY <1>4, <1>6
    <2> HIDE DEF hit, scan, base, o, ports
    <2>4. Informed(Overwritten(mem, base + o, value), base, hit,
                   Bytes(mem, base + o, n))
            = [port |-> hit.port,
               new |-> Bytes(Overwritten(mem, base + o, value),
                             base + hit.port.offset, hit.port.size),
               old |-> Bytes(mem, base + hit.port.offset, hit.port.size)]
      <3>1. /\ MemBytes \in Nat /\ DOMAIN mem = 0..(MemBytes - 1)
            /\ ports \in Seq(PortType) /\ base \in Nat /\ o \in Nat /\ n \in Nat
            /\ DOMAIN value = 1..n /\ base + o + n <= MemBytes
            /\ hit \in HitType /\ GoodHit(ports, o, n, Len(ports), hit)
            /\ base + hit.port.offset + hit.port.size <= MemBytes
        BY <1>1, <1>2, <1>4, <1>6, <2>1, <2>2, <2>3
      <3> QED
        BY <3>1, InformedValues
    <2> HIDE DEF at
    <2> QED
      BY <2>4, <1>1, <1>4, <1>5
  <1>8. Notified(m, d, scan.hits, before)
          = PostWrite([mem |-> m, requested |-> FALSE], d, hit, before)
    <2> HIDE DEF scan, m, before
    <2> QED
      BY <1>4, NotifiedOne
  <1>9. \A port : Informs(addr, value, d, port) <=> port = reg
    <2> HIDE DEF scan
    <2>1. 1..Len(scan.hits) = {1}
      BY <1>4
    <2> QED
      BY <2>1, <1>0, <1>1, <1>4 DEF Informs
  <1> HIDE DEF scan, hit, before, m
  <1>10. /\ mem' = PostWrite([mem |-> m, requested |-> FALSE], d, hit, before).mem
         /\ requested'
              = PostWrite([mem |-> m, requested |-> FALSE], d, hit, before).requested
    BY <1>1, <1>8
  <1>11. CallOf(m, d, reg) = Informed(m, Layout[d].base, hit, before)
    BY <1>7 DEF CallOf, base
  <1>12. CalledBack(m, d, reg, hit, before)
    BY <1>10, <1>11 DEF CalledBack
  <1> QED
    BY <1>9, <1>12 DEF m, before, at

Runs(m, d, reg) ==
  /\ d = "ic" /\ reg = IStat =>
       mem' = m /\ requested' = IStatRequests(m, CallOf(m, d, reg))
  /\ d = "ic" /\ reg = IMask => mem' = m /\ requested' = FALSE
  /\ d = "spu" /\ reg = SpuCnt =>
       mem' = SpuCntWritten(m, CallOf(m, d, reg)) /\ requested' = FALSE
  /\ d = "spu" /\ reg = SpuStat => mem' = m /\ requested' = FALSE

(* What the callback of a port does, by the port.                          *)
LEMMA CallRuns ==
  ASSUME NEW m, NEW d, NEW reg, RegisterAt(d, reg), NEW hit, NEW before,
         CalledBack(m, d, reg, hit, before)
  PROVE  Runs(m, d, reg)
  <1> DEFINE start == [mem |-> m, requested |-> FALSE]
             call == CallOf(m, d, reg)
             after == PostWrite(start, d, hit, before)
             spu == d = "spu" /\ call.port = SpuCnt
             ic == d = "ic" /\ call.port = IStat
  <1>1. start.mem = m /\ start.requested = FALSE
    OBVIOUS
  <1>2. IStat # IMask /\ SpuCnt # SpuStat
    <2>1. IStat.offset # IMask.offset
      BY PortFacts
    <2>2. SpuCnt.offset # SpuStat.offset
      BY PortFacts
    <2> QED
      BY <2>1, <2>2
  <1>0. call = Informed(m, Layout[d].base, hit, before) /\ call.port = reg
    BY DEF CalledBack, CallOf
  <1>11. mem' = after.mem /\ requested' = after.requested
    BY DEF CalledBack
  <1> HIDE DEF start, call
  <1>3. after = CASE spu -> [start EXCEPT !.mem = SpuCntWritten(start.mem, call)]
                  [] ic -> [start EXCEPT !.requested =
                              @ \/ IStatRequests(start.mem, call)]
                  [] OTHER -> start
    BY <1>0, <1>1, Zenon DEF PostWrite
  <1> HIDE DEF after
  <1>4. ASSUME spu
        PROVE  after = [start EXCEPT !.mem = SpuCntWritten(start.mem, call)]
    <2>1. spu /\ ~ic
      BY <1>4
    <2> HIDE DEF spu, ic
    <2> QED
      BY <2>1, <1>3, Zenon
  <1>5. ASSUME ic
        PROVE  after = [start EXCEPT !.requested = @ \/ IStatRequests(start.mem, call)]
    <2>1. ic /\ ~spu
      BY <1>5
    <2> HIDE DEF spu, ic
    <2> QED
      BY <2>1, <1>3, Zenon
  <1>6. ASSUME ~spu, ~ic PROVE after = start
    <2> HIDE DEF spu, ic
    <2> QED
      BY <1>6, <1>3, Zenon
  <1>7. ASSUME d = "ic", reg = IStat
        PROVE  after.mem = m /\ after.requested = IStatRequests(m, call)
    <2> DEFINE x == IStatRequests(m, call)
    <2>1. x \in BOOLEAN
      BY DEF IStatRequests
    <2>2. after = [start EXCEPT !.requested = start.requested \/ x]
      BY <1>0, <1>1, <1>5, <1>7
    <2> HIDE DEF x
    <2>3. (start.requested \/ x) = x
      BY <1>1, <2>1
    <2>4. after = [start EXCEPT !.requested = x]
      BY <2>2, <2>3
    <2>5. after.mem = m /\ after.requested = x
      BY <2>4 DEF start
    <2> QED
      BY <2>5 DEF x
  <1>8. ASSUME d = "ic", reg = IMask
        PROVE  after.mem = m /\ after.requested = FALSE
    BY <1>0, <1>6, <1>8, <1>1, <1>2
  <1>9. ASSUME d = "spu", reg = SpuCnt
        PROVE  after.mem = SpuCntWritten(m, call) /\ after.requested = FALSE
    BY <1>0, <1>4, <1>9 DEF start
  <1>10. ASSUME d = "spu", reg = SpuStat
        PROVE  after.mem = m /\ after.requested = FALSE
    BY <1>0, <1>6, <1>10, <1>1, <1>2
  <1> QED
    BY <1>7, <1>8, <1>9, <1>10, <1>11, Zenon DEF call, Runs

LEMMA StoreRuns ==
  ASSUME mem \in Memory, NEW addr, NEW n, NEW value, NEW d, NEW reg,
         StoreIn(addr, n, value, d, reg)
  PROVE  /\ Runs(Overwritten(mem, Bus!Position(addr), value), d, reg)
         /\ \A port : Informs(addr, value, d, port) <=> port = reg
  <1>1. RegisterAt(d, reg)
    BY DEF StoreIn
  <1> QED
    BY <1>1, StoreInPort, CallRuns

(* Every store that completes lands inside one port or beside all of them. *)
LEMMA StoreLands ==
  ASSUME mem \in Memory, NEW addr, NEW n, NEW value,
         AlignedStore(addr, value, n), StoreDevice(addr, value)
  PROVE  LET d == Bus!Found(addr).device
             at == Bus!Position(addr)
             m == Overwritten(mem, at, value)
         IN  /\ d \in Device /\ at \in Nat /\ m \in Memory /\ status' = status
             /\ Layout[d].base <= at
             /\ at + n <= Layout[d].base + Layout[d].size
             /\ Landed(d, at, n, m)
  <1> DEFINE d == Bus!Found(addr).device
             o == Bus!Offset(addr)
             at == Bus!Position(addr)
             m == Overwritten(mem, at, value)
             ports == Layout[d].ports
             scan == Scan(ports, o, n)
             after == Notified(m, d, scan.hits, Bytes(mem, at, n))
             start == [mem |-> m, requested |-> FALSE]
  <1>1. /\ d \in Device /\ o \in Nat /\ o + n <= Layout[d].size
        /\ n = 2 => o % 2 = 0
        /\ n = 4 => o % 4 = 0
        /\ at = Layout[d].base + o /\ at \in Nat /\ at + n <= MemBytes
        /\ m \in Memory
        /\ mem' = after.mem /\ requested' = after.requested
        /\ status' = status /\ Hits(addr, value) = scan
        /\ ~Asserts \/ Len(ports) = 0 \/ scan.left = 0
    BY StoreScan
  <1>2. n \in {1, 2, 4} /\ n \in Nat /\ n >= 1
    BY DEF AlignedStore
  <1>3. /\ Layout[d].base \in Nat /\ Layout[d].size \in Nat
        /\ ports \in Seq(PortType) /\ Sorted(ports)
    BY <1>1, SizeFacts, PortsFacts
  <1>4. Layout[d].base <= at /\ at + n <= Layout[d].base + Layout[d].size
    <2> DEFINE base == Layout[d].base
               size == Layout[d].size
    <2>1. /\ base \in Nat /\ size \in Nat /\ o \in Nat /\ n \in Nat
          /\ o + n <= size /\ at = base + o
      BY <1>1, <1>2, <1>3
    <2> HIDE DEF base, size, at, o
    <2>2. base <= at /\ at + n <= base + size
      BY <2>1
    <2> QED
      BY <2>2 DEF base, size
  <1>5. statStored' = IF Informs(addr, value, "spu", SpuStat) THEN TRUE
                      ELSE IF Informs(addr, value, "spu", SpuCnt) THEN FALSE
                      ELSE statStored
    BY DEF StoreDevice
  <1>6. ASSUME d # "spu" PROVE statStored' = statStored
    BY <1>5, <1>6 DEF Informs
  <1>7. ASSUME d # "ic", \A i \in 1..Len(ports) : o \notin PortBytes(ports[i]),
               d = "spu" => ~Asserts
        PROVE  BesidePorts(d, m)
    <2> HIDE DEF d, o, m, ports
    <2>1. Len(scan.hits) = 0
      BY <1>1, <1>2, <1>3, <1>7, HitsNone
    <2> HIDE DEF scan
    <2>2. after = [mem |-> m, requested |-> FALSE]
      BY <2>1, NotifiedNone
    <2>3. \A p : ~Informs(addr, value, "spu", p)
      BY <2>1, <1>1 DEF Informs
    <2> HIDE DEF after
    <2> QED
      BY <1>1, <1>5, <1>7, <2>2, <2>3 DEF BesidePorts
  <1>8. CASE d \in {"ram", "rom", "dma"}
    <2>1. ports = <<>>
      BY <1>8, LayoutFacts
    <2> HIDE DEF ports, d
    <2>2. BesidePorts(d, m)
      BY <1>7, <1>8, <2>1
    <2> QED
      BY <1>1, <1>4, <2>2 DEF Landed, d
  <1>9. CASE d = "ic"
    <2>1. Layout[d].base = Io /\ Layout[d].size = 8
      BY <1>9, LayoutFacts
    <2>2. at = Io + o /\ Io \in Nat /\ o \in Nat /\ o + n <= 8
      BY <1>1, <2>1, SizeFacts
    <2>3. \/ o + n <= 4 /\ Written(o, n) \subseteq PortBytes(IStat)
          \/ o >= 4 /\ Written(o, n) \subseteq PortBytes(IMask)
      BY <1>1, <1>2, <2>2, IcPorts
    <2>4. statStored' = statStored
      BY <1>6, <1>9
    <2>5. RegisterAt(d, IStat) /\ RegisterAt(d, IMask)
      BY <1>9 DEF RegisterAt
    <2>6. CASE o + n <= 4 /\ Written(o, n) \subseteq PortBytes(IStat)
      <3> DEFINE call == CallOf(m, d, IStat)
      <3>0. Runs(m, d, IStat)
        <4>1. StoreIn(addr, n, value, d, IStat)
          BY <2>5, <2>6 DEF StoreIn
        <4> QED
          BY <4>1, StoreRuns
      <3>1. mem' = m /\ requested' = IStatRequests(m, call)
        BY <1>9, <3>0 DEF Runs
      <3>2. at >= Io /\ at + n <= Io + 4
        <4> HIDE DEF at, o
        <4> QED
          BY <1>2, <2>2, <2>6
      <3>3. Register(m, "ic", IMask) = Register(mem, "ic", IMask)
        <4>1. at + n <= Place("ic", IMask)
          BY <3>2, PlaceFacts
        <4>2. RegisterAt("ic", IMask)
          BY <2>5, <1>9
        <4>3. value \in [1..n -> SUBSET (0..7)] /\ at \in Nat
          BY <1>1 DEF AlignedStore
        <4> HIDE DEF at
        <4> QED
          BY <1>2, <4>1, <4>2, <4>3, RegisterApart
      <3>4. /\ BitsOf(call.new) = Register(m, "ic", IStat)
            /\ BitsOf(call.old) = Register(mem, "ic", IStat)
        BY <1>9 DEF Register, CallOf
      <3> HIDE DEF call, m, at
      <3>5. IStatRequests(m, call)
              = ((Register(m, "ic", IStat) \ Register(mem, "ic", IStat))
                  \cap Register(mem, "ic", IMask) # {})
        <4> DEFINE new == Register(m, "ic", IStat)
                   old == Register(mem, "ic", IStat)
                   mask == Register(mem, "ic", IMask)
        <4>1. IStatRequests(m, call)
                = ((new \cap ((new \ old) \cup (old \ new))) \cap mask # {})
          BY <3>3, <3>4 DEF IStatRequests
        <4> HIDE DEF new, old, mask
        <4>2. (new \cap ((new \ old) \cup (old \ new))) \cap mask
                = (new \ old) \cap mask
          OBVIOUS
        <4> QED
          BY <4>1, <4>2 DEF new, old, mask
      <3>6. InIStat("ic", at, n, m)
        BY <2>4, <3>1, <3>2, <3>5 DEF InIStat
      <3> HIDE DEF d
      <3> QED
        BY <1>1, <1>4, <1>9, <3>6 DEF Landed, d, at, m
    <2>7. CASE o >= 4 /\ Written(o, n) \subseteq PortBytes(IMask)
      <3>1. mem' = m /\ requested' = FALSE
        <4>1. StoreIn(addr, n, value, d, IMask)
          BY <2>5, <2>7 DEF StoreIn
        <4>2. Runs(m, d, IMask)
          BY <4>1, StoreRuns
        <4> QED
          BY <1>9, <4>2 DEF Runs
      <3>2. at >= Io + 4 /\ at + n <= Io + 8
        <4> HIDE DEF at, o
        <4> QED
          BY <1>2, <2>2, <2>7
      <3> HIDE DEF m, at
      <3>3. InIMask("ic", at, n, m)
        BY <2>4, <3>1, <3>2 DEF InIMask
      <3> HIDE DEF d
      <3> QED
        BY <1>1, <1>4, <1>9, <3>3 DEF Landed, d, at, m
    <2> QED
      BY <2>3, <2>6, <2>7
  <1>10. CASE d = "spu"
    <2> DEFINE c == SpuCnt.offset
    <2>1. Layout[d].base = Io + 16 /\ ports = <<SpuCnt, SpuStat>>
      BY <1>10, LayoutFacts
    <2>2. at = Io + 16 + o /\ Io \in Nat /\ o \in Nat
      BY <1>1, <2>1, SizeFacts
    <2>3. /\ c \in Nat /\ PortBytes(SpuCnt) = c..(c + 1)
          /\ PortBytes(SpuStat) = (c + 4)..(c + 5)
      <3>1. /\ c \in Nat /\ SpuCnt.size = 2 /\ SpuStat.offset = c + 4
            /\ SpuStat.size = 2
        BY PortFacts
      <3> HIDE DEF c
      <3>2. /\ c + 2 - 1 = c + 1 /\ (c + 4) + 2 - 1 = c + 5
        BY <3>1
      <3>3. PortBytes(SpuCnt) = c..(c + 2 - 1)
        BY <3>1 DEF PortBytes, c
      <3>4. PortBytes(SpuStat) = (c + 4)..((c + 4) + 2 - 1)
        BY <3>1 DEF PortBytes
      <3> QED
        BY <3>1, <3>2, <3>3, <3>4
    <2>4. RegisterAt(d, SpuCnt) /\ RegisterAt(d, SpuStat)
      BY <1>10 DEF RegisterAt
    <2>5. SpuCnt # SpuStat
      <3>1. SpuCnt.offset # SpuStat.offset
        BY PortFacts
      <3> QED
        BY <3>1
    <2>6. CASE o \in PortBytes(SpuCnt)
      <3>1. Written(o, n) \subseteq PortBytes(SpuCnt)
        BY <1>1, <1>2, <2>6, SpuPorts
      <3> DEFINE call == CallOf(m, d, SpuCnt)
      <3>2. /\ mem' = SpuCntWritten(m, call) /\ requested' = FALSE
            /\ \A port : Informs(addr, value, d, port) <=> port = SpuCnt
        <4>1. StoreIn(addr, n, value, d, SpuCnt)
          BY <2>4, <3>1 DEF StoreIn
        <4>2. /\ Runs(m, d, SpuCnt)
              /\ \A port : Informs(addr, value, d, port) <=> port = SpuCnt
          BY <4>1, StoreRuns
        <4> QED
          BY <1>10, <4>2 DEF Runs
      <3>3. statStored' = FALSE
        BY <1>5, <1>10, <2>5, <3>2
      <3>4. at >= Io + 16 + c /\ at + n <= Io + 18 + c
        <4>1. o \in Written(o, n) /\ o + n - 1 \in Written(o, n)
          BY <1>2, <2>2 DEF Written
        <4>2. o \in c..(c + 1) /\ o + n - 1 \in c..(c + 1)
          BY <2>3, <3>1, <4>1
        <4> HIDE DEF at, o, c
        <4> QED
          BY <1>2, <2>2, <2>3, <4>2
      <3>5. BitsOf(call.new) = Register(m, "spu", SpuCnt)
        BY <1>10 DEF Register, CallOf
      <3>6. Register(m, "spu", SpuCnt) \in SUBSET (0..15)
        <4>1. RegisterAt("spu", SpuCnt)
          BY <2>4, <1>10
        <4>2. m \in Memory /\ SpuCnt.size = 2
          BY <1>1, PortFacts
        <4> HIDE DEF m
        <4>3. Register(m, "spu", SpuCnt) \in SUBSET (0..(8 * SpuCnt.size - 1))
          BY <4>1, <4>2, RegisterType
        <4>4. 8 * SpuCnt.size - 1 = 15
          BY <4>2
        <4> QED
          BY <4>3, <4>4
      <3> HIDE DEF call, m, at, c
      <3>7. Put(spu_mode, {}, Get(spu_mode, BitsOf(call.new)))
              = Register(m, "spu", SpuCnt) \cap (0..5)
        BY <3>5, <3>6, ModeBits
      <3>8. InSpuCnt("spu", at, n, m)
        BY <3>2, <3>3, <3>4, <3>7 DEF InSpuCnt, SpuCntWritten, c
      <3> HIDE DEF d
      <3> QED
        BY <1>1, <1>4, <1>10, <3>8 DEF Landed, d, at, m
    <2>7. CASE o \in PortBytes(SpuStat)
      <3>1. Written(o, n) \subseteq PortBytes(SpuStat)
        BY <1>1, <1>2, <2>7, SpuPorts
      <3>2. /\ mem' = m /\ requested' = FALSE
            /\ \A port : Informs(addr, value, d, port) <=> port = SpuStat
        <4>1. StoreIn(addr, n, value, d, SpuStat)
          BY <2>4, <3>1 DEF StoreIn
        <4>2. /\ Runs(m, d, SpuStat)
              /\ \A port : Informs(addr, value, d, port) <=> port = SpuStat
          BY <4>1, StoreRuns
        <4> QED
          BY <1>10, <4>2 DEF Runs
      <3>3. statStored' = TRUE
        BY <1>5, <1>10, <3>2
      <3>4. at >= Io + 20 + c /\ at + n <= Io + 22 + c
        <4>1. o \in Written(o, n) /\ o + n - 1 \in Written(o, n)
          BY <1>2, <2>2 DEF Written
        <4>2. o \in (c + 4)..(c + 5) /\ o + n - 1 \in (c + 4)..(c + 5)
          BY <2>3, <3>1, <4>1
        <4> HIDE DEF at, o, c
        <4> QED
          BY <1>2, <2>2, <2>3, <4>2
      <3> HIDE DEF m, at, c
      <3>5. InSpuStat("spu", at, n, m)
        BY <3>2, <3>3, <3>4 DEF InSpuStat, c
      <3> HIDE DEF d
      <3> QED
        BY <1>1, <1>4, <1>10, <3>5 DEF Landed, d, at, m
    <2>8. CASE o \notin PortBytes(SpuCnt) /\ o \notin PortBytes(SpuStat)
      <3>1. \A i \in 1..Len(ports) : o \notin PortBytes(ports[i])
        <4> HIDE DEF ports, o
        <4>1. Len(ports) = 2 /\ ports[1] = SpuCnt /\ ports[2] = SpuStat
          BY <2>1
        <4>2. \A i \in 1..2 : i = 1 \/ i = 2
          OBVIOUS
        <4> QED
          BY <4>1, <4>2, <2>8
      <3>2. Len(scan.hits) = 0 /\ scan.left = n
        <4> HIDE DEF ports, o
        <4> QED
          BY <1>1, <1>2, <1>3, <3>1, HitsNone
      <3>3. ~Asserts
        <4>1. Len(ports) = 2
          <5> HIDE DEF ports
          <5> QED
            BY <2>1
        <4> HIDE DEF ports, scan
        <4> QED
          BY <1>1, <1>2, <3>2, <4>1
      <3>4. BesidePorts(d, m)
        <4> HIDE DEF ports, m, o
        <4> QED
          BY <1>7, <1>10, <3>1, <3>3
      <3> HIDE DEF d, m, at
      <3> QED
        BY <1>1, <1>4, <3>4 DEF Landed, d, at, m
    <2> QED
      BY <2>6, <2>7, <2>8
  <1> QED
    BY <1>1, <1>8, <1>9, <1>10 DEF Device
-----------------------------------------------------------------------------
(* Steps                                                                   *)

(* What is written outside of the interrupt control keeps its registers,   *)
(* and what is written below or behind the two ports of the SPU keeps them. *)
IcKept(m, k) ==
  /\ Register(k, "ic", IStat) = Register(m, "ic", IStat)
  /\ Register(k, "ic", IMask) = Register(m, "ic", IMask)

SpuKept(m, k) ==
  /\ Register(k, "spu", SpuCnt) = Register(m, "spu", SpuCnt)
  /\ Register(k, "spu", SpuStat) = Register(m, "spu", SpuStat)

LEMMA KeepsIc ==
  ASSUME NEW m \in Memory, NEW from \in Nat, NEW n \in Nat,
         NEW value \in [1..n -> SUBSET (0..7)],
         from + n <= Io \/ from >= Io + 8
  PROVE  IcKept(m, Overwritten(m, from, value))
  <1>1. RegisterAt("ic", IStat) /\ RegisterAt("ic", IMask)
    BY DEF RegisterAt
  <1>2. /\ Place("ic", IStat) = Io /\ Place("ic", IMask) = Io + 4 /\ Io \in Nat
        /\ IStat.size = 4 /\ IMask.size = 4
    BY PlaceFacts, PortFacts
  <1>3. \/ Place("ic", IStat) + IStat.size <= from
        \/ from + n <= Place("ic", IStat)
    BY <1>2
  <1>4. \/ Place("ic", IMask) + IMask.size <= from
        \/ from + n <= Place("ic", IMask)
    BY <1>2
  <1>5. Register(Overwritten(m, from, value), "ic", IStat) = Register(m, "ic", IStat)
    BY <1>1, <1>3, RegisterApart
  <1>6. Register(Overwritten(m, from, value), "ic", IMask) = Register(m, "ic", IMask)
    BY <1>1, <1>4, RegisterApart
  <1> QED
    BY <1>5, <1>6 DEF IcKept

LEMMA KeepsSpu ==
  ASSUME NEW m \in Memory, NEW from \in Nat, NEW n \in Nat,
         NEW value \in [1..n -> SUBSET (0..7)],
         from + n <= Io + 16
  PROVE  SpuKept(m, Overwritten(m, from, value))
  <1> DEFINE c == SpuCnt.offset
  <1>1. RegisterAt("spu", SpuCnt) /\ RegisterAt("spu", SpuStat)
    BY DEF RegisterAt
  <1>2. /\ Place("spu", SpuCnt) = Io + 16 + c
        /\ Place("spu", SpuStat) = Io + 20 + c /\ Io \in Nat /\ c \in Nat
    BY PlaceFacts
  <1> HIDE DEF c
  <1>3. from + n <= Place("spu", SpuCnt) /\ from + n <= Place("spu", SpuStat)
    BY <1>2
  <1>4. Register(Overwritten(m, from, value), "spu", SpuCnt)
          = Register(m, "spu", SpuCnt)
    BY <1>1, <1>3, RegisterApart
  <1>5. Register(Overwritten(m, from, value), "spu", SpuStat)
          = Register(m, "spu", SpuStat)
    BY <1>1, <1>3, RegisterApart
  <1> QED
    BY <1>4, <1>5 DEF SpuKept

(* The registers after a step.  With the assertion of the bus compiled in, *)
(* no step changes SPUCNT or SPUSTAT beside their ports.                   *)
NoPort ==
  /\ IcKept(mem, mem') /\ (Asserts => SpuKept(mem, mem'))
  /\ requested' = FALSE /\ statStored' = statStored

Raises ==
  /\ SpuKept(mem, mem')
  /\ Register(mem', "ic", IMask) = Register(mem, "ic", IMask)
  /\ requested' = ((Register(mem', "ic", IStat) \ Register(mem, "ic", IStat))
                     \cap Register(mem, "ic", IMask) # {})
  /\ statStored' = statStored

Enables ==
  /\ SpuKept(mem, mem')
  /\ Register(mem', "ic", IStat) = Register(mem, "ic", IStat)
  /\ requested' = FALSE /\ statStored' = statStored

Controls ==
  /\ IcKept(mem, mem')
  /\ Register(mem', "spu", SpuStat) = Register(mem', "spu", SpuCnt) \cap (0..5)
  /\ requested' = FALSE /\ statStored' = FALSE

Overwrites ==
  /\ IcKept(mem, mem')
  /\ Register(mem', "spu", SpuCnt) = Register(mem, "spu", SpuCnt)
  /\ requested' = FALSE /\ statStored' = TRUE

Effect == NoPort \/ Raises \/ Enables \/ Controls \/ Overwrites

Lands(d, at, n, value) ==
  /\ d \in Device /\ at \in Nat /\ n \in {1, 2, 4}
  /\ value \in [1..n -> SUBSET (0..7)]
  /\ Overwritten(mem, at, value) \in Memory /\ status' = status
  /\ Layout[d].base <= at /\ at + n <= Layout[d].base + Layout[d].size
  /\ Landed(d, at, n, Overwritten(mem, at, value))

(* A store that lands has the effect of its port.                          *)
LEMMA LandsEffect ==
  ASSUME mem \in Memory, NEW d, NEW at, NEW n, NEW value, Lands(d, at, n, value)
  PROVE  mem' \in Memory /\ Effect
  <1> DEFINE m == Overwritten(mem, at, value)
             c == SpuCnt.offset
  <1>1. /\ d \in Device /\ at \in Nat /\ n \in Nat /\ m \in Memory
        /\ value \in [1..n -> SUBSET (0..7)]
        /\ Layout[d].base <= at /\ at + n <= Layout[d].base + Layout[d].size
        /\ Landed(d, at, n, m)
    BY DEF Lands
  <1>2. /\ Io \in Nat /\ c \in Nat
        /\ Place("ic", IStat) = Io /\ Place("ic", IMask) = Io + 4
        /\ Place("spu", SpuCnt) = Io + 16 + c
        /\ Place("spu", SpuStat) = Io + 20 + c
        /\ IStat.size = 4 /\ IMask.size = 4 /\ SpuCnt.size = 2 /\ SpuStat.size = 2
    BY PlaceFacts, PortFacts
  <1>3. /\ RegisterAt("ic", IStat) /\ RegisterAt("ic", IMask)
        /\ RegisterAt("spu", SpuCnt) /\ RegisterAt("spu", SpuStat)
    BY DEF RegisterAt
  <1>4. /\ at + n <= Io \/ at >= Io + 8 => IcKept(mem, m)
        /\ at + n <= Io + 16 => SpuKept(mem, m)
    <2>1. mem \in Memory /\ at \in Nat /\ n \in Nat
          /\ value \in [1..n -> SUBSET (0..7)]
      BY <1>1
    <2> QED
      BY <2>1, KeepsIc, KeepsSpu
  <1>5. ASSUME NEW e, NEW reg, RegisterAt(e, reg),
               Place(e, reg) + reg.size <= at \/ at + n <= Place(e, reg)
        PROVE  Register(m, e, reg) = Register(mem, e, reg)
    BY <1>1, <1>5, RegisterApart
  <1> HIDE DEF m, c
  <1>6. CASE BesidePorts(d, m)
    <2>1. mem' = m /\ requested' = FALSE /\ statStored' = statStored /\ d # "ic"
          /\ (d = "spu" => ~Asserts)
      BY <1>6 DEF BesidePorts
    <2>2. at + n <= Io \/ at >= Io + 8
      <3>1. CASE d = "ram"
        <4>1. RamSize \in Nat /\ RomSize \in Nat /\ at + n <= 0 + RamSize
          BY <1>1, <3>1, LayoutFacts, BoardAssumption
        <4> QED
          BY <1>1, <4>1 DEF Io
      <3>2. CASE d = "rom"
        <4>1. at + n <= RamSize + RomSize
          BY <1>1, <3>2, LayoutFacts
        <4> QED
          BY <4>1 DEF Io
      <3>3. CASE d = "dma"
        BY <1>1, <3>3, LayoutFacts
      <3>4. CASE d = "spu"
        <4>1. Io + 16 <= at
          BY <1>1, <3>4, LayoutFacts
        <4> QED
          BY <1>1, <1>2, <4>1
      <3> QED
        BY <1>1, <2>1, <3>1, <3>2, <3>3, <3>4 DEF Device
    <2>3. d # "spu" => at + n <= Io + 16
      <3>1. CASE d = "dma"
        <4>1. at + n <= (Io + 8) + 8
          BY <1>1, <3>1, LayoutFacts
        <4> QED
          BY <1>1, <1>2, <4>1
      <3>2. CASE d \in {"ram", "rom"}
        <4>1. at + n <= Io
          <5>1. CASE d = "ram"
            <6>1. RamSize \in Nat /\ RomSize \in Nat /\ at + n <= 0 + RamSize
              BY <1>1, <5>1, LayoutFacts, BoardAssumption
            <6> QED
              BY <1>1, <6>1 DEF Io
          <5>2. CASE d = "rom"
            <6>1. at + n <= RamSize + RomSize
              BY <1>1, <5>2, LayoutFacts
            <6> QED
              BY <6>1 DEF Io
          <5> QED
            BY <3>2, <5>1, <5>2
        <4> QED
          BY <1>1, <1>2, <4>1
      <3> QED
        BY <1>1, <2>1, <3>1, <3>2 DEF Device
    <2>4. IcKept(mem, m) /\ (Asserts => SpuKept(mem, m))
      BY <1>4, <2>1, <2>2, <2>3
    <2> QED
      BY <1>1, <2>1, <2>4 DEF Effect, NoPort
  <1>7. CASE InIStat(d, at, n, m)
    <2>1. /\ mem' = m /\ statStored' = statStored /\ at + n <= Io + 4
          /\ requested'
               = ((Register(m, "ic", IStat) \ Register(mem, "ic", IStat))
                    \cap Register(mem, "ic", IMask) # {})
      BY <1>7 DEF InIStat
    <2>2. at + n <= Io + 16 /\ at + n <= Place("ic", IMask)
      BY <1>1, <1>2, <2>1
    <2>3. SpuKept(mem, m) /\ Register(m, "ic", IMask) = Register(mem, "ic", IMask)
      BY <1>3, <1>4, <1>5, <2>2
    <2> QED
      BY <1>1, <2>1, <2>3 DEF Effect, Raises
  <1>8. CASE InIMask(d, at, n, m)
    <2>1. /\ mem' = m /\ statStored' = statStored /\ requested' = FALSE
          /\ at >= Io + 4 /\ at + n <= Io + 8
      BY <1>8 DEF InIMask
    <2>2. at + n <= Io + 16 /\ Place("ic", IStat) + IStat.size <= at
      BY <1>1, <1>2, <2>1
    <2>3. SpuKept(mem, m) /\ Register(m, "ic", IStat) = Register(mem, "ic", IStat)
      BY <1>3, <1>4, <1>5, <2>2
    <2> QED
      BY <1>1, <2>1, <2>3 DEF Effect, Enables
  <1>9. CASE InSpuCnt(d, at, n, m)
    <2> DEFINE modes == Register(m, "spu", SpuCnt) \cap (0..5)
               k == SetRegister(m, "spu", SpuStat, modes)
               bytes == BytesOf(modes, 2)
    <2>1. /\ mem' = k /\ statStored' = FALSE /\ requested' = FALSE
          /\ at >= Io + 16 + c
      BY <1>9 DEF InSpuCnt, c
    <2>2. IcKept(mem, m)
      BY <1>1, <1>2, <1>4, <2>1
    <2>3. modes \in SUBSET (0..15) /\ 8 * SpuStat.size - 1 = 15
      BY <1>2
    <2> HIDE DEF modes
    <2>4. k \in Memory /\ Register(k, "spu", SpuStat) = modes
      BY <1>1, <1>3, <2>3, RegisterSet
    <2>5. k = Overwritten(m, Io + 20 + c, bytes)
      BY <1>2 DEF SetRegister
    <2>6. bytes \in [1..2 -> SUBSET (0..7)]
      BY BytesOfType
    <2>7. Io + 20 + c \in Nat /\ Io + 20 + c >= Io + 8 /\ 2 \in Nat
      BY <1>2
    <2>8. Place("spu", SpuCnt) + SpuCnt.size <= Io + 20 + c
      BY <1>2
    <2> HIDE DEF k, bytes
    <2>9. IcKept(m, k)
      BY <1>1, <2>5, <2>6, <2>7, KeepsIc
    <2>10. Register(k, "spu", SpuCnt) = Register(m, "spu", SpuCnt)
      <3> DEFINE from == Io + 20 + c
                 size == 2
      <3>1. /\ m \in Memory /\ from \in Nat /\ size \in Nat
            /\ RegisterAt("spu", SpuCnt) /\ bytes \in [1..size -> SUBSET (0..7)]
            /\ Place("spu", SpuCnt) + SpuCnt.size <= from
        BY <1>1, <1>3, <2>6, <2>7, <2>8
      <3> HIDE DEF from, size
      <3>2. Register(Overwritten(m, from, bytes), "spu", SpuCnt)
              = Register(m, "spu", SpuCnt)
        BY <3>1, RegisterApart
      <3> QED
        BY <2>5, <3>2 DEF from
    <2>11. IcKept(mem, k) /\ Register(k, "spu", SpuStat)
                              = Register(k, "spu", SpuCnt) \cap (0..5)
      BY <2>2, <2>4, <2>9, <2>10 DEF IcKept, modes
    <2> QED
      BY <2>1, <2>4, <2>11 DEF Effect, Controls
  <1>10. CASE InSpuStat(d, at, n, m)
    <2>1. /\ mem' = m /\ statStored' = TRUE /\ requested' = FALSE
          /\ at >= Io + 20 + c
      BY <1>10 DEF InSpuStat, c
    <2>2. at >= Io + 8 /\ Place("spu", SpuCnt) + SpuCnt.size <= at
      BY <1>1, <1>2, <2>1
    <2>3. /\ IcKept(mem, m)
          /\ Register(m, "spu", SpuCnt) = Register(mem, "spu", SpuCnt)
      BY <1>3, <1>4, <1>5, <2>2
    <2> QED
      BY <1>1, <2>1, <2>3 DEF Effect, Overwrites
  <1> QED
    BY <1>1, <1>6, <1>7, <1>8, <1>9, <1>10 DEF Landed

(* interrupt_control::request                                              *)
LEMMA RequestEffect ==
  ASSUME mem \in Memory, Request
  PROVE  mem' \in Memory /\ status' = status /\ requested' \in BOOLEAN /\ Raises
  <1> DEFINE stat == Register(mem, "ic", IStat)
             mask == Register(mem, "ic", IMask)
             Call(changed) == [new |-> BytesOf(changed, 4), old |-> BytesOf(stat, 4)]
  <1>1. PICK pin \in Pins :
          /\ mem' = SetRegister(mem, "ic", IStat, stat \cup {pin})
          /\ requested' = (/\ stat \cup {pin} # stat
                           /\ IStatRequests(mem', Call(stat \cup {pin})))
    BY DEF Request
  <1>2. /\ Io \in Nat /\ Place("ic", IStat) = Io /\ Place("ic", IMask) = Io + 4
        /\ IStat.size = 4
    BY PlaceFacts, PortFacts
  <1>3. RegisterAt("ic", IStat) /\ RegisterAt("ic", IMask)
    BY DEF RegisterAt
  <1>4. 8 * IStat.size - 1 = 31
    BY <1>2
  <1>5. stat \in SUBSET (0..31)
    BY <1>3, <1>4, RegisterType
  <1> DEFINE changed == stat \cup {pin}
             bytes == BytesOf(changed, 4)
  <1>6. changed \in SUBSET (0..31)
    <2>1. pin \in 0..10
      BY BoardAssumption
    <2>2. pin \in 0..31
      BY <2>1
    <2> QED
      BY <1>5, <2>2
  <1> HIDE DEF stat, changed
  <1>7. mem' \in Memory /\ Register(mem', "ic", IStat) = changed
    BY <1>1, <1>3, <1>4, <1>6, RegisterSet DEF changed
  <1>8. BitsOf(BytesOf(changed, 4)) = changed /\ BitsOf(BytesOf(stat, 4)) = stat
    <2>1. 8 * 4 - 1 = 31 /\ 4 \in {2, 4}
      OBVIOUS
    <2> QED
      BY <1>5, <1>6, <2>1, RoundTrip
  <1>9. mem' = Overwritten(mem, Io, bytes) /\ bytes \in [1..4 -> SUBSET (0..7)]
    BY <1>1, <1>2, BytesOfType DEF SetRegister, changed
  <1> HIDE DEF bytes
  <1>10. SpuKept(mem, mem')
    <2>1. Io + 4 <= Io + 16 /\ 4 \in Nat
      BY <1>2
    <2> QED
      BY <1>2, <1>9, <2>1, KeepsSpu
  <1>11. Register(mem', "ic", IMask) = mask
    <2>1. /\ Io + 4 <= Place("ic", IMask) /\ 4 \in Nat /\ Io \in Nat
          /\ RegisterAt("ic", IMask) /\ bytes \in [1..4 -> SUBSET (0..7)]
      BY <1>2, <1>3, <1>9
    <2>2. Register(Overwritten(mem, Io, bytes), "ic", IMask)
            = Register(mem, "ic", IMask)
      BY <2>1, RegisterApart
    <2> QED
      BY <1>9, <2>2
  <1>12. requested' = ((changed \ stat) \cap mask # {})
    <2>1. IStatRequests(mem', Call(changed))
            = ((changed \cap ((changed \ stat) \cup (stat \ changed))) \cap mask # {})
      BY <1>8, <1>11 DEF IStatRequests
    <2>2. requested' = (changed # stat /\ IStatRequests(mem', Call(changed)))
      BY <1>1 DEF changed
    <2> HIDE DEF mask, Call
    <2>3. (changed \cap ((changed \ stat) \cup (stat \ changed))) \cap mask
            = (changed \ stat) \cap mask
      OBVIOUS
    <2>4. (changed \ stat) \cap mask # {} => changed # stat
      OBVIOUS
    <2> QED
      BY <2>1, <2>2, <2>3, <2>4
  <1>13. status' = status /\ statStored' = statStored
    BY DEF Request
  <1> QED
    BY <1>7, <1>10, <1>11, <1>12, <1>13 DEF Raises, stat

(* A store of the guest reaches nothing, aborts or lands.                  *)
LEMMA StoreCases ==
  ASSUME mem \in Memory, Store
  PROVE  \/ /\ mem' = mem /\ requested' = FALSE /\ statStored' = statStored
            /\ status' \in {status, "aborted"}
         \/ \E d, at, n, value : Lands(d, at, n, value)
  <1>1. PICK s \in Stores :
          LET addr == Aligned(s.addr, Len(s.value))
          IN  \/ StoreNowhere(addr)
              \/ StoreDevice(addr, s.value)
              \/ StoreAborts(addr, s.value)
    BY DEF Store
  <1> DEFINE n == Len(s.value)
             value == s.value
             addr == Aligned(s.addr, n)
  <1>2. s.addr \in Nat /\ n \in {1, 2, 4} /\ value \in [1..n -> SUBSET (0..7)]
    BY StoreFacts
  <1>3. addr \in Nat /\ addr % n = 0
    BY <1>2, AlignedFacts
  <1>4. AlignedStore(addr, value, n)
    BY <1>2, <1>3 DEF AlignedStore
  <1> HIDE DEF addr, n, value
  <1>5. CASE StoreNowhere(addr)
    BY <1>5 DEF StoreNowhere
  <1>6. CASE StoreAborts(addr, value)
    BY <1>6 DEF StoreAborts
  <1>7. CASE StoreDevice(addr, value)
    <2> DEFINE d == Bus!Found(addr).device
               at == Bus!Position(addr)
               m == Overwritten(mem, at, value)
    <2>1. /\ d \in Device /\ at \in Nat /\ m \in Memory /\ status' = status
          /\ Layout[d].base <= at
          /\ at + n <= Layout[d].base + Layout[d].size
          /\ Landed(d, at, n, m)
      BY <1>4, <1>7, StoreLands
    <2> HIDE DEF d, at
    <2>2. Lands(d, at, n, value)
      BY <1>2, <2>1 DEF Lands
    <2> QED
      BY <2>2
  <1> QED
    BY <1>1, <1>5, <1>6, <1>7 DEF addr, n, value

LEMMA StepEffect ==
  ASSUME TypeOK, Next
  PROVE  TypeOK' /\ Effect
  <1>1. /\ mem \in Memory /\ status \in {"up", "aborted"}
        /\ requested \in BOOLEAN /\ statStored \in BOOLEAN
    BY DEF TypeOK, Memory
  <1>2. CASE Store
    <2>1. CASE /\ mem' = mem /\ requested' = FALSE /\ statStored' = statStored
               /\ status' \in {status, "aborted"}
      <3>1. NoPort
        BY <2>1 DEF NoPort, IcKept, SpuKept
      <3>2. TypeOK'
        BY <1>1, <2>1 DEF TypeOK, Memory
      <3> QED
        BY <3>1, <3>2 DEF Effect
    <2>2. ASSUME NEW d, NEW at, NEW n, NEW value, Lands(d, at, n, value)
          PROVE  TypeOK' /\ Effect
      <3>1. mem' \in Memory /\ Effect
        BY <1>1, <2>2, LandsEffect
      <3>2. status' = status
        BY <2>2 DEF Lands
      <3>3. requested' \in BOOLEAN /\ statStored' \in BOOLEAN
        BY <1>1, <3>1 DEF Effect, NoPort, Raises, Enables, Controls, Overwrites
      <3> QED
        BY <1>1, <3>1, <3>2, <3>3 DEF TypeOK, Memory
    <2> QED
      BY <1>1, <1>2, <2>1, <2>2, StoreCases
  <1>3. CASE Request
    <2>1. mem' \in Memory /\ status' = status /\ requested' \in BOOLEAN /\ Raises
      BY <1>1, <1>3, RequestEffect
    <2>2. statStored' = statStored
      BY <2>1 DEF Raises
    <2> QED
      BY <1>1, <2>1, <2>2 DEF TypeOK, Memory, Effect
  <1> QED
    BY <1>2, <1>3 DEF Next

(* The registers with ports are zero at first.                             *)
LEMMA InitEffect ==
  ASSUME Init
  PROVE  /\ TypeOK /\ statStored = FALSE /\ requested = FALSE
         /\ Register(mem, "ic", IStat) = {} /\ Register(mem, "ic", IMask) = {}
         /\ Register(mem, "spu", SpuCnt) = {} /\ Register(mem, "spu", SpuStat) = {}
  <1> DEFINE zero == [q \in 0..(MemBytes - 1) |-> {}]
             word == {0, 5, 8, 9, 14, 16, 18, 21, 22, 24, 25, 26}
             bytes == BytesOf(word, 4)
             from == Io + 12
  <1>1. /\ status = "up" /\ mem = SetRegister(zero, "dma", Dicr, word)
        /\ requested = FALSE /\ statStored = FALSE
    BY DEF Init
  <1>2. zero \in Memory
    BY DEF Memory
  <1>3. ASSUME NEW d, NEW reg, RegisterAt(d, reg) PROVE Register(zero, d, reg) = {}
    <2>1. /\ Place(d, reg) \in Nat /\ reg.size \in {2, 4}
          /\ Place(d, reg) + reg.size <= MemBytes /\ MemBytes \in Nat
      BY <1>3, RegisterFacts
    <2> DEFINE bs == Bytes(zero, Place(d, reg), reg.size)
               place == Place(d, reg)
               size == reg.size
    <2>2. ASSUME NEW b \in 1..size PROVE bs[b] = {}
      <3>1. place \in Nat /\ size \in Nat /\ place + size <= MemBytes /\ MemBytes \in Nat
        BY <2>1
      <3>2. bs[b] = zero[place + b - 1]
        BY DEF Bytes
      <3> HIDE DEF place, size, bs
      <3>3. place + b - 1 \in 0..(MemBytes - 1)
        BY <3>1
      <3> QED
        BY <3>2, <3>3
    <2>3. DOMAIN bs = 1..size
      BY DEF Bytes
    <2>4. Register(zero, d, reg) = BitsOf(bs)
      BY DEF Register
    <2> HIDE DEF bs, size
    <2> QED
      BY <2>2, <2>3, <2>4 DEF BitsOf
  <1>4. bytes \in [1..4 -> SUBSET (0..7)]
    BY BytesOfType
  <1>5. Io \in Nat /\ Place("dma", Dicr) = Io + 12 /\ Dicr.size = 4
    <2>1. Io \in Nat
      BY SizeFacts
    <2>2. Dicr.offset = 4 /\ Dicr.size = 4
      BY DEF Dicr, Port
    <2>3. Place("dma", Dicr) = (Io + 8) + 4
      BY <2>2, LayoutFacts DEF Place
    <2> QED
      BY <2>1, <2>2, <2>3
  <1>6. mem = Overwritten(zero, from, bytes)
    BY <1>1, <1>5 DEF SetRegister
  <1>7. from \in Nat /\ 4 \in Nat /\ from >= Io + 8 /\ from + 4 <= Io + 16
    BY <1>5
  <1> HIDE DEF zero, word, bytes, from
  <1>8. mem \in Memory
    BY <1>2, <1>4, <1>6, <1>7, OverwrittenType DEF Memory
  <1>9. IcKept(zero, mem) /\ SpuKept(zero, mem)
    BY <1>2, <1>4, <1>6, <1>7, KeepsIc, KeepsSpu
  <1>10. /\ RegisterAt("ic", IStat) /\ RegisterAt("ic", IMask)
         /\ RegisterAt("spu", SpuCnt) /\ RegisterAt("spu", SpuStat)
    BY DEF RegisterAt
  <1>11. TypeOK
    BY <1>1, <1>8 DEF TypeOK, Memory
  <1> QED
    BY <1>1, <1>3, <1>9, <1>10, <1>11 DEF IcKept, SpuKept
-----------------------------------------------------------------------------
(* Theorems                                                                *)

(* The board memory stays made of bytes, whatever the callbacks write.     *)
THEOREM BoardTypes == Spec => []TypeOK
  <1>1. Init => TypeOK
    BY InitEffect
  <1>2. TypeOK /\ [Next]_vars => TypeOK'
    <2>1. ASSUME TypeOK, UNCHANGED vars PROVE TypeOK'
      BY <2>1 DEF TypeOK, vars
    <2> QED
      BY <2>1, StepEffect
  <1> QED
    BY <1>1, <1>2, PTL DEF Spec

(* interrupt_control signals exactly the enabled bits of I_STAT that rise, *)
(* for every store and every request of a device, wherever the board is    *)
(* connected.                                                              *)
THEOREM SignalsRisingBits == Spec => RequestedOnEdge
  <1> DEFINE Edge == requested' <=>
               (Register(mem', "ic", IStat) \ Register(mem, "ic", IStat))
                 \cap Register(mem, "ic", IMask) # {}
  <1>1. ASSUME Effect PROVE Edge
    BY <1>1 DEF Effect, NoPort, Raises, Enables, Controls, Overwrites, IcKept
  <1>2. TypeOK /\ [Next]_vars => [Edge]_vars
    <2>1. ASSUME TypeOK, Next PROVE Edge
      BY <1>1, <2>1, StepEffect
    <2> QED
      BY <2>1
  <1> QED
    BY <1>2, BoardTypes, PTL DEF Spec, RequestedOnEdge

(* spu::wcb: SPUSTAT shows the mode bits of SPUCNT until the guest stores  *)
(* to it.  Without the assertion of the bus a store beside the ports may   *)
(* change either register and no callback runs, hence the hypothesis.      *)
THEOREM StatusFollowsControl == Asserts => (Spec => []SpuStatusMirrors)
  <1> DEFINE Mirrors == ~statStored =>
               Register(mem, "spu", SpuStat) = Register(mem, "spu", SpuCnt) \cap (0..5)
  <1>1. Init => Mirrors
    BY InitEffect
  <1>2. ASSUME Asserts, TypeOK, Mirrors, [Next]_vars PROVE Mirrors'
    <2>1. CASE UNCHANGED vars
      BY <1>2, <2>1 DEF vars
    <2>2. CASE Next
      <3>1. Effect
        BY <1>2, <2>2, StepEffect
      <3> QED
        BY <1>2, <3>1
           DEF Effect, NoPort, Raises, Enables, Controls, Overwrites, SpuKept
    <2> QED
      BY <1>2, <2>1, <2>2
  <1>3. Mirrors <=> SpuStatusMirrors
    <2>1. {} \in SUBSET (0..15)
      OBVIOUS
    <2>2. spu_mode.mask = 0..5
      BY <2>1, ModeBits
    <2> QED
      BY <2>2 DEF SpuStatusMirrors
  <1> HIDE DEF Mirrors
  <1>4. Asserts => [](Asserts)
    OBVIOUS
  <1> QED
    BY <1>1, <1>2, <1>3, <1>4, BoardTypes, PTL DEF Spec

LEMMA ChangesWithin ==
  ASSUME NEW m \in Memory, NEW from \in Nat, NEW n \in Nat,
         NEW value \in [1..n -> SUBSET (0..7)], NEW base \in Nat, NEW size \in Nat,
         base <= from, from + n <= base + size,
         NEW q \in 0..(MemBytes - 1), Overwritten(m, from, value)[q] # m[q]
  PROVE  q \in base..(base + size - 1)
  <1>1. q - from + 1 \in 1..n
    <2>1. DOMAIN m = 0..(MemBytes - 1) /\ DOMAIN value = 1..n
      BY DEF Memory
    <2> QED
      BY <2>1 DEF Overwritten
  <1>2. q \in Int
    OBVIOUS
  <1> QED
    BY <1>1, <1>2

LEMMA StepStaysInSlice ==
  ASSUME TypeOK, Next
  PROVE  \E d \in Device :
           \A q \in 0..(MemBytes - 1) : mem'[q] # mem[q] => q \in Slice(d)
  <1>1. mem \in Memory
    BY DEF TypeOK, Memory
  <1>2. "ic" \in Device /\ "spu" \in Device
    BY DEF Device
  <1>3. ASSUME NEW d, NEW at, NEW n, NEW value, Lands(d, at, n, value),
               NEW q \in 0..(MemBytes - 1), mem'[q] # mem[q]
        PROVE  q \in Slice(d)
    <2> DEFINE m == Overwritten(mem, at, value)
               base == Layout[d].base
               size == Layout[d].size
    <2>1. /\ d \in Device /\ at \in Nat /\ n \in Nat /\ m \in Memory
          /\ value \in [1..n -> SUBSET (0..7)]
          /\ base <= at /\ at + n <= base + size /\ Landed(d, at, n, m)
      BY <1>3 DEF Lands
    <2>2. base \in Nat /\ size \in Nat
      BY <2>1, SizeFacts
    <2> HIDE DEF base, size
    <2>3. m[q] # mem[q] => q \in base..(base + size - 1)
      BY <1>1, <2>1, <2>2, ChangesWithin
    <2> HIDE DEF m
    <2>4. CASE mem' = m
      BY <1>3, <2>3, <2>4 DEF Slice, base, size
    <2>5. CASE InSpuCnt(d, at, n, m)
      <3> DEFINE modes == Register(m, "spu", SpuCnt) \cap (0..5)
                 bytes == BytesOf(modes, 2)
                 c == SpuCnt.offset
                 from == Io + 20 + c
      <3>1. d = "spu" /\ mem' = SetRegister(m, "spu", SpuStat, modes)
        BY <2>5 DEF InSpuCnt
      <3>2. /\ Place("spu", SpuStat) = from /\ SpuStat.size = 2
            /\ Io \in Nat /\ c \in Nat /\ c + 6 <= SpuSize /\ SpuSize \in Nat
        BY PlaceFacts, PortFacts, BoardAssumption
      <3>3. base = Io + 16 /\ size = SpuSize
        BY <3>1, LayoutFacts DEF base, size
      <3>4. mem' = Overwritten(m, from, bytes) /\ bytes \in [1..2 -> SUBSET (0..7)]
        BY <3>1, <3>2, BytesOfType DEF SetRegister
      <3> HIDE DEF modes, bytes, c
      <3>5. from \in Nat /\ 2 \in Nat /\ base <= from /\ from + 2 <= base + size
        BY <3>2, <3>3
      <3> HIDE DEF from
      <3>6. mem'[q] # m[q] => q \in base..(base + size - 1)
        <4> DEFINE k == 2
        <4>1. /\ m \in Memory /\ from \in Nat /\ k \in Nat /\ base \in Nat
              /\ bytes \in [1..k -> SUBSET (0..7)] /\ size \in Nat
              /\ base <= from /\ from + k <= base + size
          BY <2>1, <2>2, <3>4, <3>5
        <4> HIDE DEF k
        <4>2. Overwritten(m, from, bytes)[q] # m[q] => q \in base..(base + size - 1)
          BY <4>1, ChangesWithin
        <4> QED
          BY <3>4, <4>2
      <3> QED
        BY <1>3, <2>3, <3>6 DEF Slice, base, size
    <2> QED
      BY <2>1, <2>4, <2>5
         DEF Landed, BesidePorts, InIStat, InIMask, InSpuStat
  <1>4. CASE Store
    <2>1. CASE mem' = mem
      BY <1>2, <2>1
    <2>2. ASSUME NEW d, NEW at, NEW n, NEW value, Lands(d, at, n, value)
          PROVE  \E e \in Device :
                   \A q \in 0..(MemBytes - 1) : mem'[q] # mem[q] => q \in Slice(e)
      <3>1. d \in Device
        BY <2>2 DEF Lands
      <3> QED
        BY <1>3, <2>2, <3>1
    <2> QED
      BY <1>1, <1>4, <2>1, <2>2, StoreCases
  <1>5. CASE Request
    <2>1. PICK changed : mem' = SetRegister(mem, "ic", IStat, changed)
      BY <1>5 DEF Request
    <2>2. /\ Place("ic", IStat) = Io /\ IStat.size = 4 /\ Io \in Nat
          /\ Layout["ic"].base = Io /\ Layout["ic"].size = 8
      BY PlaceFacts, PortFacts, LayoutFacts
    <2> DEFINE bytes == BytesOf(changed, 4)
    <2>3. mem' = Overwritten(mem, Io, bytes) /\ bytes \in [1..4 -> SUBSET (0..7)]
      BY <2>1, <2>2, BytesOfType DEF SetRegister
    <2> HIDE DEF bytes
    <2>4. 4 \in Nat /\ 8 \in Nat /\ Io <= Io /\ Io + 4 <= Io + 8
      BY <2>2
    <2>5. \A q \in 0..(MemBytes - 1) :
            mem'[q] # mem[q] => q \in Io..(Io + 8 - 1)
      <3> DEFINE k == 4
                 size == 8
      <3>1. /\ mem \in Memory /\ Io \in Nat /\ k \in Nat /\ size \in Nat
            /\ bytes \in [1..k -> SUBSET (0..7)]
            /\ Io <= Io /\ Io + k <= Io + size
        BY <1>1, <2>2, <2>3, <2>4
      <3> HIDE DEF k, size
      <3>2. \A q \in 0..(MemBytes - 1) :
              Overwritten(mem, Io, bytes)[q] # mem[q] => q \in Io..(Io + size - 1)
        BY <3>1, ChangesWithin
      <3> QED
        BY <2>3, <3>2 DEF size
    <2>6. Slice("ic") = Io..(Io + 8 - 1)
      BY <2>2 DEF Slice
    <2> QED
      BY <1>2, <2>5, <2>6
  <1> QED
    BY <1>4, <1>5 DEF Next

(* build_layout_map and mips::write: a step of the guest or of a device    *)
(* changes bytes of one slice only, callbacks included.                    *)
THEOREM StepsStayInSlices == Spec => SlicesIsolated
  <1> DEFINE OneSlice == \E d \in Device :
               \A q \in 0..(MemBytes - 1) : mem'[q] # mem[q] => q \in Slice(d)
  <1>1. TypeOK /\ [Next]_vars => [OneSlice]_vars
    BY StepStaysInSlice
  <1> QED
    BY <1>1, BoardTypes, PTL DEF Spec, SlicesIsolated

LEMMA RegisterTypes ==
  ASSUME NEW m \in Memory
  PROVE  /\ Register(m, "ic", IStat) \in SUBSET R!Bits
         /\ Register(m, "ic", IMask) \in SUBSET R!Bits
         /\ Register(m, "spu", SpuCnt) \in R!Halfword
         /\ Register(m, "spu", SpuStat) \in R!Halfword
  <1>1. /\ RegisterAt("ic", IStat) /\ RegisterAt("ic", IMask)
        /\ RegisterAt("spu", SpuCnt) /\ RegisterAt("spu", SpuStat)
    BY DEF RegisterAt
  <1>2. /\ 8 * IStat.size - 1 = 31 /\ 8 * IMask.size - 1 = 31
        /\ 8 * SpuCnt.size - 1 = 15 /\ 8 * SpuStat.size - 1 = 15
    BY PortFacts
  <1> QED
    BY <1>1, <1>2, RegisterType DEF R!Bits, R!Halfword

(* The board implements the registers, step by step: the effect of a step  *)
(* is an action of Registers, or with no effect an I_MASK written with the *)
(* value it had.                                                           *)
LEMMA StepSimulates ==
  ASSUME Asserts, TypeOK, Next
  PROVE  R!Next
  <1>1. TypeOK' /\ Effect
    BY StepEffect
  <1>2. /\ Register(mem, "ic", IMask) \in SUBSET R!Bits
        /\ Register(mem', "ic", IStat) \in SUBSET R!Bits
        /\ Register(mem', "ic", IMask) \in SUBSET R!Bits
        /\ Register(mem', "spu", SpuCnt) \in R!Halfword
        /\ Register(mem', "spu", SpuStat) \in R!Halfword
    <2>1. mem \in Memory /\ mem' \in Memory
      BY <1>1 DEF TypeOK, Memory
    <2> QED
      BY <2>1, RegisterTypes
  <1>3. spu_mode.mask = 0..5
    <2>1. {} \in SUBSET (0..15)
      OBVIOUS
    <2> QED
      BY <2>1, ModeBits
  <1>4. CASE NoPort
    BY <1>2, <1>4 DEF NoPort, IcKept, SpuKept, R!Next, R!Enable
  <1>5. CASE Raises
    BY <1>2, <1>5 DEF Raises, SpuKept, R!Next, R!Pending
  <1>6. CASE Enables
    BY <1>2, <1>6 DEF Enables, SpuKept, R!Next, R!Enable
  <1>7. CASE Controls
    BY <1>2, <1>3, <1>7 DEF Controls, IcKept, R!Next, R!Control
  <1>8. CASE Overwrites
    BY <1>2, <1>8 DEF Overwrites, IcKept, R!Next, R!Overwrite
  <1> QED
    BY <1>1, <1>4, <1>5, <1>6, <1>7, <1>8 DEF Effect

(* The bytes of the board, its mirrors, the walk over the ports and the    *)
(* callbacks implement four independent registers, with the assertion of   *)
(* the bus compiled in.                                                    *)
THEOREM BoardImplementsRegisters == Asserts => (Spec => ImplementsRegisters)
  <1>1. Init => R!Init
    BY InitEffect DEF R!Init
  <1>2. ASSUME Asserts, TypeOK, [Next]_vars
        PROVE  [R!Next]_<<Register(mem, "ic", IStat), Register(mem, "ic", IMask),
                          Register(mem, "spu", SpuCnt),
                          Register(mem, "spu", SpuStat), requested>>
    <2>1. CASE UNCHANGED vars
      BY <2>1 DEF vars
    <2>2. CASE Next
      BY <1>2, <2>2, StepSimulates
    <2> QED
      BY <1>2, <2>1, <2>2
  <1>3. Asserts => [](Asserts)
    OBVIOUS
  <1> QED
    BY <1>1, <1>2, <1>3, BoardTypes, PTL DEF Spec, ImplementsRegisters, R!Spec
=============================================================================
