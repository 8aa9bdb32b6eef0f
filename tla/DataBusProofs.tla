---------------------------- MODULE DataBusProofs ----------------------------
(***************************************************************************)
(* For every layout of devices with sorted ports and every list of         *)
(* connections: the types, which ports a write reaches, and the values     *)
(* their callbacks get.                                                    *)
(***************************************************************************)
EXTENDS DataBus, DataPortsProofs, SequenceTheorems

(* A function over 1..n is a sequence of that length.                      *)
LEMMA Listed ==
  ASSUME NEW n \in Nat, NEW S, NEW v \in [1..n -> S]
  PROVE  v \in Seq(S) /\ Len(v) = n
  BY SeqDef

LEMMA ValueType ==
  ASSUME NEW value \in Values
  PROVE  Len(value) \in Width /\ Len(value) \in Nat /\ Len(value) >= 1
         /\ value \in [1..Len(value) -> Byte]
  <1>1. PICK n \in Width : value \in [1..n -> Byte]
    BY LayoutAssumption
  <1>2. n \in Nat /\ n >= 1
    BY DEF Width
  <1>3. Len(value) = n
    BY <1>1, <1>2, Listed
  <1> QED
    BY <1>1, <1>2, <1>3

(* The slices of the devices.                                              *)
LEMMA SliceOf ==
  ASSUME NEW d \in Device
  PROVE  /\ Layout[d].base \in Nat /\ Layout[d].size \in Nat
         /\ Layout[d].base + Layout[d].size <= MemBytes /\ MemBytes \in Nat
         /\ Layout[d].ports \in Seq(PortType) /\ Sorted(Layout[d].ports)
         /\ \A i \in 1..Len(Layout[d].ports) :
              LET p == Layout[d].ports[i]
              IN  p.offset + p.size <= Layout[d].size
  <1>1. Layout[d] \in [base : Nat, size : Nat \ {0}, ports : Seq(PortType)]
    BY LayoutAssumption
  <1>2. \A i \in 1..Len(Layout[d].ports) :
          LET p == Layout[d].ports[i]
          IN  /\ p.offset + p.size <= Layout[d].size
              /\ i > 1 => Layout[d].ports[i - 1].offset
                            + Layout[d].ports[i - 1].size <= p.offset
    BY SliceAssumption
  <1>3. Sorted(Layout[d].ports)
    <2>1. Len(Layout[d].ports) \in Nat
      BY <1>1
    <2>2. \A i \in 2..Len(Layout[d].ports) :
            i \in 1..Len(Layout[d].ports) /\ i > 1
      BY <2>1
    <2> QED
      BY <2>2, <1>2 DEF Sorted
  <1>4. MemBytes \in Nat /\ Layout[d].base + Layout[d].size <= MemBytes
    BY LayoutAssumption, SliceAssumption
  <1> QED
    BY <1>1, <1>2, <1>3, <1>4

(* Every mapped address is found in a connection, behind its start.        *)
LEMMA FoundType ==
  ASSUME NEW addr \in Nat, IsMapped(addr)
  PROVE  Found(addr).device \in Device /\ Offset(addr) \in Nat
  <1>1. Matching(addr) \in SUBSET Nat /\ Matching(addr) # {}
    BY DEF IsMapped, Matching
  <1>2. \E i \in Matching(addr) : \A j \in Matching(addr) : i <= j
    BY <1>1, LeastElement
  <1>3. PICK i \in Matching(addr) : Found(addr) = Ranges[i]
    BY <1>2 DEF Found
  <1>4. Ranges[i] \in [start : Nat, end : Nat, device : Device]
    <2>1. i \in 1..Len(Ranges)
      BY DEF Matching
    <2> QED
      BY <2>1, LayoutAssumption, ElementOfSeq
  <1>5. Ranges[i].start <= addr
    BY DEF Matching, InRange
  <1> QED
    BY <1>3, <1>4, <1>5 DEF Offset

(* What is known of a write that survives in a device.                     *)
LEMMA WriteScan ==
  ASSUME NEW addr \in Addresses, NEW value \in Values,
         IsMapped(addr), Survives(addr, Len(value))
  PROVE  LET d == Layout[Found(addr).device]
             n == Len(value)
             scan == Scan(d.ports, Offset(addr), n)
         IN  /\ Offset(addr) \in Nat /\ Position(addr) = d.base + Offset(addr)
             /\ Position(addr) \in Nat /\ Position(addr) + n <= MemBytes
             /\ scan \in State
             /\ HitsMade(d.ports, Offset(addr), n, Len(d.ports), scan)
  <1>1. addr \in Nat
    BY LayoutAssumption
  <1>2. Found(addr).device \in Device /\ Offset(addr) \in Nat
    BY <1>1, FoundType
  <1> DEFINE d == Layout[Found(addr).device]
  <1>3. /\ d.base \in Nat /\ d.ports \in Seq(PortType) /\ Sorted(d.ports)
    BY <1>2, SliceOf
  <1>4. Len(value) \in Nat
    BY ValueType
  <1>5. /\ Scan(d.ports, Offset(addr), Len(value)) \in State
        /\ HitsMade(d.ports, Offset(addr), Len(value), Len(d.ports),
                    Scan(d.ports, Offset(addr), Len(value)))
    BY <1>2, <1>3, <1>4, ScanWalks
  <1>6. /\ Position(addr) = d.base + Offset(addr) /\ Position(addr) \in Nat
        /\ Position(addr) + Len(value) <= MemBytes
    BY <1>2, <1>3 DEF Position, Survives
  <1> QED
    BY <1>2, <1>5, <1>6

(* The callbacks of a write in a device: the hits of the walk, each with   *)
(* the value of its port in the new memory and in the old one.             *)
LEMMA CallsOfWrite ==
  ASSUME NEW addr \in Addresses, NEW value \in Values,
         IsMapped(addr), Survives(addr, Len(value)),
         mem \in [0..(MemBytes - 1) -> Byte]
  PROVE  LET d == Layout[Found(addr).device]
             hits == Scan(d.ports, Offset(addr), Len(value)).hits
             after == Overwritten(mem, Position(addr), value)
             before == Bytes(mem, Position(addr), Len(value))
         IN  \A i \in 1..Len(hits) :
               LET p == hits[i].port
               IN  /\ p \in PortType /\ d.base + p.offset \in Nat
                   /\ d.base + p.offset + p.size <= MemBytes
                   /\ Informed(after, d.base, hits[i], before)
                        = [port |-> p, new |-> Bytes(after, d.base + p.offset, p.size),
                           old |-> Bytes(mem, d.base + p.offset, p.size)]
  <1> DEFINE d == Layout[Found(addr).device]
             n == Len(value)
             scan == Scan(d.ports, Offset(addr), n)
             hits == scan.hits
  <1>1. /\ Offset(addr) \in Nat /\ Position(addr) = d.base + Offset(addr)
        /\ Position(addr) + n <= MemBytes
        /\ scan \in State
        /\ HitsMade(d.ports, Offset(addr), n, Len(d.ports), scan)
    BY WriteScan
  <1>2. Found(addr).device \in Device
    BY LayoutAssumption, FoundType
  <1>3. /\ d.base \in Nat /\ d.ports \in Seq(PortType) /\ d.size \in Nat
        /\ d.base + d.size <= MemBytes /\ MemBytes \in Nat
        /\ \A i \in 1..Len(d.ports) :
             d.ports[i].offset + d.ports[i].size <= d.size
    BY <1>2, SliceOf
  <1>4. n \in Nat /\ value \in [1..n -> Byte]
    BY ValueType
  <1> HIDE DEF d, n, scan
  <1>5. ASSUME NEW i \in 1..Len(hits)
        PROVE  /\ hits[i].port \in PortType
               /\ d.base + hits[i].port.offset \in Nat
               /\ d.base + hits[i].port.offset + hits[i].port.size <= MemBytes
               /\ Informed(Overwritten(mem, Position(addr), value), d.base,
                           hits[i], Bytes(mem, Position(addr), n))
                    = [port |-> hits[i].port,
                       new |-> Bytes(Overwritten(mem, Position(addr), value),
                                     d.base + hits[i].port.offset,
                                     hits[i].port.size),
                       old |-> Bytes(mem, d.base + hits[i].port.offset,
                                     hits[i].port.size)]
    <2> DEFINE h == hits[i]
    <2>1. h \in HitType
      BY <1>1 DEF State
    <2>2. GoodHit(d.ports, Offset(addr), n, Len(d.ports), h)
      BY <1>1 DEF HitsMade
    <2> HIDE DEF h
    <2>3. PICK j \in 1..Len(d.ports) : h.port = d.ports[j]
      BY <2>2 DEF GoodHit
    <2>4. h.port \in PortType
      BY <2>1 DEF HitType
    <2> DEFINE o == h.port.offset
               z == h.port.size
    <2>5. o \in Nat /\ z \in Nat /\ o + z <= d.size
      BY <2>3, <2>4, <1>3, PortOf
    <2>6. d.base + o \in Nat /\ d.base + o + z <= MemBytes
      <3> DEFINE base == d.base
                 size == d.size
      <3>1. /\ base \in Nat /\ size \in Nat /\ base + size <= MemBytes
            /\ MemBytes \in Nat /\ o + z <= size
        BY <1>3, <2>5
      <3> HIDE DEF o, z, base, size
      <3>2. base + o \in Nat /\ base + o + z <= MemBytes
        BY <2>5, <3>1
      <3> QED
        BY <3>2 DEF base
    <2>7. d.base + Offset(addr) + n <= MemBytes
      BY <1>1
    <2>8. Informed(Overwritten(mem, Position(addr), value), d.base, h,
                   Bytes(mem, Position(addr), n))
            = [port |-> h.port,
               new |-> Bytes(Overwritten(mem, Position(addr), value),
                             d.base + h.port.offset, h.port.size),
               old |-> Bytes(mem, d.base + h.port.offset, h.port.size)]
      <3> DEFINE base == d.base
                 offset == Offset(addr)
                 at == Position(addr)
                 ports == d.ports
      <3>1. /\ base \in Nat /\ offset \in Nat /\ at = base + offset
            /\ ports \in Seq(PortType) /\ base + offset + n <= MemBytes
            /\ MemBytes \in Nat /\ GoodHit(ports, offset, n, Len(ports), h)
            /\ base + h.port.offset + h.port.size <= MemBytes
        BY <2>2, <2>6, <2>7, <1>1, <1>3
      <3> HIDE DEF base, offset, at, ports, hits, o, z
      <3>2. Informed(Overwritten(mem, base + offset, value), base, h,
                     Bytes(mem, base + offset, n))
              = [port |-> h.port,
                 new |-> Bytes(Overwritten(mem, base + offset, value),
                               base + h.port.offset, h.port.size),
                 old |-> Bytes(mem, base + h.port.offset, h.port.size)]
        <4>1. DOMAIN mem = 0..(MemBytes - 1) /\ DOMAIN value = 1..n
          BY <1>4
        <4> QED
          BY <2>1, <3>1, <4>1, <1>4, InformedValues
      <3> QED
        BY <3>1, <3>2 DEF base, at
    <2> QED
      BY <2>4, <2>6, <2>8 DEF h
  <1> QED
    BY <1>5 DEF d, n, scan

(* A write that completes, as the steps of Next make it.                   *)
LEMMA WroteIsWriteDevice ==
  ASSUME Next, Wrote
  PROVE  \E addr \in Addresses, value \in Values :
           LET d == Layout[Found(addr).device]
               scan == Scan(d.ports, Offset(addr), Len(value))
               before == Bytes(mem, Position(addr), Len(value))
           IN  /\ IsMapped(addr) /\ Survives(addr, Len(value))
               /\ last'.addr = addr /\ last'.value = value
               /\ mem' = Overwritten(mem, Position(addr), value)
               /\ last'.calls = [i \in 1..Len(scan.hits) |->
                                  Informed(mem', d.base, scan.hits[i], before)]
  <1>1. last'.op = "write" /\ status' = "up" /\ IsMapped(last'.addr)
    BY DEF Wrote
  <1>2. ~Read
    <2>1. SUFFICES ASSUME Read PROVE FALSE
      OBVIOUS
    <2>2. last'.op = "read"
      BY <2>1 DEF Read, Abort
    <2> QED
      BY <2>2, <1>1
  <1>3. PICK addr \in Addresses, value \in Values :
          \/ WriteUnmapped(addr, value)
          \/ WriteDevice(addr, value)
          \/ ~Survives(addr, Len(value)) /\ Abort("write", addr)
    BY <1>2 DEF Next, Write
  <1>4. ~WriteUnmapped(addr, value)
    BY <1>1 DEF WriteUnmapped
  <1>5. ~Abort("write", addr)
    BY <1>1 DEF Abort
  <1>6. WriteDevice(addr, value)
    BY <1>3, <1>4, <1>5
  <1> DEFINE d == Layout[Found(addr).device]
             scan == Scan(d.ports, Offset(addr), Len(value))
             before == Bytes(mem, Position(addr), Len(value))
  <1>7. /\ IsMapped(addr) /\ Survives(addr, Len(value))
        /\ last'.addr = addr /\ last'.value = value
        /\ mem' = Overwritten(mem, Position(addr), value)
        /\ last'.calls = [i \in 1..Len(scan.hits) |->
                           Informed(mem', d.base, scan.hits[i], before)]
    <2>1. IsMapped(addr) /\ Survives(addr, Len(value))
      BY <1>6 DEF WriteDevice
    <2>2. /\ mem' = Overwritten(mem, Position(addr), value)
          /\ last' = [op |-> "write", addr |-> addr, value |-> value,
                      calls |-> [i \in 1..Len(scan.hits) |->
                                   Informed(mem', d.base, scan.hits[i], before)]]
      BY <1>5, <1>6 DEF WriteDevice
    <2> QED
      BY <2>1, <2>2
  <1> QED
    BY <1>7

(* Its callbacks, by the ports they are for.                               *)
LEMMA CallsList ==
  ASSUME NEW hits, Len(hits) \in Nat, NEW m, NEW base, NEW before,
         NEW calls, calls = [i \in 1..Len(hits) |->
                               Informed(m, base, hits[i], before)]
  PROVE  /\ Len(calls) = Len(hits)
         /\ \A i \in 1..Len(hits) :
              /\ calls[i] = Informed(m, base, hits[i], before)
              /\ calls[i].port = hits[i].port
  <1>1. \A i \in 1..Len(hits) :
          /\ calls[i] = Informed(m, base, hits[i], before)
          /\ calls[i].port = hits[i].port
    BY DEF Informed
  <1>2. Len(calls) = Len(hits)
    <2> DEFINE S == {Informed(m, base, hits[i], before) : i \in 1..Len(hits)}
               n == Len(hits)
    <2>1. calls \in [1..n -> S] /\ n \in Nat
      OBVIOUS
    <2> HIDE DEF S, n
    <2>2. Len(calls) = n
      BY <2>1, Listed
    <2> QED
      BY <2>2 DEF n
  <1> QED
    BY <1>1, <1>2
-----------------------------------------------------------------------------
LEMMA OneStepTypeOK ==
  ASSUME TypeOK, [Next]_vars
  PROVE  TypeOK'
  <1> DEFINE Value == UNION {[1..n -> Byte] : n \in {0} \cup Width}
  <1>1. /\ mem \in [0..(MemBytes - 1) -> Byte] /\ status \in {"up", "aborted"}
        /\ MemBytes \in Nat
    BY LayoutAssumption DEF TypeOK
  <1>2. <<>> \in Value
    <2>1. <<>> \in [1..0 -> Byte]
      OBVIOUS
    <2> QED
      BY <2>1
  <1>3. \A n \in Width : [1..n -> Byte] \subseteq Value /\ n \in Nat
    <2>1. Width \subseteq Nat
      BY DEF Width
    <2> QED
      BY <2>1
  <1>4. Values \subseteq Value
    BY LayoutAssumption
  <1>5. ASSUME NEW op \in {"read", "write"}, NEW addr, Abort(op, addr)
        PROVE  TypeOK'
    <2>1. /\ last'.op = op /\ last'.value = <<>> /\ last'.calls = <<>>
          /\ mem' = mem /\ status' = "aborted"
      BY <1>5 DEF Abort
    <2> QED
      BY <2>1, <1>1, <1>2 DEF TypeOK
  <1>6. CASE Read
    <2>1. PICK addr \in Addresses, n \in Width :
            \/ /\ last' = [op |-> "read", addr |-> addr, calls |-> <<>>,
                            value |-> [b \in 1..n |-> OpenByte]]
               /\ UNCHANGED <<status, mem>>
            \/ /\ IsMapped(addr) /\ Survives(addr, n)
               /\ last' = [op |-> "read", addr |-> addr, calls |-> <<>>,
                            value |-> Bytes(mem, Position(addr), n)]
               /\ UNCHANGED <<status, mem>>
            \/ Abort("read", addr)
      BY <1>6 DEF Read
    <2>2. n \in Nat
      BY <1>3
    <2>3. CASE /\ last' = [op |-> "read", addr |-> addr, calls |-> <<>>,
                            value |-> [b \in 1..n |-> OpenByte]]
               /\ UNCHANGED <<status, mem>>
      <3>1. [b \in 1..n |-> OpenByte] \in Value
        BY <1>3, LayoutAssumption
      <3>2. last'.op = "read" /\ last'.calls = <<>> /\ last'.value \in Value
        BY <2>3, <3>1
      <3> HIDE DEF Value
      <3> QED
        BY <2>3, <3>2, <1>1 DEF TypeOK, Value
    <2>4. CASE /\ IsMapped(addr) /\ Survives(addr, n)
               /\ last' = [op |-> "read", addr |-> addr, calls |-> <<>>,
                            value |-> Bytes(mem, Position(addr), n)]
               /\ UNCHANGED <<status, mem>>
      <3>1. Position(addr) \in Nat
        <4>1. Found(addr).device \in Device /\ Offset(addr) \in Nat
          BY <2>4, LayoutAssumption, FoundType
        <4>2. Layout[Found(addr).device].base \in Nat
          BY <4>1, SliceOf
        <4> QED
          BY <4>1, <4>2 DEF Position
      <3>2. Bytes(mem, Position(addr), n) \in [1..n -> Byte]
        BY <2>2, <2>4, <3>1, <1>1, BytesType DEF Survives
      <3>3. Bytes(mem, Position(addr), n) \in Value
        BY <3>2, <1>3
      <3>4. last'.op = "read" /\ last'.calls = <<>> /\ last'.value \in Value
        BY <2>4, <3>3
      <3> HIDE DEF Value
      <3> QED
        BY <2>4, <3>4, <1>1 DEF TypeOK, Value
    <2> QED
      BY <2>1, <2>3, <2>4, <1>5
  <1>7. ASSUME NEW addr \in Addresses, NEW value \in Values,
               WriteUnmapped(addr, value)
        PROVE  TypeOK'
    <2>1. /\ last'.op = "write" /\ last'.value \in Value /\ last'.calls = <<>>
          /\ mem' = mem /\ status' = status
      BY <1>7, <1>4 DEF WriteUnmapped
    <2> HIDE DEF Value
    <2> QED
      BY <2>1, <1>1 DEF TypeOK, Value
  <1>8. ASSUME NEW addr \in Addresses, NEW value \in Values,
               WriteDevice(addr, value)
        PROVE  TypeOK'
    <2> DEFINE d == Layout[Found(addr).device]
               hits == Scan(d.ports, Offset(addr), Len(value)).hits
               before == Bytes(mem, Position(addr), Len(value))
               after == Overwritten(mem, Position(addr), value)
    <2>1. IsMapped(addr) /\ Survives(addr, Len(value))
      BY <1>8 DEF WriteDevice
    <2>2. CASE Abort("write", addr)
      BY <2>2, <1>5
    <2>3. CASE ~Abort("write", addr)
      <3>1. /\ mem' = after /\ status' = status
            /\ last' = [op |-> "write", addr |-> addr, value |-> value,
                        calls |-> [i \in 1..Len(hits) |->
                                     Informed(after, d.base, hits[i], before)]]
        BY <1>8, <2>3 DEF WriteDevice
      <3>2. /\ Len(value) \in Nat /\ value \in [1..Len(value) -> Byte]
            /\ Position(addr) \in Nat /\ Len(hits) \in Nat
        BY <2>1, ValueType, WriteScan DEF State
      <3>3. after \in [0..(MemBytes - 1) -> Byte]
        BY <3>2, <1>1, OverwrittenType
      <3>4. \A i \in 1..Len(hits) :
              LET p == hits[i].port
              IN  /\ p \in PortType /\ d.base + p.offset \in Nat
                  /\ d.base + p.offset + p.size <= MemBytes
                  /\ Informed(after, d.base, hits[i], before)
                       = [port |-> p,
                          new |-> Bytes(after, d.base + p.offset, p.size),
                          old |-> Bytes(mem, d.base + p.offset, p.size)]
        BY <2>1, <1>1, CallsOfWrite
      <3> DEFINE calls == last'.calls
      <3>5. calls = [i \in 1..Len(hits) |->
                       Informed(after, d.base, hits[i], before)]
        BY <3>1
      <3> HIDE DEF calls, hits, after, before, d, Value
      <3>6. /\ Len(calls) = Len(hits)
            /\ \A i \in 1..Len(hits) :
                 calls[i] = Informed(after, d.base, hits[i], before)
        BY <3>2, <3>5, CallsList
      <3>7. ASSUME NEW i \in 1..Len(calls) PROVE Callback(calls[i])
        <4> DEFINE p == hits[i].port
                   at == d.base + p.offset
        <4>1. i \in 1..Len(hits)
          BY <3>6
        <4>2. /\ p \in PortType /\ at \in Nat /\ at + p.size <= MemBytes
              /\ calls[i] = [port |-> p, new |-> Bytes(after, at, p.size),
                             old |-> Bytes(mem, at, p.size)]
          BY <4>1, <3>4, <3>6
        <4> HIDE DEF p, at
        <4>3. p.size \in Nat
          BY <4>2, PortOf
        <4>4. /\ Bytes(after, at, p.size) \in [1..p.size -> Byte]
              /\ Bytes(mem, at, p.size) \in [1..p.size -> Byte]
          BY <4>2, <4>3, <3>3, <1>1, BytesType
        <4> QED
          BY <4>2, <4>4 DEF Callback
      <3>8. \A i \in 1..Len(last'.calls) : Callback(last'.calls[i])
        BY <3>7 DEF calls
      <3>9. last'.op = "write" /\ last'.value \in Value
        BY <3>1, <1>4
      <3> QED
        BY <3>1, <3>3, <3>8, <3>9, <1>1 DEF TypeOK, Value, Callback
    <2> QED
      BY <2>2, <2>3
  <1>9. CASE UNCHANGED vars
    BY <1>9 DEF TypeOK, vars, Callback
  <1>10. CASE Write
    <2>1. PICK addr \in Addresses, value \in Values :
            \/ WriteUnmapped(addr, value)
            \/ WriteDevice(addr, value)
            \/ Abort("write", addr)
      BY <1>10 DEF Write
    <2> QED
      BY <2>1, <1>5, <1>7, <1>8
  <1> QED
    BY <1>6, <1>9, <1>10 DEF Next

(* data_bus and data_port: memory holds bytes, and a callback gets values  *)
(* as wide as its port, whatever the layout and the connections.           *)
THEOREM BusTypes == Spec => []TypeOK
  <1>1. Init => TypeOK
    <2> SUFFICES ASSUME Init PROVE TypeOK
      OBVIOUS
    <2>1. mem \in [0..(MemBytes - 1) -> Byte]
      BY LayoutAssumption DEF Init
    <2>2. last.op = "none" /\ last.value = <<>> /\ last.calls = <<>>
      BY DEF Init, NoAccess
    <2>3. <<>> \in UNION {[1..n -> Byte] : n \in {0} \cup Width}
      <3>1. <<>> \in [1..0 -> Byte]
        OBVIOUS
      <3> QED
        BY <3>1
    <2> QED
      BY <2>1, <2>2, <2>3 DEF Init, TypeOK
  <1>2. TypeOK /\ [Next]_vars => TypeOK'
    BY OneStepTypeOK
  <1> QED
    BY <1>1, <1>2, PTL DEF Spec
-----------------------------------------------------------------------------
(* touch_data_ports: a write informs, once and in address order, exactly   *)
(* the ports it overlaps up to the first gap between ports.                *)
THEOREM WritesReachPorts == Spec => PortsReached
  <1> DEFINE Reaches ==
        Wrote =>
          /\ {c.port : c \in CallsMade} = Reached(last'.addr, Len(last'.value))
          /\ \A i, j \in 1..Len(last'.calls) :
               i < j => last'.calls[i].port.offset < last'.calls[j].port.offset
  <1>1. ASSUME Next, Wrote
        PROVE  /\ {c.port : c \in CallsMade}
                    = Reached(last'.addr, Len(last'.value))
               /\ \A i, j \in 1..Len(last'.calls) :
                    i < j => last'.calls[i].port.offset
                               < last'.calls[j].port.offset
    <2>1. PICK addr \in Addresses, value \in Values :
            LET d == Layout[Found(addr).device]
                scan == Scan(d.ports, Offset(addr), Len(value))
                before == Bytes(mem, Position(addr), Len(value))
            IN  /\ IsMapped(addr) /\ Survives(addr, Len(value))
                /\ last'.addr = addr /\ last'.value = value
                /\ mem' = Overwritten(mem, Position(addr), value)
                /\ last'.calls = [i \in 1..Len(scan.hits) |->
                                   Informed(mem', d.base, scan.hits[i], before)]
      BY <1>1, WroteIsWriteDevice
    <2> DEFINE d == Layout[Found(addr).device]
               n == Len(value)
               scan == Scan(d.ports, Offset(addr), n)
               hits == scan.hits
               ports == d.ports
               calls == last'.calls
    <2>2. /\ scan \in State
          /\ HitsMade(ports, Offset(addr), n, Len(ports), scan)
      BY <2>1, WriteScan
    <2>3. Len(hits) \in Nat
      BY <2>2 DEF State
    <2>4. /\ Len(calls) = Len(hits)
          /\ \A i \in 1..Len(hits) : calls[i].port = hits[i].port
      <3>1. calls = [i \in 1..Len(hits) |->
                       Informed(mem', d.base, hits[i],
                                Bytes(mem, Position(addr), n))]
        BY <2>1
      <3> HIDE DEF calls, hits, d
      <3> QED
        BY <2>3, <3>1, CallsList, SMTT(30)
    <2>5. /\ \A i \in 1..Len(hits) : \E j \in 1..Len(ports) :
               hits[i].port = ports[j]
          /\ \A i, j \in 1..Len(hits) :
               i < j => hits[i].port.offset < hits[j].port.offset
          /\ \A j \in 1..Len(ports) :
               (\E i \in 1..Len(hits) : hits[i].port = ports[j])
                 <=> InReach(ports, Offset(addr), n, ports[j])
      <3> HIDE DEF scan
      <3> QED
        BY <2>2 DEF HitsMade, GoodHit
    <2>6. Ports(addr) = {ports[j] : j \in 1..Len(ports)}
      BY DEF Ports
    <2>7. WrittenBytes(addr, n) = Written(Offset(addr), n)
      BY DEF WrittenBytes, Written
    <2> HIDE DEF d, scan, hits, ports, calls
    <2>8. Reached(addr, n)
            = {p \in Ports(addr) : InReach(ports, Offset(addr), n, p)}
      <3>1. ASSUME NEW b
            PROVE  (\E o \in Ports(addr) : b \in PortBytes(o))
                     <=> \E j \in 1..Len(ports) : b \in PortBytes(ports[j])
        BY <2>6
      <3> QED
        BY <3>1, <2>7 DEF Reached, InReach
    <2>9. {c.port : c \in CallsMade} = {hits[i].port : i \in 1..Len(hits)}
      <3>1. CallsMade = {calls[i] : i \in 1..Len(hits)}
        BY <2>4 DEF CallsMade, calls
      <3> QED
        BY <3>1, <2>4
    <2>10. {hits[i].port : i \in 1..Len(hits)} = Reached(addr, n)
      <3>1. ASSUME NEW p \in Reached(addr, n)
            PROVE  \E i \in 1..Len(hits) : hits[i].port = p
        <4>1. PICK j \in 1..Len(ports) : p = ports[j]
          BY <2>6, <2>8
        <4> QED
          BY <4>1, <2>5, <2>8
      <3>2. ASSUME NEW i \in 1..Len(hits) PROVE hits[i].port \in Reached(addr, n)
        <4>1. PICK j \in 1..Len(ports) : hits[i].port = ports[j]
          BY <2>5
        <4>2. InReach(ports, Offset(addr), n, ports[j])
          BY <4>1, <2>5
        <4> QED
          BY <4>1, <4>2, <2>6, <2>8
      <3> QED
        BY <3>1, <3>2
    <2>11. \A i, j \in 1..Len(calls) :
             i < j => calls[i].port.offset < calls[j].port.offset
      BY <2>4, <2>5
    <2> QED
      BY <2>1, <2>9, <2>10, <2>11 DEF calls
  <1>2. ASSUME UNCHANGED vars PROVE ~Wrote
    BY <1>2 DEF vars, Wrote
  <1>3. [Next]_vars => [Reaches]_vars
    BY <1>1
  <1> QED
    BY <1>3, PTL DEF Spec, PortsReached

(* data_port::post_write: each callback gets the value its port had before *)
(* the write and the one it has after it.                                  *)
THEOREM CallbacksGetValues == Spec => CallbackValues
  <1> DEFINE Values2 ==
        Wrote =>
          \A c \in CallsMade :
            LET at == Layout[Found(last'.addr).device].base + c.port.offset
            IN  /\ c.new = Bytes(mem', at, c.port.size)
                /\ c.old = Bytes(mem, at, c.port.size)
  <1>1. ASSUME TypeOK, Next, Wrote, NEW c \in CallsMade
        PROVE  LET at == Layout[Found(last'.addr).device].base + c.port.offset
               IN  /\ c.new = Bytes(mem', at, c.port.size)
                   /\ c.old = Bytes(mem, at, c.port.size)
    <2>1. PICK addr \in Addresses, value \in Values :
            LET d == Layout[Found(addr).device]
                scan == Scan(d.ports, Offset(addr), Len(value))
                before == Bytes(mem, Position(addr), Len(value))
            IN  /\ IsMapped(addr) /\ Survives(addr, Len(value))
                /\ last'.addr = addr /\ last'.value = value
                /\ mem' = Overwritten(mem, Position(addr), value)
                /\ last'.calls = [i \in 1..Len(scan.hits) |->
                                   Informed(mem', d.base, scan.hits[i], before)]
      BY <1>1, WroteIsWriteDevice
    <2> DEFINE d == Layout[Found(addr).device]
               n == Len(value)
               scan == Scan(d.ports, Offset(addr), n)
               hits == scan.hits
               before == Bytes(mem, Position(addr), n)
               calls == last'.calls
    <2>2. scan \in State
      BY <2>1, WriteScan
    <2>3. Len(hits) \in Nat
      BY <2>2 DEF State
    <2>4. mem \in [0..(MemBytes - 1) -> Byte]
      BY <1>1 DEF TypeOK
    <2>5. \A i \in 1..Len(hits) :
            LET p == hits[i].port
            IN  Informed(mem', d.base, hits[i], before)
                  = [port |-> p, new |-> Bytes(mem', d.base + p.offset, p.size),
                     old |-> Bytes(mem, d.base + p.offset, p.size)]
      <3> DEFINE after == Overwritten(mem, Position(addr), value)
      <3>0. IsMapped(addr) /\ Survives(addr, Len(value))
        BY <2>1
      <3>1. \A i \in 1..Len(hits) :
              LET p == hits[i].port
              IN  /\ p \in PortType /\ d.base + p.offset \in Nat
                  /\ d.base + p.offset + p.size <= MemBytes
                  /\ Informed(after, d.base, hits[i], before)
                       = [port |-> p,
                          new |-> Bytes(after, d.base + p.offset, p.size),
                          old |-> Bytes(mem, d.base + p.offset, p.size)]
        BY <3>0, <2>4, CallsOfWrite
      <3>2. mem' = after
        BY <2>1
      <3> HIDE DEF d, scan, hits, before, after
      <3> QED
        BY <3>1, <3>2
    <2>6. calls = [i \in 1..Len(hits) |->
                     Informed(mem', d.base, hits[i], before)]
      BY <2>1
    <2>7. d = Layout[Found(last'.addr).device]
      BY <2>1
    <2> HIDE DEF d, scan, hits, before, calls
    <2>8. /\ Len(calls) = Len(hits)
          /\ \A i \in 1..Len(hits) :
               calls[i] = Informed(mem', d.base, hits[i], before)
      BY <2>3, <2>6, CallsList
    <2>9. PICK i \in 1..Len(hits) : c = Informed(mem', d.base, hits[i], before)
      BY <1>1, <2>8 DEF CallsMade, calls
    <2>10. c = [port |-> hits[i].port,
                new |-> Bytes(mem', d.base + hits[i].port.offset,
                              hits[i].port.size),
                old |-> Bytes(mem, d.base + hits[i].port.offset,
                              hits[i].port.size)]
      BY <2>5, <2>9
    <2> QED
      BY <2>7, <2>10
  <1>2. TypeOK /\ [Next]_vars => [Values2]_vars
    BY <1>1
  <1> QED
    BY <1>2, BusTypes, PTL DEF Spec, CallbackValues
=============================================================================
