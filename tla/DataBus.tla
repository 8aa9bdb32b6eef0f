------------------------------ MODULE DataBus -------------------------------
(***************************************************************************)
(* psycris::bus::data_bus (src/src/hw/bus.hpp): reads and writes of 1, 2   *)
(* or 4 bytes are routed to the first device connected at their address,   *)
(* and a write informs the data ports of the device that it touches.      *)
(*                                                                         *)
(* The devices own slices of one board memory (src/src/psx.cpp), a         *)
(* function from positions to bytes.  What the callbacks of the devices do *)
(* is modelled with the devices, here they are only recorded.              *)
(***************************************************************************)
EXTENDS DataPorts

CONSTANTS
  Device,    \* the connected devices
  Layout,    \* for each its base in the board memory, size and sorted ports
  Ranges,    \* the connections, in order
  MemBytes,  \* the size of the board memory
  Byte,      \* what a byte can hold
  ZeroByte,  \* a byte of the memory before anything is written
  OpenByte,  \* a byte of the open bus, 0xff
  Asserts,   \* is assert() compiled in (NDEBUG not defined)?
  Addresses, \* the addresses accessed
  Values     \* the values written, byte sequences

(* data_bus::connect: with only a start, the range ends at start + size.   *)
Connect(start, d, size) ==
  [start |-> start, end |-> start + size, device |-> d]

ASSUME LayoutAssumption ==
  /\ MemBytes \in Nat
  /\ {ZeroByte, OpenByte} \subseteq Byte
  /\ Asserts \in BOOLEAN /\ Addresses \subseteq Nat
  /\ Values \subseteq UNION {[1..n -> Byte] : n \in Width}
  /\ Layout \in [Device -> [base : Nat, size : Nat \ {0}, ports : Seq(PortType)]]
  /\ Ranges \in Seq([start : Nat, end : Nat, device : Device])

(* What build_layout_map and the static assertions of mmap_device ensure.  *)
ASSUME SliceAssumption ==
  /\ \A d \in Device : Layout[d].base + Layout[d].size <= MemBytes
  /\ \A d, e \in Device : d # e =>
       (Layout[d].base..(Layout[d].base + Layout[d].size - 1))
         \cap (Layout[e].base..(Layout[e].base + Layout[e].size - 1)) = {}
  /\ \A d \in Device : \A i \in 1..Len(Layout[d].ports) :
       LET p == Layout[d].ports[i]
       IN  /\ p.offset + p.size <= Layout[d].size
           /\ i > 1 => Layout[d].ports[i - 1].offset
                         + Layout[d].ports[i - 1].size <= p.offset

VARIABLES
  status,  \* "up", or "aborted" when the access terminated the program
  mem,     \* the board memory
  last     \* the last access: its operation, result and the callbacks made

vars == <<status, mem, last>>
-----------------------------------------------------------------------------
InRange(r, addr) == r.start <= addr /\ addr <= r.end

(* find_device: the first connection that matches, if any.                 *)
Matching(addr) == {i \in 1..Len(Ranges) : InRange(Ranges[i], addr)}

IsMapped(addr) == Matching(addr) # {}

Found(addr) ==
  Ranges[CHOOSE i \in Matching(addr) : \A j \in Matching(addr) : i <= j]

(* device_map::offset, and the place of the access in the board memory.    *)
Offset(addr) == addr - Found(addr).start

Position(addr) == Layout[Found(addr).device].base + Offset(addr)

(* Indexing the gsl::span of the device checks the first byte only; the    *)
(* copy of the others may run into the next slice, or, which the address   *)
(* sanitizer stops, over the end of the board memory.                      *)
Survives(addr, n) ==
  /\ Offset(addr) < Layout[Found(addr).device].size
  /\ Position(addr) + n <= MemBytes

(* A port is read as four bytes whatever its size.                         *)
PortReadable(base, hit) == base + hit.port.offset + 4 <= MemBytes

NoAccess == [op |-> "none", addr |-> 0, value |-> <<>>, calls |-> <<>>]

Abort(op, addr) ==
  /\ status' = "aborted"
  /\ last' = [op |-> op, addr |-> addr, value |-> <<>>, calls |-> <<>>]
  /\ UNCHANGED mem

Read ==
  /\ status = "up"
  /\ \E addr \in Addresses, n \in Width :
       \/ /\ ~IsMapped(addr)
          /\ last' = [op |-> "read", addr |-> addr, calls |-> <<>>,
                      value |-> [b \in 1..n |-> OpenByte]]
          /\ UNCHANGED <<status, mem>>
       \/ /\ IsMapped(addr) /\ Survives(addr, n)
          /\ last' = [op |-> "read", addr |-> addr, calls |-> <<>>,
                      value |-> Bytes(mem, Position(addr), n)]
          /\ UNCHANGED <<status, mem>>
       \/ /\ IsMapped(addr) /\ ~Survives(addr, n)
          /\ Abort("read", addr)

WriteUnmapped(addr, value) ==
  /\ ~IsMapped(addr)
  /\ last' = [op |-> "write", addr |-> addr, value |-> value, calls |-> <<>>]
  /\ UNCHANGED <<status, mem>>

(* A write to a device with ports that does not end inside the last port   *)
(* it reaches is not implemented: the assertion says so.                   *)
WriteDevice(addr, value) ==
  LET d == Layout[Found(addr).device]
      scan == Scan(d.ports, Offset(addr), Len(value))
      before == Bytes(mem, Position(addr), Len(value))
      completes == /\ \A i \in 1..Len(scan.hits) :
                        PortReadable(d.base, scan.hits[i])
                   /\ ~Asserts \/ Len(d.ports) = 0 \/ scan.left = 0
  IN  /\ IsMapped(addr)
      /\ Survives(addr, Len(value))
      /\ \/ /\ completes
            /\ mem' = Overwritten(mem, Position(addr), value)
            /\ last' = [op |-> "write", addr |-> addr, value |-> value,
                        calls |-> [i \in 1..Len(scan.hits) |->
                          Informed(mem', d.base, scan.hits[i], before)]]
            /\ UNCHANGED status
         \/ /\ ~completes
            /\ Abort("write", addr)

Write ==
  /\ status = "up"
  /\ \E addr \in Addresses, value \in Values :
       \/ WriteUnmapped(addr, value)
       \/ WriteDevice(addr, value)
       \/ /\ IsMapped(addr) /\ ~Survives(addr, Len(value))
          /\ Abort("write", addr)

Init ==
  /\ status = "up"
  /\ mem = [q \in 0..(MemBytes - 1) |-> ZeroByte]
  /\ last = NoAccess

Next == Read \/ Write

Spec == Init /\ [][Next]_vars
-----------------------------------------------------------------------------
(* Properties                                                              *)

Callback(c) ==
  /\ c.port \in PortType
  /\ c.new \in [1..c.port.size -> Byte] /\ c.old \in [1..c.port.size -> Byte]

(* Memory holds bytes, and a callback gets values as wide as its port.     *)
TypeOK ==
  /\ status \in {"up", "aborted"}
  /\ mem \in [0..(MemBytes - 1) -> Byte]
  /\ last.op \in {"none", "read", "write"}
  /\ last.value \in UNION {[1..n -> Byte] : n \in {0} \cup Width}
  /\ \A i \in 1..Len(last.calls) : Callback(last.calls[i])

(* A write that completed in a device, seen as a step.                     *)
Wrote ==
  /\ last' # last /\ last'.op = "write" /\ status' = "up"
  /\ IsMapped(last'.addr)

Ports(addr) == LET ports == Layout[Found(addr).device].ports
               IN  {ports[i] : i \in 1..Len(ports)}

WrittenBytes(addr, n) == Offset(addr)..(Offset(addr) + n - 1)

(* The ports a write is expected to reach: those it overlaps, as long as   *)
(* all the bytes it writes before them belong to ports too.                *)
Reached(addr, n) ==
  {p \in Ports(addr) :
     /\ PortBytes(p) \cap WrittenBytes(addr, n) # {}
     /\ \A b \in WrittenBytes(addr, n) :
          b < p.offset => \E o \in Ports(addr) : b \in PortBytes(o)}

CallsMade == {last'.calls[i] : i \in 1..Len(last'.calls)}

(* A write informs, once and in address order, each port it overlaps, from *)
(* the one its first byte is in up to the first gap between ports.         *)
PortsReached ==
  [][Wrote =>
       /\ {c.port : c \in CallsMade} = Reached(last'.addr, Len(last'.value))
       /\ \A i, j \in 1..Len(last'.calls) :
            i < j => last'.calls[i].port.offset < last'.calls[j].port.offset
    ]_vars

(* Each callback gets the value of its port before the write and after it, *)
(* however the write overlaps the port.                                    *)
CallbackValues ==
  [][Wrote =>
       \A c \in CallsMade :
         LET at == Layout[Found(last'.addr).device].base + c.port.offset
         IN  /\ c.new = Bytes(mem', at, c.port.size)
             /\ c.old = Bytes(mem, at, c.port.size)]_vars

(* bus.hpp: "The method `data_port::post_write` is called by the bus       *)
(* whenever the data_port memory is written".                              *)
EveryPortInformed ==
  [][Wrote =>
       \A p \in Ports(last'.addr) :
         PortBytes(p) \cap WrittenBytes(last'.addr, Len(last'.value)) # {} =>
           \E c \in CallsMade : c.port = p]_vars
=============================================================================
