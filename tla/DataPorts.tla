------------------------------ MODULE DataPorts ------------------------------
(***************************************************************************)
(* The ports of a device (bus::data_port in src/src/hw/bus.hpp) and how    *)
(* data_bus::touch_data_ports finds the ones a write reaches: it walks     *)
(* over the sorted ports once, and consumes the written bytes as it goes.  *)
(*                                                                         *)
(* Memory is a function from positions to bytes; values are sequences of   *)
(* bytes, the low byte first.                                              *)
(***************************************************************************)
EXTENDS Integers, Sequences

Width == {1, 2, 4}

PortType == [offset : Nat, size : Width]

PortBytes(p) == p.offset..(p.offset + p.size - 1)

Bytes(m, from, n) == [b \in 1..n |-> m[from + b - 1]]

(* The memory after the bytes of value are copied over it.                 *)
Overwritten(m, from, value) ==
  [q \in DOMAIN m |->
     IF q - from + 1 \in DOMAIN value THEN value[q - from + 1] ELSE m[q]]
-----------------------------------------------------------------------------
(* A hit is a port that is informed: the write covers bytes of the port    *)
(* bytes, behind the first skip; the walk had consumed over bytes of it.   *)
Hit(p, s, bytes) ==
  [port |-> p, skip |-> s.at - p.offset, over |-> s.over, bytes |-> bytes]

Consumed(p, s) ==
  LET rest == p.offset + p.size - s.at
  IN  IF rest < s.left THEN rest ELSE s.left

(* Faulty variants: a port only counts when the write starts at its first *)
(* byte; the overwritten value is not consumed.                            *)
StepFromStart(s, p) ==
  IF s.left > 0 /\ s.at = p.offset
  THEN LET bytes == Consumed(p, s)
       IN  [at |-> p.offset + p.size, left |-> s.left - bytes,
            over |-> s.over + bytes, hits |-> Append(s.hits, Hit(p, s, bytes))]
  ELSE s

StepSameByte(s, p) ==
  IF s.left > 0 /\ s.at \in PortBytes(p)
  THEN LET bytes == Consumed(p, s)
       IN  [at |-> p.offset + p.size, left |-> s.left - bytes,
            over |-> s.over, hits |-> Append(s.hits, Hit(p, s, bytes))]
  ELSE s

(* An iteration of the loop over the ports.  A port is hit when the rest   *)
(* of the write starts inside it.                                          *)
Step(s, p) ==
  IF s.left > 0 /\ s.at \in PortBytes(p)
  THEN LET bytes == Consumed(p, s)
       IN  [at |-> p.offset + p.size, left |-> s.left - bytes,
            over |-> s.over + bytes, hits |-> Append(s.hits, Hit(p, s, bytes))]
  ELSE s

(* Before the loop: where the rest of the write starts, how many of its    *)
(* bytes are left and how many consumed, and the hits so far.              *)
Begin(offset, n) == [at |-> offset, left |-> n, over |-> 0, hits |-> <<>>]

(* touch_data_ports, for a write of n bytes at the offset in the device.   *)
Scan(ports, offset, n) ==
  LET after[i \in 0..Len(ports)] ==
        IF i = 0 THEN Begin(offset, n) ELSE Step(after[i - 1], ports[i])
  IN  after[Len(ports)]

(* Faulty variant: the port is not cut to its size.                        *)
InformedUncut(m, base, hit, overwritten) ==
  LET new == Bytes(m, base + hit.port.offset, 4)
  IN  [port |-> hit.port, new |-> new,
       old |-> [b \in 1..4 |->
                  IF b - hit.skip \in 1..hit.bytes
                  THEN overwritten[hit.over + b - hit.skip] ELSE new[b]]]

(* The arguments of post_write: the port as it is now, and with the bytes  *)
(* of the hit taken back from the overwritten value.                       *)
Informed(m, base, hit, overwritten) ==
  LET new == Bytes(m, base + hit.port.offset, hit.port.size)
  IN  [port |-> hit.port, new |-> new,
       old |-> [b \in 1..hit.port.size |->
                  IF b - hit.skip \in 1..hit.bytes
                  THEN overwritten[hit.over + b - hit.skip] ELSE new[b]]]
=============================================================================
