------------------------------ MODULE BitMask -------------------------------
(***************************************************************************)
(* psycris::bit_mask and psycris::masked_proxy (src/src/bitmask.hpp).      *)
(*                                                                         *)
(* An unsigned word is represented by the set of the positions of its 1    *)
(* bits, so that & is \cap, | is \cup, and & ~m is \ m.  A bit shifted     *)
(* beyond the width of the word only ever meets the intersection with a    *)
(* mask, which drops it as the width of the C++ type would.                *)
(***************************************************************************)
EXTENDS Integers

Shl(v, n) == {b + n : b \in v}

Shr(v, n) == {b - n : b \in {c \in v : c >= n}}

(* The constructor accepts a non-empty run of adjacent bits and throws on  *)
(* anything else.                                                          *)
Accepts(bits) == \E lo, hi \in bits : bits = lo..hi

(* The mask the constructor builds: the offset is the lowest bit.          *)
BitField(bits) ==
  [mask |-> bits, offset |-> CHOOSE lo \in bits : \A b \in bits : lo <= b]

(* Reading through a mask: operator()(v const&), the proxy's conversion.   *)
Get(m, v) == Shr(v \cap m.mask, m.offset)

(* masked_proxy::operator=                                                 *)
Put(m, v, x) == (v \ m.mask) \cup (Shl(x, m.offset) \cap m.mask)

(* masked_proxy::operator&=                                                *)
AndPut(m, v, x) == {b \in v : b \in m.mask => b \in Shl(x, m.offset)}

(* masked_proxy::operator<<= and operator>>=                               *)
ShlPut(m, v, n) == Put(m, v, Shl(Get(m, v), n))

ShrPut(m, v, n) == Put(m, v, Shr(Get(m, v), n))
=============================================================================
