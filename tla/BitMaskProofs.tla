--------------------------- MODULE BitMaskProofs ----------------------------
(***************************************************************************)
(* What a bit_mask promises its users, for words of any width: a write     *)
(* through a mask is read back through it, and nothing else changes.       *)
(***************************************************************************)
EXTENDS BitMask, TLAPS

(* A mask over the bits lo to hi.                                          *)
IsMask(m, lo, hi) ==
  /\ lo \in Int /\ hi \in Int /\ lo <= hi
  /\ m.mask = lo..hi /\ m.offset = lo

(* A bit of a word shifted left comes from n places below.                 *)
LEMMA ShlMember ==
  ASSUME NEW v \in SUBSET Int, NEW n \in Int, NEW b \in Int
  PROVE  b \in Shl(v, n) <=> b - n \in v
  <1>1. ASSUME b \in Shl(v, n) PROVE b - n \in v
    <2>1. PICK c \in v : b = c + n
      BY <1>1 DEF Shl
    <2>2. b - n = c
      BY <2>1
    <2> QED
      BY <2>1, <2>2
  <1>2. ASSUME b - n \in v PROVE b \in Shl(v, n)
    <2>1. b = (b - n) + n
      OBVIOUS
    <2> QED
      BY <1>2, <2>1 DEF Shl
  <1> QED
    BY <1>1, <1>2

(* A bit of a word shifted right comes from n places above, and the bits   *)
(* below n are lost.                                                       *)
LEMMA ShrMember ==
  ASSUME NEW v \in SUBSET Int, NEW n \in Int, NEW b \in Int
  PROVE  b \in Shr(v, n) <=> b >= 0 /\ b + n \in v
  <1>1. ASSUME b \in Shr(v, n) PROVE b >= 0 /\ b + n \in v
    <2>1. PICK c \in v : c >= n /\ b = c - n
      BY <1>1 DEF Shr
    <2>2. b + n = c
      BY <2>1
    <2> QED
      BY <2>1, <2>2
  <1>2. ASSUME b >= 0, b + n \in v PROVE b \in Shr(v, n)
    <2>1. b = (b + n) - n /\ b + n >= n
      BY <1>2
    <2> QED
      BY <1>2, <2>1 DEF Shr
  <1> QED
    BY <1>1, <1>2

(* Shifts keep sets of positions sets of positions.                        *)
LEMMA ShiftsAreWords ==
  ASSUME NEW v \in SUBSET Int, NEW n \in Int
  PROVE  Shl(v, n) \in SUBSET Int /\ Shr(v, n) \in SUBSET Int
  BY DEF Shl, Shr

(* The constructor finds the lowest bit of the run it is given.            *)
LEMMA FieldOffset ==
  ASSUME NEW lo \in Int, NEW hi \in Int, lo <= hi
  PROVE  IsMask(BitField(lo..hi), lo, hi)
  <1> DEFINE offset == CHOOSE l \in lo..hi : \A b \in lo..hi : l <= b
  <1>1. \E l \in lo..hi : \A b \in lo..hi : l <= b
    <2>1. lo \in lo..hi /\ \A b \in lo..hi : lo <= b
      OBVIOUS
    <2> QED
      BY <2>1
  <1>2. offset \in lo..hi /\ \A b \in lo..hi : offset <= b
    BY <1>1
  <1>3. offset = lo
    BY <1>2
  <1> QED
    BY <1>3 DEF IsMask, BitField

(* The offset of a one bit mask is its bit.                                *)
LEMMA BitOffset ==
  ASSUME NEW k \in Int
  PROVE  IsMask(BitField({k}), k, k)
  <1>1. {k} = k..k
    OBVIOUS
  <1>2. k <= k
    OBVIOUS
  <1>3. IsMask(BitField(k..k), k, k)
    BY <1>2, FieldOffset
  <1> QED
    BY <1>1, <1>3

(* Reading through a mask moves the masked bits down to 0.                 *)
LEMMA GetMember ==
  ASSUME NEW m, NEW lo, NEW hi, IsMask(m, lo, hi),
         NEW v \in SUBSET Int, NEW b \in Int
  PROVE  b \in Get(m, v) <=> b \in 0..(hi - lo) /\ b + lo \in v
  <1>1. v \cap m.mask \in SUBSET Int /\ lo \in Int /\ hi \in Int
    BY DEF IsMask
  <1>2. b \in Get(m, v) <=> b >= 0 /\ b + lo \in v \cap (lo..hi)
    BY <1>1, ShrMember DEF Get, IsMask
  <1> QED
    BY <1>1, <1>2

(* Writing through a mask: a masked bit comes from the value, the others   *)
(* from the word.                                                          *)
LEMMA PutMember ==
  ASSUME NEW m, NEW lo, NEW hi, IsMask(m, lo, hi),
         NEW v \in SUBSET Int, NEW x \in SUBSET Int, NEW b \in Int
  PROVE  b \in Put(m, v, x) <=> IF b \in lo..hi THEN b - lo \in x ELSE b \in v
  <1>1. b \in Shl(x, lo) <=> b - lo \in x
    BY ShlMember DEF IsMask
  <1> QED
    BY <1>1 DEF Put, IsMask

(* A field keeps what is written to it, and nothing of a value too wide    *)
(* for it spills: masked_proxy::operator= and the read conversion agree.   *)
THEOREM ReadBack ==
  ASSUME NEW m, NEW lo, NEW hi, IsMask(m, lo, hi),
         NEW v \in SUBSET Int, NEW x \in SUBSET Int
  PROVE  Get(m, Put(m, v, x)) = x \cap 0..(hi - lo)
  <1>1. lo \in Int /\ hi \in Int
    BY DEF IsMask
  <1>2. Put(m, v, x) \in SUBSET Int
    BY <1>1, ShiftsAreWords DEF Put, IsMask
  <1>3. Get(m, Put(m, v, x)) \in SUBSET Int
    BY <1>1, <1>2, ShiftsAreWords DEF Get, IsMask
  <1>4. ASSUME NEW b \in Int
        PROVE  b \in Get(m, Put(m, v, x)) <=> b \in x \cap 0..(hi - lo)
    <2>1. b \in Get(m, Put(m, v, x))
            <=> b \in 0..(hi - lo) /\ b + lo \in Put(m, v, x)
      BY <1>2, GetMember
    <2>2. ASSUME b \in 0..(hi - lo)
          PROVE  b + lo \in Put(m, v, x) <=> b \in x
      <3>1. b + lo \in lo..hi /\ b + lo \in Int /\ (b + lo) - lo = b
        BY <1>1, <2>2
      <3> QED
        BY <3>1, PutMember
    <2> QED
      BY <2>1, <2>2
  <1> QED
    BY <1>3, <1>4

(* A write through one mask is invisible through a disjoint one.           *)
THEOREM FieldsIndependent ==
  ASSUME NEW m, NEW lo, NEW hi, IsMask(m, lo, hi),
         NEW k, NEW from, NEW to, IsMask(k, from, to),
         m.mask \cap k.mask = {},
         NEW v \in SUBSET Int, NEW x \in SUBSET Int
  PROVE  Get(k, Put(m, v, x)) = Get(k, v)
  <1>1. Put(m, v, x) \cap k.mask = v \cap k.mask
    BY DEF Put
  <1> QED
    BY <1>1 DEF Get
=============================================================================
