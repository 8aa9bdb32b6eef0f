------------------------------ MODULE Registers ------------------------------
(***************************************************************************)
(* What the board promises the guest of the registers with ports: words    *)
(* that are independent of each other, but for SPUSTAT, which takes the    *)
(* mode bits of every SPUCNT written, and for the interrupt signalled when *)
(* an enabled bit of I_STAT rises.                                         *)
(***************************************************************************)
EXTENDS Naturals

CONSTANT SpuModes  \* the bits SPUSTAT shows of SPUCNT

VARIABLES
  i_stat, i_mask, spucnt, spustat,  \* sets of bits
  signalled                         \* an interrupt, by the last step

Bits == 0..31

Halfword == SUBSET (0..15)

Init ==
  /\ i_stat = {} /\ i_mask = {} /\ spucnt = {} /\ spustat = {}
  /\ signalled = FALSE

(* I_STAT changes, by the guest or a device.                               *)
Pending ==
  /\ i_stat' \in SUBSET Bits
  /\ signalled' = ((i_stat' \ i_stat) \cap i_mask # {})
  /\ UNCHANGED <<i_mask, spucnt, spustat>>

(* A bit that is pending already is not signalled when it is enabled.      *)
Enable ==
  /\ i_mask' \in SUBSET Bits
  /\ signalled' = FALSE
  /\ UNCHANGED <<i_stat, spucnt, spustat>>

Control ==
  /\ spucnt' \in Halfword
  /\ spustat' = spucnt' \cap SpuModes
  /\ signalled' = FALSE
  /\ UNCHANGED <<i_stat, i_mask>>

(* SPUSTAT is not read-only: it keeps what is stored to it.                *)
Overwrite ==
  /\ spustat' \in Halfword
  /\ signalled' = FALSE
  /\ UNCHANGED <<i_stat, i_mask, spucnt>>

Next == Pending \/ Enable \/ Control \/ Overwrite

Spec == Init /\ [][Next]_<<i_stat, i_mask, spucnt, spustat, signalled>>
=============================================================================
