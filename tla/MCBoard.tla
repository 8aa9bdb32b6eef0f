------------------------------ MODULE MCBoard --------------------------------
(* The board with four bytes of RAM and of ROM, both mapped three times,   *)
(* the interrupt control and DMA registers, and the eight bytes of the SPU *)
(* around SPUCNT and SPUSTAT (offsets 424 to 431).                         *)
EXTENDS Board

MCRamAt == <<0, 16, 24>>
MCRomAt == <<32, 48, 56>>

MCByte == {{}, {0, 3}, {5, 7}, {7}, {0, 5, 6}, {0, 5}, {1, 6}, {0, 1, 6},
           {0, 2, 5, 6}, {0, 1, 2}, 0..7}

S(addr, value) == [addr |-> addr, value |-> value]

(* I_STAT is at 64, I_MASK at 68, DICR at 84, SPUCNT at 98, SPUSTAT at 102 *)
MCStores ==
  {S(3, <<{5, 7}, {7}, {}, {7}>>), S(19, <<{}>>), S(25, <<{0, 3}>>),
   S(4, <<{7}>>), S(8, <<{7}>>), S(50, <<{7}, {}>>),
   S(64, <<{0, 3}>>), S(64, <<{}, {}>>), S(65, <<{}, {}, {7}, {7}>>),
   S(68, <<{0, 3}>>), S(70, <<{7}, {}>>), S(68, <<{}, {}, {}, {}>>),
   S(84, <<{}, {7}, {}, {}>>),
   S(98, <<{0, 5, 6}, {7}>>), S(98, <<{5, 7}>>), S(99, <<{}>>),
   S(102, <<{0, 3}>>),
   S(96, <<{7}, {7}>>), S(97, <<{7}, {7}, {7}, {7}>>), S(104, <<{}>>)}
=============================================================================
