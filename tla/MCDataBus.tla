----------------------------- MODULE MCDataBus ------------------------------
(* The board of test_bus.cpp at a smaller scale: a controller with three   *)
(* ports, a gap behind the first, mapped twice, and a timer connected at   *)
(* the address right behind it, whose port ends the board memory.          *)
EXTENDS DataBus

Port(offset, size) == [offset |-> offset, size |-> size]

MCLayout == [d \in {"ctrl", "timer"} |->
  IF d = "ctrl"
  THEN [base |-> 0, size |-> 5,
        ports |-> <<Port(0, 1), Port(2, 2), Port(4, 1)>>]
  ELSE [base |-> 5, size |-> 3, ports |-> <<Port(2, 1)>>]]

MCRanges == <<Connect(16, "ctrl", 5), Connect(32, "ctrl", 5),
              Connect(21, "timer", 3)>>

MCValues == {<<255>>, <<0, 255>>, <<255, 0, 255, 0>>}
=============================================================================
