------------------------------ MODULE MCSession ------------------------------
(* A clock of six values, deadlines up to the last but one, and programs   *)
(* without a fatal instruction and with one.                               *)
EXTENDS Session

MCPrograms == {{}, {2}}
=============================================================================
