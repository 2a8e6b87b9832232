---------------------------- MODULE MC_AxiSlave ----------------------------
(***************************************************************************)
(* TLC instance of AxiSlave: two writable registers and a status register, *)
(* with words of one bit.                                                  *)
(***************************************************************************)
EXTENDS AxiSlave

MCWritable == {0, 9}
MCStatus == {8}
MCUnused == {}
MCWords == {0, 1}
=============================================================================
