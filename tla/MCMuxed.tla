------------------------------- MODULE MCMuxed --------------------------------
(***************************************************************************)
(* A small instance of MuxedExpanders: two chips with one address, behind  *)
(* two muxes.                                                              *)
(***************************************************************************)
EXTENDS MuxedExpanders

MCSame == {<<0, 0, "x">>, <<1, 1, "x">>}
===============================================================================
