------------------------------ MODULE MCExpander -------------------------------
(***************************************************************************)
(* Small instances of ExpanderMatrix: the matrix and another driver have   *)
(* chips with one address behind two channels of mux 0.                    *)
(***************************************************************************)
EXTENDS ExpanderMatrix

MCOneMux   == {<<0, 0, "x">>, <<0, 1, "x">>}
MCChip     == MCOneMux \cup {<<1, 0, "y">>}
MCOfMatrix == <<0, 0, "x">>
MCLockArgs == {<<0, 1>>}
MCExclArgs == {}

(***************************************************************************)
(* The bound of the lossy instance: no further than two registers astray.  *)
(***************************************************************************)
FewLost == Cardinality(lost) <= 2
===============================================================================
