------------------------------ MODULE MCLatching ------------------------------
(***************************************************************************)
(* Small instances of LatchingXPoint.  Row 0 may be locked with row 1 and  *)
(* the last column made exclusive, at any time or not at all.              *)
(***************************************************************************)
EXTENDS LatchingXPoint

MCLockArgs == {<<0, 1>>}
MCExclArgs == {COLS - 1}
===============================================================================
