---------------------------- MODULE MCNonLatching -----------------------------
(***************************************************************************)
(* Small instances of NonLatchingXPoint.  Row 0 may be locked with row 1   *)
(* and the last column made exclusive, at any time or not at all.          *)
(***************************************************************************)
EXTENDS NonLatchingXPoint

MCLockArgs == {<<0, 1>>}
MCExclArgs == {COLS - 1}
===============================================================================
