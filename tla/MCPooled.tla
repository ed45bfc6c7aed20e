------------------------------- MODULE MCPooled -------------------------------
(***************************************************************************)
(* A small instance of PooledXPoint: more columns than rows, a state       *)
(* section that ends inside a word, and a last word used in part.  Any     *)
(* row may be locked with any row, itself included, and any column made    *)
(* exclusive.                                                              *)
(***************************************************************************)
EXTENDS PooledXPoint

MCLockArgs == Row \X Row
MCExclArgs == Col
===============================================================================
