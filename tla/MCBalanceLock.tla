---------------------------- MODULE MCBalanceLock ----------------------------
(***************************************************************************)
(* The constants are model values; lock.cfg gives them.                    *)
(***************************************************************************)
EXTENDS BalanceLock
=============================================================================
