----------------------------- MODULE MCWorklists -----------------------------
(***************************************************************************)
(* The constants are model values; worklists.cfg gives them.               *)
(***************************************************************************)
EXTENDS Worklists
=============================================================================
