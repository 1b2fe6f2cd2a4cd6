----------------------------- MODULE MCHcmClient -----------------------------
(***************************************************************************)
(* Constants for TLC: HCM has the days, or one too few.                    *)
(***************************************************************************)
EXTENDS HcmClient

MCBalances == {CommandDays - 1, CommandDays}
=============================================================================
