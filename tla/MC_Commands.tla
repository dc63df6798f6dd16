------------------------------ MODULE MC_Commands ------------------------------
(* A claim in a sector: its longest term leaves room for a deal of two      *)
(* epochs and its margins, or does not, depending on when it was extended.  *)
(* Two branches, each tracking its own.                                     *)
EXTENDS Commands, TLC

CONSTANTS c1, s1

MCSectorOf == c1 :> s1
MCTermStart == c1 :> 0
MCTracking == ("main" :> "main") @@ ("dev" :> "dev")
=============================================================================
