------------------------------- MODULE MCCombat -------------------------------
(***************************************************************************)
(* Two players with one character each.                                    *)
(***************************************************************************)
EXTENDS Combat, TLC

CONSTANTS p1, p2, e1, e2

MCOwner == (e1 :> p1) @@ (e2 :> p2)
===============================================================================
