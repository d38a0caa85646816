----------------------------- MODULE MCLeaves -----------------------------
(***************************************************************************)
(* Two parts that call nothing else, the dictionaries and the scanner.     *)
(* They share nothing: a behaviour is one of either part.                  *)
(***************************************************************************)
EXTENDS Dict, Scanner, TLC
CONSTANTS k1, k2, k3, k4, v1
MCHash == (k1 :> 0) @@ (k2 :> 0) @@ (k3 :> 2) @@ (k4 :> 2)

VARIABLE part
both == <<dict, loop, scan, part>>

LeavesInit == DictInit /\ Init /\ part \in {"dictionary", "scanner"}
LeavesNext == /\ \/ part = "dictionary" /\ DictNext /\ UNCHANGED scan
                 \/ part = "scanner" /\ Next /\ UNCHANGED <<dict, loop>>
              /\ UNCHANGED part
LeavesSpec == LeavesInit /\ [][LeavesNext]_both /\ Fairness
============================================================================
