------------------------------ MODULE MCSymbol ------------------------------
(* Instances of Symbol. *)
EXTENDS Symbol

(* A program with errors is not run: what the parser does after the first  *)
(* one is not explored.                                                    *)
NoErrorsYet == ~errors
=============================================================================
