------------------------------ MODULE MCTypes ------------------------------
(* An instance of Types. *)
EXTENDS Types

Classes == <<"void", "boolean">>

(* A program with errors is not run: what the parser does after the first  *)
(* one is not explored.                                                    *)
NoErrorsYet == ~failed

(* Of the types made, those with parts. *)
FewCompounds == Cardinality({t \in Node : types[t].class \in Compound}) <= 3
=============================================================================
