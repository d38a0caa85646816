---------------------------- MODULE Dictionary ----------------------------
(***************************************************************************)
(* What a dictionary promises to those who call dict.h: a map, and a loop  *)
(*                                                                         *)
(*     dict_rewind(d); while (!dict_eof(d)) { dict_getkey(d); dict_next(d) } *)
(*                                                                         *)
(* over its keys, in some order.  The loop comes to every key that is in   *)
(* the map when it begins, to each of them once, whatever is stored in the *)
(* meantime.  Whether it comes to a key that is added while it runs is     *)
(* left open; once it is over it stays over.                               *)
(***************************************************************************)
CONSTANTS Key, Value, None

VARIABLES map,    \* what has been stored
          todo,   \* the keys that dict_next will still come to
          at,     \* the key that dict_getkey gives, or None
          begun   \* dict_next can only come to the end from here

vars == <<map, todo, at, begun>>

Init ==
    /\ map = [k \in {} |-> None]
    /\ todo = {} /\ at = None
    /\ begun \in BOOLEAN

(* A key that is added is at most one more to come. *)
Store(k, v) ==
    /\ map' = [j \in DOMAIN map \cup {k} |-> IF j = k THEN v ELSE map[j]]
    /\ IF k \in DOMAIN map \/ (begun /\ at = None)
       THEN todo' = todo
       ELSE todo' \in {todo, todo \cup {k}}
    /\ UNCHANGED <<at, begun>>

(* The loop goes on with one of these keys, or is over. *)
GoOn(keys) ==
    /\ begun' = TRUE
    /\ IF keys = {} THEN todo' = {} /\ at' = None
                    ELSE \E k \in keys : at' = k /\ todo' = keys \ {k}
    /\ UNCHANGED map

Rewind == GoOn(DOMAIN map)
Step   == GoOn(todo)

(* A copy has the same keys and values, and no loop runs over it. *)
Dup ==
    /\ at' = None
    /\ todo' \in SUBSET DOMAIN map
    /\ begun' \in BOOLEAN
    /\ begun' => todo' = {}
    /\ UNCHANGED map

Next ==
    \/ \E k \in Key, v \in Value : Store(k, v)
    \/ Rewind
    \/ Step
    \/ Dup

Spec == Init /\ [][Next]_vars
============================================================================
