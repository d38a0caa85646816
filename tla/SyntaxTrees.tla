---------------------------- MODULE SyntaxTrees ----------------------------
(***************************************************************************)
(* The syntax trees of programs, and what is read off them by recursion.   *)
(* A tree has a height, which makes recursion come to an end.              *)
(***************************************************************************)
EXTENDS Ast

CONSTANTS Programs,     \* the syntax trees to compile
          Height        \* of these and of every tree in them

Trees == DOMAIN Height

(* The variable that a store changes: ast_find_local. *)
FindLocal[a \in Trees] ==
    CASE a.t = "local"   -> a
      [] a.t = "builtin" -> FindLocal[a.args]
      [] a.t = "arg"     -> FindLocal[a.left]

(* ast_count_args *)
ArgCount[a \in Trees] == IF a.t = "arg" THEN 1 + ArgCount[a.right] ELSE 0

(* What the parser makes, and where ast_find_local comes to an end. *)
WellFormed(a) ==
    /\ a.t \in {"nothing", "local", "value", "builtin", "apply", "arg", "statement",
                "assignment", "conditional", "while", "retr"}
    /\ a.t = "value" =>
          /\ a.value.type \in {"integer", "atom", "closure", "list"}
          /\ a.value.type = "integer" => a.value = Integer(a.value.v)
          /\ a.value.type = "closure" => a.value.v \in Int /\ a.value.v < 0
    /\ a.t = "builtin" =>
          /\ a.b \in Builtins
          /\ a.b = "Store" => FindLocal[a] \in Trees /\ FindLocal[a].t = "local"
    /\ a.t = "assignment" => a.left.t = "local"

(* Trees are finite. *)
IsHeight(h) == h \in [Trees -> Nat] /\ \A a \in Trees : \A b \in Children(a) : h[b] < h[a]

ASSUME TreeAssumption ==
    /\ Programs \subseteq Trees
    /\ \A a \in Trees : WellFormed(a) /\ Children(a) \subseteq Trees
    /\ IsHeight(Height)

(* The closures that are mentioned in a tree, and in their bodies.         *)
ClosuresIn[a \in Trees] ==
    {b \in {a} : a.t = "value" /\ a.value.type = "closure"}
        \cup UNION {ClosuresIn[b] : b \in Children(a)}

(* A closure has one body, however often it is mentioned. *)
ASSUME ClosureAssumption == \A a \in Programs : \A b, c \in ClosuresIn[a] :
    b.value.v = c.value.v => b = c
============================================================================
