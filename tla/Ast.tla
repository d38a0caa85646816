-------------------------------- MODULE Ast --------------------------------
(***************************************************************************)
(* Syntax trees (ast.c), as the parser builds them.  A node is a record    *)
(* with a field t; the null pointer is the node Nothing.  Types and the    *)
(* names of variables are left out.  What a value is: an integer, an atom, *)
(* a closure or a list.                                                    *)
(***************************************************************************)
EXTENDS Integers, Sequences

Nothing == [t |-> "nothing"]

Integer(i) == [type |-> "integer", v |-> i]
Atom(i)    == [type |-> "atom", v |-> i]

(* A closure is known by a negative number; its body is in the tree. *)
ClosureValue(k) == [type |-> "closure", v |-> k]

(* A list of constants. *)
ListValue(vs) == [type |-> "list", v |-> Len(vs), items |-> vs]

(* Constructors that only fill in their node. *)
Local(index)          == [t |-> "local", index |-> index]
Value(v)              == [t |-> "value", value |-> v]
Closure(k, body)      == [t |-> "value", value |-> ClosureValue(k), body |-> body]
Assignment(d, l, r)   == [t |-> "assignment", defining |-> d, left |-> l, right |-> r]
Conditional(c, y, n)  == [t |-> "conditional", test |-> c, yes |-> y, no |-> n]
WhileLoop(c, b)       == [t |-> "while", test |-> c, body |-> b]
Retr(b)               == [t |-> "retr", body |-> b]

(* ast_new_arg, for each argument: the rest of them is its right side. *)
Arg(l, r) == IF l = Nothing THEN Nothing ELSE [t |-> "arg", left |-> l, right |-> r]

Args(as) ==
    LET From[i \in 1 .. Len(as) + 1] ==
            IF i > Len(as) THEN Nothing ELSE Arg(as[i], From[i + 1])
    IN  From[1]

Apply(fn, as) == [t |-> "apply", fn |-> fn, args |-> Args(as)]

(* ast_new_statement: a missing statement leaves the other one alone. *)
Statement(l, r) ==
    IF l = Nothing THEN r
    ELSE IF r = Nothing THEN l
    ELSE [t |-> "statement", left |-> l, right |-> r]

(* The builtins that stand for the rest: of fixed arity and pure, of any   *)
(* arity and pure, and with an effect; one that is not in the table of     *)
(* the vm but in an extension module.                                      *)
Builtins == {"Add", "List", "Store", "Extern"}

IsPure(b) == b \in {"Add", "List"}
Variadic(b) == b = "List"

IsConstant(as) == \A i \in DOMAIN as : as[i].t = "value"

(* What the builtin computes from the values of its arguments. *)
Computed(b, vs) ==
    IF b = "Add" THEN Integer(vs[1].v + vs[2].v) ELSE ListValue(vs)

(* ast_new_builtin folds constants: a closure among them is a constant,    *)
(* and what is left of it in the tree is its value.                        *)
Builtin(b, as) ==
    IF IsPure(b) /\ IsConstant(as)
    THEN Value(Computed(b, [i \in DOMAIN as |-> as[i].value]))
    ELSE [t |-> "builtin", b |-> b, args |-> Args(as)]

(* The nodes right below a node. *)
Children(a) ==
    CASE a.t \in {"nothing", "local"} -> {}
      [] a.t = "value"       -> IF a.value.type = "closure" THEN {a.body} ELSE {}
      [] a.t = "builtin"     -> {a.args}
      [] a.t = "apply"       -> {a.fn, a.args}
      [] a.t \in {"arg", "statement", "assignment"} -> {a.left, a.right}
      [] a.t = "conditional" -> {a.test, a.yes, a.no}
      [] a.t = "while"       -> {a.test, a.body}
      [] a.t = "retr"        -> {a.body}
============================================================================
