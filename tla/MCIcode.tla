------------------------------ MODULE MCIcode ------------------------------
(***************************************************************************)
(* The programs that are compiled.  None has a closure among the           *)
(* constant arguments of a builtin: ast_new_builtin folds it into a value  *)
(* and no code is generated for it.  The body of a loop and of a           *)
(* conditional is never empty, as ast_new_while_loop requires.             *)
(***************************************************************************)
EXTENDS Compiler

X == Local(0)
F == Local(255)

Num(i) == Value(Integer(i))

(* Expressions without closures; constants are folded by Builtin. *)
Flat == {X, Num(2), Num(3), Value(Atom(1)),
         Builtin("Add", <<X, Num(1)>>), Builtin("Add", <<Num(0), Num(1)>>),
         Builtin("List", <<Num(0), X>>), Builtin("List", <<Num(1), Value(Atom(2))>>),
         Apply(F, <<>>), Apply(F, <<Apply(F, <<X>>)>>)}

Let(e) == Assignment(FALSE, X, e)

Simple == {Let(e) : e \in {Num(0), Apply(F, <<X>>)}}
              \cup {Assignment(TRUE, F, Num(1)), Apply(F, <<>>),
                    Builtin("Store", <<X, Num(0), Value(Atom(0))>>),
                    Builtin("Extern", <<X>>)}

Ends == Simple \cup {Retr(X), Retr(Apply(F, <<>>))}

(* Statements that contain others. *)
Loop(b)  == WhileLoop(X, b)
If(y, n) == Conditional(X, y, n)

Nested == {Loop(If(y, n)) : y \in {Apply(F, <<>>), Retr(X)}, n \in {Nothing, Let(Num(0))}}
              \cup {If(Loop(b), n) : b \in Ends, n \in {Nothing, Retr(Apply(F, <<>>))}}
              \cup {If(If(y, n), Retr(X)) : y \in Ends, n \in {Nothing, Apply(F, <<>>)}}

Compound == {Loop(b) : b \in Ends}
                \cup {If(y, n) : y \in Ends, n \in Ends \cup {Nothing}}
                \cup Nested

Bodies == {Nothing} \cup Ends \cup Compound
              \cup {Statement(s, Retr(X)) : s \in Compound}
              \cup {Statement(s, Apply(F, <<>>)) : s \in Compound}
              \cup {Statement(Apply(F, <<>>), s) : s \in Compound}
              \cup {Statement(Loop(Apply(F, <<>>)), Loop(b)) : b \in Ends}

(* A closure in a closure, and one that is mentioned twice. *)
InClosure == {Assignment(TRUE, F, Closure(-1, b)) : b \in Bodies}
Twice == {Statement(Assignment(TRUE, F, Closure(-1, b)),
                    If(X, Apply(Closure(-1, b), <<X>>))) : b \in Bodies}
Deep == {Assignment(TRUE, F, Closure(-1, Retr(Closure(-2, b)))) : b \in Compound}

SmallPrograms == {Let(e) : e \in Flat} \cup Simple \cup Bodies
                     \cup InClosure \cup Twice \cup Deep

(* These and the trees in them, with their heights. *)
RECURSIVE Below(_), HeightOf(_)
Below(a)    == {a} \cup UNION {Below(b) : b \in Children(a)}
HeightOf(a) == Max({0} \cup {HeightOf(b) + 1 : b \in Children(a)})

SmallTrees == [a \in {b : b \in UNION {Below(p) : p \in SmallPrograms}} |-> HeightOf(a)]

(* The code that is generated for them, which the optimizer starts from. *)
SmallListings == {Code(a) : a \in SmallPrograms}

(* Every run over one of the trees ends within Steps. *)
ASSUME \A a \in SmallPrograms : \E k \in {ClosuresIn[a]} : \A d \in Outcomes : \A c \in k :
    /\ TreeRun(Begin(Then(a, End("HALT")), d), Steps).st # "on"
    /\ TreeRun(Begin(Then(c.body, End("RET")), d), Steps).st # "on"
============================================================================
