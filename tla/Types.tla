------------------------------- MODULE Types -------------------------------
(***************************************************************************)
(* Type inference: type.c and the part of ast.c that calls it.  A type is  *)
(* a position in `types'; the types of an unfinished syntax tree are       *)
(* whatever has been made so far.  type_unify is a recursive function that *)
(* returns as soon as one of its calls fails, so its pending calls are a   *)
(* list: the arguments of the calls still to be made, the next one first.  *)
(*                                                                         *)
(* Types without parts are alike wherever they are made (no comparison     *)
(* tells two of one class apart): each exists once, from the beginning.    *)
(* `meant' is history: the partition of the types that follows from        *)
(* everything the parser has asked to be equal.                            *)
(***************************************************************************)
EXTENDS Integers, Sequences, FiniteSets, Functions

CONSTANTS
    Base,       \* the classes without parts, e.g. <<"void", "boolean">>
    TypeBound,  \* bound on the number of types
    NameBound   \* bound on the number of symbols

Void    == 1
Boolean == 2

Compound == {"closure", "arg", "set"}

ASSUME BaseAssumption ==
    /\ Base \in Seq(STRING) /\ Len(Base) >= 2
    /\ Base[Void] = "void" /\ Base[Boolean] = "boolean"
    /\ \A b \in DOMAIN Base :
          /\ Base[b] \notin Compound \union {"var"}
          /\ \A a \in DOMAIN Base : Base[a] = Base[b] => a = b
ASSUME BoundsAssumption == {TypeBound, NameBound} \subseteq Nat /\ Len(Base) <= TypeBound

VARIABLES
    types,      \* every struct type, in the order of creation
    names,      \* the types of symbols
    calls,      \* calls of type_unify still to be made
    joining,    \* ast_new_conditional has still to join the types of its branches
    failed,     \* whether type_unify_crit has reported an error
    meant       \* history, given up when an error is reported

vars == <<types, names, calls, joining, failed, meant>>

Null == 0
Node == DOMAIN types

(* type_new and the constructors *)
NewType(class, parts) == [class |-> class, parts |-> parts, unifier |-> Null]
NewVar == NewType("var", <<>>)

Init ==
    /\ types = [b \in DOMAIN Base |-> NewType(Base[b], <<>>)]
    /\ names = {}
    /\ calls = <<>>
    /\ joining = FALSE
    /\ failed = FALSE
    /\ meant = [b \in DOMAIN Base |-> {b}]

(***************************************************************************)
(* Equivalence classes: T is `types', or what it is about to be.           *)
(***************************************************************************)

(* type_representative *)
Representative(T, t) ==
    LET climb[p \in DOMAIN T] == IF T[p].unifier = Null THEN p ELSE climb[T[p].unifier]
    IN  climb[t]

ClassOf(T, t) == T[Representative(T, t)].class
IsKnown(T, t) == ClassOf(T, t) # "var"

UnionToSecond(T, m, n) ==   \* mutant: of two classes the second is always kept
    [T EXCEPT ![Representative(T, m)].unifier = Representative(T, n)]

(* type_union *)
Union(T, m, n) ==
    LET s == Representative(T, m)
        t == Representative(T, n)
    IN  IF T[s].class # "var"
        THEN [T EXCEPT ![t].unifier = s]
        ELSE [T EXCEPT ![s].unifier = t]

ClashWithVariable(T, m, n) ==   \* mutant: the second type is not expected to be a variable
    IsKnown(T, m) /\ ClassOf(T, m) # ClassOf(T, n)

MergesWithItself(T, m, n) ==   \* mutant: a type is unified even with itself
    ClassOf(T, m) = ClassOf(T, n) => ClassOf(T, m) \in Compound \union {"var"}

(* One call of type_unify up to its recursive calls: when it returns 0,    *)
(* what it does to the classes, and the calls it makes.                    *)
Clash(T, m, n) ==
    "var" \notin {ClassOf(T, m), ClassOf(T, n)} /\ ClassOf(T, m) # ClassOf(T, n)

Merges(T, m, n) ==
    /\ Representative(T, m) # Representative(T, n)
    /\ ClassOf(T, m) = ClassOf(T, n) => ClassOf(T, m) \in Compound \union {"var"}

Unified(T, m, n) == IF Merges(T, m, n) THEN Union(T, m, n) ELSE T

PartsOf(T, t) == T[Representative(T, t)].parts

SubcallsOfFirst(T, m, n) ==   \* mutant: the second parts are forgotten
    IF Merges(T, m, n) /\ IsKnown(T, m) /\ IsKnown(T, n)
    THEN <<<<PartsOf(T, m)[1], PartsOf(T, n)[1]>>>>
    ELSE <<>>

Subcalls(T, m, n) ==
    IF Merges(T, m, n) /\ IsKnown(T, m) /\ IsKnown(T, n)
    THEN [i \in DOMAIN PartsOf(T, m) |-> <<PartsOf(T, m)[i], PartsOf(T, n)[i]>>]
    ELSE <<>>

(* type_equal: it compares parts as they were made, a type being made      *)
(* after its parts, and takes any two variables for equal.                 *)
Equal(T, a, b) ==
    LET equal[p \in (DOMAIN T) \X (DOMAIN T)] ==
          /\ T[p[1]].class = T[p[2]].class
          /\ \A i \in DOMAIN T[p[1]].parts : equal[<<T[p[1]].parts[i], T[p[2]].parts[i]>>]
    IN  equal[<<a, b>>]

(***************************************************************************)
(* What the equations mean: the finest partition of the types in which     *)
(* types asked to be equal are together, and with two types of one class   *)
(* also their parts.                                                       *)
(***************************************************************************)
Partitions(D) == {c \in [D -> SUBSET D] : \A a \in D : a \in c[a] /\ \A b \in c[a] : c[b] = c[a]}

Merged(c, a, b) ==
    LET both == c[a] \union c[b] IN [t \in DOMAIN c |-> IF t \in both THEN both ELSE c[t]]

(* Parts that have to be together and are not. *)
Torn(T, c) ==
    LET made  == {t \in DOMAIN c : T[t].parts # <<>>}
        alike == {p \in made \X made : p[2] \in c[p[1]] /\ T[p[1]].class = T[p[2]].class}
        parts == UNION {{<<T[p[1]].parts[i], T[p[2]].parts[i]>> : i \in DOMAIN T[p[1]].parts} :
                           p \in alike}
    IN  {p \in parts : c[p[1]] # c[p[2]]}

Closure(T, partition) ==
    LET close[c \in Partitions(DOMAIN T)] ==
          LET torn == Torn(T, c) IN
          IF torn = {} THEN c
          ELSE LET p == CHOOSE p \in torn : TRUE IN close[Merged(c, p[1], p[2])]
    IN  close[partition]

(* No two types of different classes, variables apart, are to be equal. *)
Consistent(T, c) ==
    \A a \in DOMAIN c : \A b \in c[a] :
        "var" \in {T[a].class, T[b].class} \/ T[a].class = T[b].class

(* A partition that has to hold for more types than it was made for. *)
Grown(T, c) == [t \in DOMAIN T |-> IF t \in DOMAIN c THEN c[t] ELSE {t}]

Asked(T, c, a, b) == IF failed THEN <<>> ELSE Closure(T, Merged(Grown(T, c), a, b))
NothingAsked(T)   == IF failed THEN <<>> ELSE Grown(T, meant)

(***************************************************************************)
(* The parser: literals and names, ast_new_* and what they call.           *)
(***************************************************************************)
Ready   == calls = <<>> /\ ~joining
Room(n) == Len(types) + n <= TypeBound

(* The types of expressions and of statements: names, values and results   *)
(* of routines; a statement may have the types of two branches.            *)
IsResult(t)     == \E c \in Node : types[c].class = "closure" /\ types[c].parts[2] = t
IsExpression(t) == t \in names \/ types[t].class \notin {"var", "arg", "set"} \/ IsResult(t)
IsStatement(t)  == IsExpression(t) \/ types[t].class = "set"
IsArgument(t)   == IsExpression(t) \/ types[t].class = "arg"

(* The formal arguments of a routine are names, or there are none. *)
Formals(t) ==
    LET formal[f \in Node] ==
          \/ f \in names
          \/ types[f].class = "arg" /\ \A i \in {1, 2} : formal[types[f].parts[i]]
    IN  t = Void \/ formal[t]

Make(t) ==
    /\ Room(1)
    /\ types' = Append(types, t)
    /\ meant' = NothingAsked(types')
    /\ UNCHANGED <<calls, joining, failed>>

(* parse_var, of a name not seen before *)
Declare ==
    /\ Ready /\ Cardinality(names) < NameBound
    /\ Make(NewVar)
    /\ names' = names \union {Len(types')}

(* ast_new_arg *)
ArgList(l, r) ==
    /\ Ready /\ IsExpression(l) /\ IsArgument(r)
    /\ Make(NewType("arg", <<l, r>>))
    /\ UNCHANGED names

(* parse_primitive, of a routine; the reports there are about no type. *)
Routine(domain, body) ==
    /\ Ready /\ Formals(domain) /\ IsStatement(body)
    /\ Make(NewType("closure", <<domain, body>>))
    /\ UNCHANGED names

(* A call of type_unify that leaves the calls in `rest' to be made; `asked' *)
(* is what all that has been asked then means.                             *)
Unify(T, m, n, rest, asked) ==
    /\ meant' = asked
    /\ \/ /\ ~Clash(T, m, n)
          /\ types' = Unified(T, m, n)
          /\ calls' = Subcalls(T, m, n) \o rest
          /\ UNCHANGED failed
       \/ /\ Clash(T, m, n)
          /\ failed' = TRUE
          /\ types' = T
          /\ calls' = <<>>

UnifyStep ==
    /\ calls # <<>>
    /\ Unify(types, Head(calls)[1], Head(calls)[2], Tail(calls), meant)
    /\ UNCHANGED <<names, joining>>

(* type_unify_crit *)
Ask(m, n) == Unify(types, m, n, <<>>, Asked(types, meant, m, n)) /\ UNCHANGED names

EnsuredRoutineOfItself(T, f) ==   \* mutant: the range of the routine is the routine
    LET r == Representative(T, f)
        n == Len(T)
    IN  IF T[r].class = "var"
        THEN [T EXCEPT ![r].unifier = n + 3]
             \o <<NewVar, NewVar, NewType("closure", <<n + 1, n + 3>>)>>
        ELSE T

(* type_ensure_routine *)
EnsuredRoutine(T, f) ==
    LET r == Representative(T, f)
        n == Len(T)
    IN  IF T[r].class = "var"
        THEN [T EXCEPT ![r].unifier = n + 3]
             \o <<NewVar, NewVar, NewType("closure", <<n + 1, n + 2>>)>>
        ELSE T

(* ast_new_apply and ast_new_builtin.  If f is neither a variable nor a    *)
(* closure the code goes on with the parts of a type that has none.        *)
Apply(f, args) ==
    /\ Ready /\ IsExpression(f) /\ IsArgument(args)
    /\ ClassOf(types, f) \in {"var", "closure"}
    /\ ClassOf(types, f) = "var" => Room(3)
    /\ LET T       == EnsuredRoutine(types, f)
           routine == IF T = types THEN NothingAsked(T) ELSE Asked(T, meant, f, Len(T))
           domain  == PartsOf(T, f)[1]
       IN  Unify(T, domain, args, <<>>, Asked(T, routine, domain, args))
    /\ UNCHANGED <<names, joining>>

(* ast_new_assignment *)
Assignment(l, r) ==
    Ready /\ l \in names /\ IsExpression(r) /\ Ask(l, r) /\ UNCHANGED joining

(* ast_new_while_loop *)
WhileLoop(test) == Ready /\ IsExpression(test) /\ Ask(test, Boolean) /\ UNCHANGED joining

(* ast_new_conditional, up to the types of its branches *)
Conditional(test) ==
    /\ Ready /\ IsExpression(test) /\ Room(1)
    /\ Ask(test, Boolean)
    /\ joining' = TRUE

(* type_new_set *)
SameType(l, r) == Equal(types, Representative(types, l), Representative(types, r))

OneType(l, r) == SameType(l, r) /\ UNCHANGED <<types, meant>>

NotKnown(l, r) ==
    /\ ~SameType(l, r)
    /\ ~IsKnown(types, l) \/ ~IsKnown(types, r)
    /\ types' = Union(types, l, r)
    /\ meant' = Asked(types', meant, l, r)

TwoTypesOneKnown(l, r) ==   \* mutant: one of the types may still be unknown
    /\ ~SameType(l, r)
    /\ IsKnown(types, l) \/ IsKnown(types, r)
    /\ types' = Append(types, NewType("set", <<l, r>>))
    /\ meant' = NothingAsked(types')

TwoTypes(l, r) ==
    /\ ~SameType(l, r)
    /\ IsKnown(types, l) /\ IsKnown(types, r)
    /\ types' = Append(types, NewType("set", <<l, r>>))
    /\ meant' = NothingAsked(types')

(* The rest of ast_new_conditional, when its test has been unified. *)
Join(yes, no) ==
    /\ joining /\ calls = <<>>
    /\ IsStatement(yes) /\ IsStatement(no)
    /\ OneType(yes, no) \/ NotKnown(yes, no) \/ TwoTypes(yes, no)
    /\ joining' = FALSE
    /\ UNCHANGED <<names, calls, failed>>

Next ==
    \/ Declare
    \/ \E l, r \in Node : ArgList(l, r)
    \/ \E d, b \in Node : Routine(d, b)
    \/ \E f, a \in Node : Apply(f, a)
    \/ \E l, r \in Node : Assignment(l, r)
    \/ \E t \in Node : WhileLoop(t)
    \/ \E t \in Node : Conditional(t)
    \/ UnifyStep
    \/ \E y, n \in Node : Join(y, n)

Spec == Init /\ [][Next]_vars

(***************************************************************************)
(* Properties                                                              *)
(***************************************************************************)

(* Types are made of earlier types, the parser asks about types that       *)
(* exist, and at most one statement is being unified.                      *)
TypeOK ==
    /\ Len(types) <= TypeBound
    /\ \A t \in Node :
          /\ types[t].unifier \in Node \union {Null}
          /\ types[t].class \in Compound <=> Len(types[t].parts) = 2
          /\ \A i \in DOMAIN types[t].parts : types[t].parts[i] \in 1 .. t - 1
    /\ names \subseteq {t \in Node : types[t].class = "var"}
    /\ \A i \in DOMAIN calls : calls[i] \in Node \X Node
    /\ joining \in BOOLEAN /\ (joining => Room(1))
    /\ failed \in BOOLEAN
    /\ DOMAIN meant \subseteq Node
    /\ \A t \in DOMAIN meant : t \in meant[t] /\ meant[t] \subseteq DOMAIN meant

(* The types from which n unifiers or fewer come to a representative. *)
Ends(T, n) ==
    LET ends[i \in 0 .. n] ==
          IF i = 0 THEN {t \in DOMAIN T : T[t].unifier = Null}
          ELSE LET before == ends[i - 1] IN
               before \union {t \in DOMAIN T : T[t].unifier \in before}
    IN  ends[n]

(* The loop of type_representative ends, whatever has been unified with    *)
(* what, also by a unification that fails: no chain of unifiers comes back *)
(* to itself.                                                              *)
UnifiersEnd == Ends(types, Len(types)) = Node

(* A type that is known stays known, and of the same class: what parse.c   *)
(* has found out about the type of a symbol holds after all it parses      *)
(* later, and after a unification that fails halfway.                      *)
KnownTypesStay ==
    [][\A t \in Node : IsKnown(types, t) => ClassOf(types', t) = ClassOf(types, t)]_vars

Partition(T) == [t \in DOMAIN T |-> {u \in DOMAIN T : Representative(T, u) = Representative(T, t)}]

(* Unification is exact.  With no error reported, two types have the same  *)
(* representative if and only if that follows from what the parser asked   *)
(* to be equal, and no two types of different classes are among them.      *)
TypesAreWhatTheyMean ==
    calls = <<>> /\ ~failed => meant = Partition(types) /\ Consistent(types, meant)

(* An error is reported only where nothing could make all equal that has   *)
(* been asked to be.                                                       *)
ErrorsAreReal == failed /\ meant # <<>> => ~Consistent(types, meant)

(* Sets whose members, and their members, come to something that is not a  *)
(* set in so many steps. *)
Grounded(T) ==
    LET grounded[i \in 0 .. Len(T)] ==
          IF i = 0 THEN {t \in DOMAIN T : ClassOf(T, t) # "set"}
          ELSE LET before == grounded[i - 1] IN
               before \union {t \in DOMAIN T : Range(PartsOf(T, t)) \subseteq before}
    IN  grounded[Len(T)]

(* type_set_contains_void ends, for the type of every routine: it follows  *)
(* the representatives of members, and no set is a member of itself.       *)
SetsEnd == calls = <<>> /\ ~failed => Grounded(types) = Node
=============================================================================
