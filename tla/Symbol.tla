------------------------------- MODULE Symbol -------------------------------
(***************************************************************************)
(* Names and scopes: symbol.c, ast_new_local and the part of the parser    *)
(* that opens and closes symbol tables.  The open tables are those on the  *)
(* stack of the recursive-descent parser, each the parent of the next.     *)
(*                                                                         *)
(* A reference in the code is a pair of numbers: upcount, how many         *)
(* activation records up, and index, the slot in it.  `var', `owner' and   *)
(* `args' are history: every declaration of a variable has a number, and   *)
(* `owner' says which declaration a slot of a routine was given to.        *)
(***************************************************************************)
EXTENDS Integers, Sequences

CONSTANTS
    Name,
    Predefined,         \* names of builtins and global constants
    ScopeBound,         \* bound on open symbol tables
    SlotBound,          \* bound on the variables of a routine, and on its arity
    ClosureBound,       \* bound on the closures of a routine
    DeclarationBound,   \* bound on declarations
    DefinitionBound,    \* bound on definitions inside of each other's initializers
    ConstantRoutines    \* whether the initializer of a constant has routines in it

ASSUME PredefinedAssumption == Predefined \subseteq Name
ASSUME BoundsAssumption ==
    {ScopeBound, SlotBound, ClosureBound, DeclarationBound, DefinitionBound} \subseteq Nat

VARIABLES
    scopes,     \* the open symbol tables, innermost last
    routines,   \* of the main program and of each routine being parsed
    defs,       \* the definitions whose initializer is being parsed
    closure,    \* the closure that parse_primitive has just returned
    declared,   \* number of declarations so far
    errors      \* whether report() has been called

vars == <<scopes, routines, defs, closure, declared, errors>>

Unowned == 0
Slots   == 0 .. SlotBound - 1

Ref == [upcount : Int, index : Int, var : Nat]

(* struct symbol; of a constant, whether its value is a closure, and to    *)
(* what that refers.  Until its initializer is parsed it has no value, and *)
(* a mention of it puts none of the closures below into the code.          *)
Symbol == [kind : {"none", "variable", "constant"}, index : Int, var : Nat,
           routine : BOOLEAN, refs : SUBSET Ref]

NoSymbol == [kind |-> "none", index |-> -1, var |-> Unowned, routine |-> FALSE, refs |-> {}]
Constant == [NoSymbol EXCEPT !.kind = "constant"]

NewTable(level, symbols) == [level |-> level, next_index |-> 0, symbols |-> symbols]

(* arity, cc: variables of parse_primitive; inner: how many closures the   *)
(* code of the routine makes; formals: its argument list is being read.    *)
NewRoutine(formals) ==
    [arity |-> 0, cc |-> 0, inner |-> 0, formals |-> formals,
     refs |-> {}, owner |-> [i \in Slots |-> Unowned], args |-> {}]

NoClosure == [arity |-> 0, locals |-> -1, cc |-> 0, inner |-> 0,
              refs |-> {}, owner |-> [i \in Slots |-> Unowned], args |-> {}]

Top     == Len(scopes)
Table   == scopes[Top]
Routine == routines[Len(routines)]

Init ==
    /\ scopes = <<NewTable(0, [n \in Name |-> IF n \in Predefined THEN Constant ELSE NoSymbol])>>
    /\ routines = <<NewRoutine(FALSE)>>
    /\ defs = <<>>
    /\ closure = NoClosure
    /\ declared = 0
    /\ errors = FALSE

(***************************************************************************)
(* symbol.c                                                                *)
(***************************************************************************)

(* symbol_lookup *)
Holds(i, n) == scopes[i].symbols[n].kind # "none"
IsLocal(n)  == Holds(Top, n)
IsKnown(n)  == \E i \in DOMAIN scopes : Holds(i, n)
Innermost(i, n) == Holds(i, n) /\ \A j \in DOMAIN scopes : Holds(j, n) => j <= i

(* The defining table: the outermost of those at the level of the current. *)
IsHome(i) == i = 1 \/ scopes[i - 1].level # scopes[i].level

Home ==
    CHOOSE i \in DOMAIN scopes : scopes[i].level = Table.level /\ IsHome(i)

(* symbol_define with a value, and without. *)
Defined(n, symbol) == [scopes EXCEPT ![Top].symbols[n] = symbol]

NewVariable ==
    [kind |-> "variable", index |-> scopes[Home].next_index, var |-> declared + 1,
     routine |-> FALSE, refs |-> {}]

DefinedVariable(n) ==
    [i \in DOMAIN scopes |->
        [scopes[i] EXCEPT !.next_index = IF i = Home THEN @ + 1 ELSE @,
                          !.symbols = IF i = Top THEN [@ EXCEPT ![n] = NewVariable] ELSE @]]

(* The bounds. *)
CanDeclare == scopes[Home].next_index < SlotBound /\ declared < DeclarationBound
CanMention(n) ==
    Routine.inner < ClosureBound \/ \A i \in DOMAIN scopes : ~scopes[i].symbols[n].routine

(* ast_new_local: symbol s of table i, referred to from here. *)
Upcount(i) == Table.level - scopes[i].level

RefTo(i, s) == [upcount |-> Upcount(i), index |-> s.index, var |-> s.var]

(***************************************************************************)
(* The routine being parsed                                                *)
(***************************************************************************)
InRoutine(routine) == [routines EXCEPT ![Len(routines)] = routine]

WithVariableUncounted(arg) ==   \* mutant: the arity stays as it is
    LET s == NewVariable IN
    [Routine EXCEPT !.owner = [@ EXCEPT ![s.index] = s.var],
                    !.refs = @ \cup {RefTo(Top, s)},
                    !.args = IF arg THEN @ \cup {s.var} ELSE @]

(* It gets a variable, which has the next slot of its record, and refers   *)
(* to it: the code assigns to a variable, the call to an argument.         *)
WithVariable(arg) ==
    LET s == NewVariable IN
    [Routine EXCEPT !.owner = [@ EXCEPT ![s.index] = s.var],
                    !.refs = @ \cup {RefTo(Top, s)},
                    !.arity = IF arg THEN @ + 1 ELSE @,
                    !.args = IF arg THEN @ \cup {s.var} ELSE @]

(* What a closure refers to, seen from the routine that makes it: its env  *)
(* is the record of that routine.                                          *)
SeenOutside(refs) ==
    {[r EXCEPT !.upcount = @ - 1] : r \in {q \in refs : q.upcount > 0}}

WithClosure(routine, refs) ==
    [routine EXCEPT !.refs = @ \cup SeenOutside(refs), !.inner = @ + 1]

(* It mentions the symbol n of table i.  If that is a constant whose value *)
(* is a closure, the code pushes the closure and gives it the record of    *)
(* this routine as its env, as if it had been written here.                *)
WithMention(i, n) ==
    LET s == scopes[i].symbols[n] IN
    IF s.kind = "variable" THEN [Routine EXCEPT !.refs = @ \cup {RefTo(i, s)}]
    ELSE IF s.routine THEN WithClosure(Routine, s.refs)
    ELSE Routine

(***************************************************************************)
(* Tables: parse_statement, parse_primitive                                *)
(***************************************************************************)
InInitializer == defs # <<>> /\ defs[Len(defs)].depth = Top
IsBlock       == Top > 1 /\ ~IsHome(Top)
IsRoutine     == Top > 1 /\ IsHome(Top)

AtStatement == ~Routine.formals /\ ~InInitializer

(* The initializer of a constant leaves nothing in the code: its tree is   *)
(* freed, or there is an error.                                            *)
IsConstant(depth) ==
    defs # <<>> /\ defs[Len(defs)].depth = depth /\ defs[Len(defs)].constant

(* A block, and the branches and bodies of if and while. *)
OpenBlock ==
    /\ AtStatement /\ Top < ScopeBound
    /\ scopes' = Append(scopes, NewTable(Table.level, [n \in Name |-> NoSymbol]))
    /\ closure' = NoClosure
    /\ UNCHANGED <<routines, defs, declared, errors>>

CloseBlockAndSlots ==   \* mutant: the block gives its slots back
    /\ AtStatement /\ IsBlock
    /\ scopes' = [i \in 1 .. Top - 1 |->
          [scopes[i] EXCEPT !.next_index =
              IF i = Home
              THEN @ - (IF \E n \in Name : Table.symbols[n].kind = "variable" THEN 1 ELSE 0)
              ELSE @]]
    /\ closure' = NoClosure
    /\ UNCHANGED <<routines, defs, declared, errors>>

CloseBlock ==
    /\ AtStatement /\ IsBlock
    /\ scopes' = SubSeq(scopes, 1, Top - 1)
    /\ closure' = NoClosure
    /\ UNCHANGED <<routines, defs, declared, errors>>

(* A routine begins wherever an expression may. *)
OpenRoutineUncounted ==   \* mutant: cc stays as it is
    /\ ~Routine.formals /\ Top < ScopeBound /\ Routine.inner < ClosureBound
    /\ InInitializer /\ defs[Len(defs)].constant => ConstantRoutines
    /\ scopes' = Append(scopes, NewTable(Table.level + 1, [n \in Name |-> NoSymbol]))
    /\ routines' = Append(routines, NewRoutine(TRUE))
    /\ closure' = NoClosure
    /\ UNCHANGED <<defs, declared, errors>>

OpenRoutineAtSameLevel ==   \* mutant: offset 0, as for a block
    /\ ~Routine.formals /\ Top < ScopeBound /\ Routine.inner < ClosureBound
    /\ InInitializer /\ defs[Len(defs)].constant => ConstantRoutines
    /\ scopes' = Append(scopes, NewTable(Table.level, [n \in Name |-> NoSymbol]))
    /\ routines' = Append(InRoutine([Routine EXCEPT !.cc = @ + 1]), NewRoutine(TRUE))
    /\ closure' = NoClosure
    /\ UNCHANGED <<defs, declared, errors>>

OpenRoutine ==
    /\ ~Routine.formals /\ Top < ScopeBound /\ Routine.inner < ClosureBound
    /\ InInitializer /\ defs[Len(defs)].constant => ConstantRoutines
    /\ scopes' = Append(scopes, NewTable(Table.level + 1, [n \in Name |-> NoSymbol]))
    /\ routines' = Append(InRoutine([Routine EXCEPT !.cc = @ + 1]), NewRoutine(TRUE))
    /\ closure' = NoClosure
    /\ UNCHANGED <<defs, declared, errors>>

(* parse_formal_arg_list: one argument.  One that is there already is an   *)
(* error, and counted.                                                     *)
Formal(n) ==
    /\ Routine.formals
    /\ IF IsLocal(n)
       THEN /\ Routine.arity < SlotBound
            /\ routines' = InRoutine([Routine EXCEPT !.arity = @ + 1])
            /\ errors' = TRUE
            /\ UNCHANGED <<scopes, declared>>
       ELSE /\ CanDeclare
            /\ scopes' = DefinedVariable(n)
            /\ routines' = InRoutine(WithVariable(TRUE))
            /\ declared' = declared + 1
            /\ UNCHANGED errors
    /\ closure' = NoClosure
    /\ UNCHANGED defs

BeginBody ==
    /\ Routine.formals
    /\ routines' = InRoutine([Routine EXCEPT !.formals = FALSE])
    /\ UNCHANGED <<scopes, defs, closure, declared, errors>>

(* value_new_closure: of its locals it knows how many they are. *)
CloseRoutine ==
    LET outer == Len(routines) - 1 IN
    /\ AtStatement /\ IsRoutine
    /\ closure' = [arity |-> Routine.arity, locals |-> Table.next_index - Routine.arity,
                   cc |-> Routine.cc, inner |-> Routine.inner,
                   refs |-> Routine.refs, owner |-> Routine.owner, args |-> Routine.args]
    /\ scopes' = SubSeq(scopes, 1, Top - 1)
    /\ routines' = [k \in 1 .. outer |->
                       IF k = outer /\ ~IsConstant(Top - 1)
                       THEN WithClosure(routines[k], Routine.refs) ELSE routines[k]]
    /\ UNCHANGED <<defs, declared, errors>>

(***************************************************************************)
(* Names: parse_var and its callers                                        *)
(***************************************************************************)
Declare(n) ==
    /\ CanDeclare
    /\ scopes' = DefinedVariable(n)
    /\ routines' = InRoutine(WithVariable(FALSE))
    /\ declared' = declared + 1

(* parse_definition up to its initializer. *)
Define(n, constant) ==
    /\ AtStatement /\ Len(defs) < DefinitionBound /\ CanMention(n)
    /\ IF IsLocal(n)
       THEN /\ errors' = TRUE
            /\ routines' = InRoutine(WithMention(Top, n))
            /\ UNCHANGED <<scopes, declared>>
       ELSE /\ UNCHANGED errors
            /\ IF constant
               THEN /\ scopes' = Defined(n, Constant)
                    /\ UNCHANGED <<routines, declared>>
               ELSE Declare(n)
    /\ defs' = Append(defs, [name |-> n, depth |-> Top, constant |-> constant])
    /\ closure' = NoClosure

(* The name being defined, outside of a routine: the argument excl. *)
IsExcluded(n) == InInitializer /\ defs[Len(defs)].name = n /\ IsLocal(n)

(* The rest of it.  What the initializer of a constant is: not constant,   *)
(* another value, the closure just made, or the name of a constant that is *)
(* a closure.  symbol_set_value asserts that the name being defined is a   *)
(* constant: it may be a variable that was there already.                  *)
EndDefinition ==
    LET d      == defs[Len(defs)]
        symbol == Table.symbols[d.name]
    IN  /\ ~Routine.formals /\ InInitializer
        /\ \/ ~d.constant /\ UNCHANGED <<scopes, errors>>
           \/ d.constant /\ errors' = TRUE /\ UNCHANGED scopes
           \/ /\ d.constant /\ symbol.kind = "constant"
              /\ scopes' = Defined(d.name, Constant)
              /\ UNCHANGED errors
           \/ /\ d.constant /\ symbol.kind = "constant" /\ closure # NoClosure
              /\ scopes' = Defined(d.name, [Constant EXCEPT !.routine = TRUE,
                                                            !.refs = closure.refs])
              /\ UNCHANGED errors
           \/ /\ d.constant /\ symbol.kind = "constant"
              /\ \E i \in DOMAIN scopes, n \in Name :
                    /\ Innermost(i, n) /\ ~IsExcluded(n) /\ scopes[i].symbols[n].routine
                    /\ scopes' = Defined(d.name, scopes[i].symbols[n])
              /\ UNCHANGED errors
        /\ defs' = SubSeq(defs, 1, Len(defs) - 1)
        /\ closure' = NoClosure
        /\ UNCHANGED <<routines, declared>>

(* A mention of n in an expression, a command, or at the left of an        *)
(* assignment, where it is known.  A name that is not known is an error,   *)
(* and becomes a variable.                                                 *)
Mention(n, assigning) ==
    /\ ~Routine.formals
    /\ assigning => AtStatement /\ IsKnown(n)
    /\ CanMention(n)
    /\ \/ IsExcluded(n) /\ errors' = TRUE /\ UNCHANGED <<scopes, routines, declared>>
       \/ /\ ~IsExcluded(n)
          /\ \E i \in DOMAIN scopes :
                /\ Innermost(i, n)
                /\ errors' = (errors \/ (assigning /\ scopes[i].symbols[n].kind = "constant"))
                /\ routines' = IF IsConstant(Top) THEN routines
                               ELSE InRoutine(WithMention(i, n))
          /\ UNCHANGED <<scopes, declared>>
       \/ ~IsKnown(n) /\ Declare(n) /\ errors' = TRUE
    /\ closure' = NoClosure
    /\ UNCHANGED defs

(* import: load_builtins defines a name without looking it up. *)
Import(n) ==
    /\ AtStatement
    /\ scopes' = Defined(n, Constant)
    /\ closure' = NoClosure
    /\ UNCHANGED <<routines, defs, declared, errors>>

Next ==
    \/ OpenBlock \/ CloseBlock
    \/ OpenRoutine \/ BeginBody \/ CloseRoutine
    \/ EndDefinition
    \/ \E n \in Name :
          \/ Formal(n)
          \/ \E b \in BOOLEAN : Define(n, b) \/ Mention(n, b)
    \/ \E n \in Predefined : Import(n)

Spec == Init /\ [][Next]_vars

(***************************************************************************)
(* Properties                                                              *)
(***************************************************************************)
TypeOK ==
    /\ scopes \in Seq([level : Nat, next_index : 0 .. SlotBound,
                       symbols : [Name -> Symbol]])
    /\ routines \in Seq([arity : Nat, cc : Nat, inner : Nat, formals : BOOLEAN,
                         refs : SUBSET Ref, owner : [Slots -> Nat], args : SUBSET Nat])
    /\ defs \in Seq([name : Name, depth : Nat, constant : BOOLEAN])
    /\ declared \in Nat
    /\ errors \in BOOLEAN
    /\ Len(routines) = Table.level + 1

(* Whatever the parser has put into the code of a routine, directly or by  *)
(* a closure made there: going upcount records up and taking the slot      *)
(* index there comes to the variable that the name was declared as.  No    *)
(* slot of a routine goes to another variable later, although blocks come  *)
(* and go, and levels count routines, not tables.                          *)
ReferencesReachTheirVariable ==
    \A k \in DOMAIN routines : \A r \in routines[k].refs :
        /\ r.upcount \in 0 .. k - 1
        /\ r.index \in Slots
        /\ r.var # Unowned
        /\ routines[k - r.upcount].owner[r.index] = r.var

(* vm_run makes the record of a call arity + locals slots long and puts    *)
(* the arguments into the first: every variable of the routine, those of   *)
(* its blocks too, has a slot in there, and the arguments have the first   *)
(* ones unless one was declared twice.                                     *)
ClosureRecordFits ==
    closure # NoClosure =>
        /\ \A i \in Slots : closure.owner[i] # Unowned => i < closure.arity + closure.locals
        /\ ~errors => /\ closure.locals >= 0
                      /\ {closure.owner[i] : i \in 0 .. closure.arity - 1} = closure.args

(* cc has counted every closure that the code of a routine makes: one with *)
(* cc = 0, whose call takes a record on the activation stack, makes none.  *)
(* What record a tail call gives it is not said here (vm.c:514).           *)
ClosuresAreCounted ==
    closure # NoClosure /\ closure.cc = 0 => closure.inner = 0
=============================================================================
