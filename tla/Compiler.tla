------------------------------ MODULE Compiler ------------------------------
(***************************************************************************)
(* The generation of intermediate code from syntax trees (icode.c), and    *)
(* what the code means at each stage.  Icode has what becomes of the code. *)
(***************************************************************************)
EXTENDS SyntaxTrees, Icode

CONSTANTS Decisions,    \* bound: outcomes of tests that a run may use up
          Steps         \* bound: steps of a run over a syntax tree

ASSUME BoundsAssumption == Decisions \in Nat /\ Steps \in Nat

VARIABLE source         \* the syntax tree

(***************************************************************************)
(* Generation: ast_gen_r                                                   *)
(***************************************************************************)
Instr(op)      == [op |-> op, arg |-> Integer(0), jump |-> 0]
Jump(op, by)   == [op |-> op, arg |-> Integer(0), jump |-> by]
Push(v)        == [op |-> "PUSH_VALUE", arg |-> v, jump |-> 0]
Slot(i)        == [type |-> "local", v |-> i]
OnLocal(op, i) == [op |-> op, arg |-> Slot(i), jump |-> 0]

(* icode_new_builtin: the number of the builtin is the opcode, if it has one. *)
BuiltinInstr(b) == Instr(IF b = "Extern" THEN "EXTERNAL" ELSE b)

(* The instructions for a node, given those for its parts; a jump says how *)
(* far it goes.  The entry of a closure is the NOP three behind its        *)
(* PUSH_VALUE.                                                             *)
ValueCode(v) == <<Push(v)>>

ClosureCode(v, body) ==
    <<Push(v), Instr("SET_ACTIVATION"), Jump("JMP", Len(body) + 3), Instr("NOP")>>
        \o body \o <<Instr("RET"), Instr("NOP")>>

BuiltinCode(a, args) ==
    (IF a.b = "Store" THEN <<OnLocal("COW_LOCAL", FindLocal[a].index)>> ELSE <<>>)
        \o args
        \o (IF Variadic(a.b) THEN <<Push(Integer(ArgCount[a.args]))>> ELSE <<>>)
        \o <<BuiltinInstr(a.b)>>

AssignmentCode(a, right) ==
    right \o <<OnLocal(IF a.defining THEN "INIT_LOCAL" ELSE "POP_LOCAL", a.left.index)>>

ChoiceCode(test, yes) ==
    test \o <<Jump("JZ", Len(yes) + 1)>> \o yes \o <<Instr("NOP")>>

ConditionalCodeOff(test, yes, no) ==   \* mutant: the test leads to the jump behind YES
    test \o <<Jump("JZ", Len(yes) + 1)>> \o yes
        \o <<Jump("JMP", Len(no) + 2), Instr("NOP")>> \o no \o <<Instr("NOP")>>

ConditionalCode(test, yes, no) ==
    test \o <<Jump("JZ", Len(yes) + 2)>> \o yes
        \o <<Jump("JMP", Len(no) + 2), Instr("NOP")>> \o no \o <<Instr("NOP")>>

LoopCode(test, body) ==
    <<Instr("NOP")>> \o test \o <<Jump("JZ", Len(body) + 2)>> \o body
        \o <<Jump("JMP", -(Len(test) + Len(body) + 2)), Instr("NOP")>>

(* A node, if gen has the code for its children. *)
NodeCode(a, gen) ==
    CASE a.t = "nothing"   -> <<>>
      [] a.t = "local"     -> <<OnLocal("PUSH_LOCAL", a.index)>>
      [] a.t = "value"     -> IF a.value.type = "closure"
                              THEN ClosureCode(a.value, gen[a.body]) ELSE ValueCode(a.value)
      [] a.t = "builtin"   -> BuiltinCode(a, gen[a.args])
      [] a.t = "apply"     -> gen[a.args] \o gen[a.fn] \o <<Instr("CALL")>>
      [] a.t \in {"arg", "statement"} -> gen[a.left] \o gen[a.right]
      [] a.t = "assignment"  -> AssignmentCode(a, gen[a.right])
      [] a.t = "conditional" -> IF a.no = Nothing
                                THEN ChoiceCode(gen[a.test], gen[a.yes])
                                ELSE ConditionalCode(gen[a.test], gen[a.yes], gen[a.no])
      [] a.t = "while"     -> LoopCode(gen[a.test], gen[a.body])
      [] a.t = "retr"      -> Append(gen[a.body], Instr("RET"))

Gen[a \in Trees] == NodeCode(a, Gen)

(* ast_gen_iprogram *)
Code(a) == Append(Gen[a], Instr("HALT"))

ASSUME CodeAssumption == {Code(a) : a \in Programs} \subseteq Listings

CompilerInit == source \in Programs /\ \E g \in {Code(source)} : Start(g)
CompilerNext == Next /\ UNCHANGED source
CompilerSpec == CompilerInit /\ [][CompilerNext]_<<vars, source>>

(***************************************************************************)
(* Meaning                                                                 *)
(*                                                                         *)
(* What a body does is the sequence of its effects, given the outcomes of  *)
(* the tests it comes to; it is cut where these are used up.  The          *)
(* reference reads it off the syntax tree, which is taken apart from the   *)
(* left.  What is still to do is a tree and what follows it, an effect and *)
(* what follows it, a test and what follows for either outcome, or the end.*)
(***************************************************************************)
Then(a, rest)   == [t |-> "then", tree |-> a, rest |-> rest]
Do(e, rest)     == [t |-> "do", effect |-> e, rest |-> rest]
Test(yes, no)   == [t |-> "test", yes |-> yes, no |-> no]
End(op)         == [t |-> "end", op |-> op]

OnSlot(op, i) == Does(op, Slot(i))

(* One node of a tree is taken apart. *)
Unfold(a, rest) ==
    CASE a.t = "nothing" -> rest
      [] a.t = "local" -> Do(OnSlot("PUSH_LOCAL", a.index), rest)
      [] a.t = "value" ->
            Do(Does("PUSH_VALUE", a.value),
               IF a.value.type = "closure" THEN Do(Effect("SET_ACTIVATION"), rest) ELSE rest)
      [] a.t = "builtin" ->
            LET computed == Do(Effect(a.b), rest)
                counted  == IF Variadic(a.b)
                            THEN Do(Does("PUSH_VALUE", Integer(ArgCount[a.args])), computed)
                            ELSE computed
            IN  IF a.b = "Store"
                THEN Do(OnSlot("COW_LOCAL", FindLocal[a].index), Then(a.args, counted))
                ELSE Then(a.args, counted)
      [] a.t = "apply" -> Then(a.args, Then(a.fn, Do(Effect("CALL"), rest)))
      [] a.t \in {"arg", "statement"} -> Then(a.left, Then(a.right, rest))
      [] a.t = "assignment" ->
            Then(a.right,
                 Do(OnSlot(IF a.defining THEN "INIT_LOCAL" ELSE "POP_LOCAL", a.left.index), rest))
      [] a.t = "conditional" -> Then(a.test, Test(Then(a.yes, rest), Then(a.no, rest)))
      [] a.t = "while" -> Then(a.test, Test(Then(a.body, Then(a, rest)), rest))
      [] a.t = "retr" -> Then(a.body, End("RET"))

TreeStep(c) ==
    LET k == c.at
        To(todo, evs, d, st) == Running(todo, c.ev \o evs, d, st)
    IN  IF c.st # "on" THEN c
        ELSE CASE k.t = "then" -> To(Unfold(k.tree, k.rest), <<>>, c.d, "on")
               [] k.t = "do" -> To(k.rest, <<k.effect>>, c.d, "on")
               [] k.t = "end" -> To(None, <<Effect(k.op)>>, c.d, "end")
               [] k.t = "test" /\ c.d = <<>> -> To(None, <<Effect("JZ")>>, c.d, "cut")
               [] k.t = "test" /\ c.d # <<>> ->
                     To(IF Head(c.d) THEN k.yes ELSE k.no, <<Effect("JZ")>>, Tail(c.d), "on")

(* Where a run is after n steps, over a tree and over instructions.        *)
TreeRun(c, n) ==
    LET Run[m \in 0 .. n] == IF m = 0 THEN c ELSE TreeStep(Run[m - 1]) IN Run[n]

CodeRun(flow, c, n) ==
    LET Run[m \in 0 .. n] == IF m = 0 THEN c ELSE Step(flow, Run[m - 1]) IN Run[n]

Outcomes == [1 .. Decisions -> BOOLEAN]

(* A run from start does what is to do and ends like it.  Jumps and NOPs   *)
(* are no steps of the tree: it may take as many steps again.              *)
DoesAsToDo(flow, start, todo) == \A d \in Outcomes :
    \E r \in {TreeRun(Begin(todo, d), Steps)}, h \in {CodeRun(flow, Begin(start, d), Steps)} :
        r.st # "on" => CodeRun(flow, h, Steps) = r

DoesAsTheTree(flow, start, start_of) ==
    /\ DoesAsToDo(flow, start, Then(source, End("HALT")))
    /\ \A c \in ClosuresIn[source] :
          DoesAsToDo(flow, start_of[c.value.v], Then(c.body, End("RET")))

(***************************************************************************)
(* Properties                                                              *)
(***************************************************************************)

(* Every step of every optimization leaves what the program and each of    *)
(* its closures do as the syntax tree has it: the same values pushed, the  *)
(* same variables and builtins, calls and tests in the same order.  So do  *)
(* the bytes that iprogram_gen writes, run with the sizes that vm_run      *)
(* skips.                                                                  *)
MeaningPreserved ==
    IF pass = "done"
    THEN DoesAsTheTree(MemoryFlow, 0, [k \in DOMAIN entry |-> label[entry[k]]])
    ELSE DoesAsTheTree(ListFlow, Head(program), entry)
============================================================================
