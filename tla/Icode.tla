------------------------------- MODULE Icode -------------------------------
(***************************************************************************)
(* Intermediate code (icode.c) and its encoding (gen.c): a linked list of  *)
(* instructions, five optimizations, each a walk over the list that        *)
(* rewires and frees instructions, and the program that vm_run executes.   *)
(* Compiler has the generation of the list from a syntax tree.             *)
(*                                                                         *)
(* An instruction is known by its number, counted from 1, a closure by a   *)
(* negative number.  `program' is the list; what is not in it has been     *)
(* freed.  The referrers of an instruction are the jumps to it and the     *)
(* closures whose body starts there, or once did: constants.               *)
(***************************************************************************)
EXTENDS Ast, SequencesExt

CONSTANTS Listings,     \* the lists of instructions to start from
          ValueSize,    \* sizeof(struct value)
          PointerSize   \* sizeof(vm_label_t), sizeof(struct builtin *)

ASSUME SizeAssumption == ValueSize \in Nat /\ PointerSize \in Nat

Opcodes == {"HALT", "PUSH_ZERO", "PUSH_ONE", "PUSH_TWO", "PUSH_VALUE", "PUSH_LOCAL",
            "POP_LOCAL", "INIT_LOCAL", "COW_LOCAL", "JZ", "JMP", "CALL", "RET", "GOTO",
            "SET_ACTIVATION", "NOP", "EXTERNAL", "Add", "List", "Store"}

Operands == {"integer", "atom", "closure", "list", "local"}

IsClosurePush(instr) == instr.op = "PUSH_VALUE" /\ instr.arg.type = "closure"

(* What ast_gen_r appends to the list: an instruction, its operand, and    *)
(* how far it jumps.  The body of a closure begins three instructions      *)
(* behind the one that pushes it.  Nothing follows HALT.                   *)
Listing(g) ==
    /\ Len(g) \in Nat \ {0} /\ g = [i \in 1 .. Len(g) |-> g[i]]
    /\ g[Len(g)].op = "HALT"
    /\ \A i \in DOMAIN g :
          /\ g[i].op \in Opcodes /\ g[i].arg.type \in Operands
          /\ g[i].arg.type = "integer" => g[i].arg = Integer(g[i].arg.v)
          /\ g[i].op \in {"JMP", "JZ"} => i + g[i].jump \in DOMAIN g /\ g[i].jump # 0
          /\ g[i].op \notin {"JMP", "JZ"} => g[i].jump = 0
          /\ IsClosurePush(g[i]) => i + 3 \in DOMAIN g /\ g[i].arg.v \in Int /\ g[i].arg.v < 0

ASSUME ListingAssumption == \A g \in Listings : Listing(g)

VARIABLES
    program, opcode, operand, branch, referrers,
    entry,      \* of a closure: the field icode
    pass, ic, dead,
    label,      \* of an instruction: its place in the program of the vm
    memory      \* that program: at each label an opcode and what follows

code == <<program, opcode, branch, referrers, entry>>
vars == <<code, operand, pass, ic, dead, label, memory>>

None == 0

(* The list g, places being absolute from here on.                         *)
(* A mention of a constant that is a closure generates its body again.     *)
(* The closure becomes a referrer of each entry, and the last one counts.  *)
Start(g) ==
    LET closures  == {g[i].arg.v : i \in {j \in DOMAIN g : IsClosurePush(g[j])}}
        bodies(k) == {i + 3 : i \in {j \in DOMAIN g : IsClosurePush(g[j]) /\ g[j].arg.v = k}}
    IN  /\ program = [i \in DOMAIN g |-> i]
        /\ opcode = [i \in DOMAIN g |-> g[i].op]
        /\ operand = [i \in DOMAIN g |-> g[i].arg]
        /\ branch = [i \in DOMAIN g |-> IF g[i].jump = 0 THEN None ELSE i + g[i].jump]
        /\ referrers = [i \in DOMAIN g |->
               {j \in DOMAIN g : branch[j] = i} \cup {k \in closures : i \in bodies(k)}]
        /\ entry = [k \in closures |-> Max(bodies(k))]
        /\ pass = "nops"
        /\ ic = 1
        /\ dead = FALSE
        /\ label = <<>>
        /\ memory = <<>>

Init == \E g \in Listings : Start(g)

(***************************************************************************)
(* The linked list                                                         *)
(***************************************************************************)
IsBranch(i) == opcode[i] \in {"JMP", "JZ"}

Place(i) == CHOOSE n \in DOMAIN program : program[n] = i
NextOf(i) == IF Place(i) = Len(program) THEN None ELSE program[Place(i) + 1]
PrevOf(i) == IF Place(i) = 1 THEN None ELSE program[Place(i) - 1]

(* referrer_unwire, for the jump i *)
Unwired(i) == [referrers EXCEPT ![branch[i]] = @ \ {i}]

(* icode_free: i leaves the list, and a jump the referrers of its target. *)
FreeStaysWired(i) ==   \* mutant: the target keeps the link to a freed jump
    /\ program' = RemoveAt(program, Place(i))
    /\ referrers' = referrers

Free(i) ==
    /\ program' = RemoveAt(program, Place(i))
    /\ referrers' = IF IsBranch(i) THEN Unwired(i) ELSE referrers

(***************************************************************************)
(* The walks.  Each saves the successor of the instruction it visits       *)
(* before it may free it.                                                  *)
(***************************************************************************)
NextPass == [nops |-> "jumps", jumps |-> "tailcalls", tailcalls |-> "smallints",
             smallints |-> "deadcode", deadcode |-> "encode"]

WalkOffTheEnd ==   \* mutant: the next walk does not start at the head
    /\ ic' = NextOf(ic)
    /\ pass' = IF NextOf(ic) = None THEN NextPass[pass] ELSE pass

WalkOn ==
    IF NextOf(ic) = None
    THEN ic' = Head(program') /\ pass' = NextPass[pass]
    ELSE ic' = NextOf(ic) /\ UNCHANGED pass

Visiting(p) ==
    /\ pass = p
    /\ WalkOn
    /\ UNCHANGED <<operand, label, memory>>

(* referrers_rewire: whatever led to ic leads to its successor. *)
Rewire(to) ==
    /\ branch' = [i \in DOMAIN branch |-> IF i \in referrers[ic] THEN to ELSE branch[i]]
    /\ entry' = [k \in DOMAIN entry |-> IF k \in referrers[ic] THEN to ELSE entry[k]]
    /\ referrers' = [referrers EXCEPT ![to] = @ \cup referrers[ic], ![ic] = {}]

(* iprogram_eliminate_nops *)
EliminateNop ==
    /\ opcode[ic] = "NOP"
    /\ Rewire(NextOf(ic))
    /\ program' = RemoveAt(program, Place(ic))
    /\ UNCHANGED <<opcode, dead>>
    /\ Visiting("nops")

(* iprogram_eliminate_useless_jumps: a jump to a RET becomes one. *)
IsUselessJump(i) == opcode[i] = "JMP" /\ opcode[branch[i]] = "RET"

ReplaceJump ==
    /\ IsUselessJump(ic)
    /\ opcode' = [opcode EXCEPT ![ic] = "RET"]
    /\ referrers' = Unwired(ic)
    /\ UNCHANGED <<program, branch, entry, dead>>
    /\ Visiting("jumps")

(* iprogram_optimize_tail_calls: CALL and a RET that nothing jumps to. *)
IsTailCallOfAny(i) ==   \* mutant: whatever jumps to the RET
    /\ opcode[i] = "RET"
    /\ PrevOf(i) # None /\ opcode[PrevOf(i)] = "CALL"

IsTailCall(i) ==
    /\ opcode[i] = "RET" /\ referrers[i] = {}
    /\ PrevOf(i) # None /\ opcode[PrevOf(i)] = "CALL"

OptimizeTailCall ==
    /\ IsTailCall(ic)
    /\ opcode' = [opcode EXCEPT ![PrevOf(ic)] = "GOTO"]
    /\ Free(ic)
    /\ UNCHANGED <<branch, entry, dead>>
    /\ Visiting("tailcalls")

(* iprogram_optimize_push_small_ints *)
SmallInts == [i \in 0 .. 2 |-> <<"PUSH_ZERO", "PUSH_ONE", "PUSH_TWO">>[i + 1]]

IsSmallIntOfAnyType(i) ==   \* mutant: without the test of the type
    opcode[i] = "PUSH_VALUE" /\ operand[i].v \in 0 .. 2

IsSmallInt(i) ==
    /\ opcode[i] = "PUSH_VALUE"
    /\ operand[i].type = "integer" /\ operand[i].v \in 0 .. 2

PushSmallInt ==
    /\ IsSmallInt(ic)
    /\ opcode' = [opcode EXCEPT ![ic] = SmallInts[operand[ic].v]]
    /\ UNCHANGED <<program, branch, referrers, entry, dead>>
    /\ Visiting("smallints")

(* iprogram_eliminate_dead_code: what follows an instruction that never    *)
(* goes on is dead up to the next one with referrers.  The code reads the  *)
(* opcode of a dead instruction after it has freed it; whatever it reads,  *)
(* dead stays as it is.                                                    *)
DeadHere == dead /\ referrers[ic] = {}

Final == {"JMP", "RET", "GOTO", "HALT"}

NeverGoesOn(i) == opcode[i] \in Final

EliminateDead ==
    /\ DeadHere
    /\ Free(ic)
    /\ UNCHANGED <<opcode, branch, entry, dead>>
    /\ Visiting("deadcode")

KeepAlive ==
    /\ ~DeadHere
    /\ dead' = NeverGoesOn(ic)
    /\ UNCHANGED code
    /\ Visiting("deadcode")

(* A walk leaves the instruction as it is. *)
PassBy ==
    /\ \/ pass = "nops" /\ opcode[ic] # "NOP"
       \/ pass = "jumps" /\ ~IsUselessJump(ic)
       \/ pass = "tailcalls" /\ ~IsTailCall(ic)
       \/ pass = "smallints" /\ ~IsSmallInt(ic)
    /\ UNCHANGED <<code, dead>>
    /\ Visiting(pass)

(***************************************************************************)
(* Encoding: iprogram_gen                                                  *)
(***************************************************************************)

(* What the encoder writes behind an opcode. *)
OperandSizeInitForgotten(op) ==   \* mutant: no case for INIT_LOCAL
    CASE op = "PUSH_VALUE" -> ValueSize
      [] op \in {"PUSH_LOCAL", "POP_LOCAL", "COW_LOCAL"} -> 2
      [] op \in {"JZ", "JMP", "EXTERNAL"} -> PointerSize
      [] OTHER -> 0

OperandSize(op) ==
    CASE op = "PUSH_VALUE" -> ValueSize
      [] op \in {"PUSH_LOCAL", "POP_LOCAL", "COW_LOCAL", "INIT_LOCAL"} -> 2
      [] op \in {"JZ", "JMP", "EXTERNAL"} -> PointerSize
      [] OTHER -> 0

(* gptr when the n-th instruction of the list is written. *)
LabelOf[n \in DOMAIN program] ==
    IF n = 1 THEN 0 ELSE LabelOf[n - 1] + 1 + OperandSize(opcode[program[n - 1]])

(* Index and level of a variable are stored in a byte. *)
Stored(arg) == IF arg.type = "local" THEN [arg EXCEPT !.v = @ % 256] ELSE arg

Encode ==
    LET at == [i \in Range(program) |-> LabelOf[Place(i)]] IN
    /\ pass = "encode"
    /\ label' = at
    /\ memory' = [l \in Range(at) |->
           LET i == CHOOSE j \in Range(program) : at[j] = l
           IN  [op |-> opcode[i],
                arg |-> Stored(operand[i]),
                target |-> IF IsBranch(i) THEN at[branch[i]] ELSE None]]
    /\ pass' = "done"
    /\ UNCHANGED <<code, operand, ic, dead>>

Done == pass = "done" /\ UNCHANGED vars

Next ==
    \/ EliminateNop \/ ReplaceJump \/ OptimizeTailCall \/ PushSmallInt
    \/ EliminateDead \/ KeepAlive \/ PassBy \/ Encode \/ Done

Spec == Init /\ [][Next]_vars

(* vm_run has its own opinion of how much of memory an instruction takes;  *)
(* it has none of NOP.                                                     *)
VmSkip(op) ==
    CASE op = "PUSH_VALUE" -> ValueSize
      [] op \in {"PUSH_LOCAL", "POP_LOCAL", "INIT_LOCAL", "COW_LOCAL"} -> 2
      [] op \in {"JZ", "EXTERNAL"} -> PointerSize
      [] OTHER -> 0

(***************************************************************************)
(* What instructions do: effects, and where it goes on.  A flow has the    *)
(* instructions of the list, or of memory, by place.                       *)
(***************************************************************************)
ListFlow == [i \in Range(program) |->
    [op |-> opcode[i], arg |-> operand[i], next |-> NextOf(i), branch |-> branch[i]]]

MemoryFlow == [l \in DOMAIN memory |->
    [op |-> memory[l].op, arg |-> memory[l].arg,
     next |-> l + 1 + VmSkip(memory[l].op), branch |-> memory[l].target]]

Does(op, arg) == [op |-> op, arg |-> arg]
Effect(op)    == Does(op, Integer(0))

WithOperand == {"PUSH_VALUE", "PUSH_LOCAL", "POP_LOCAL", "INIT_LOCAL", "COW_LOCAL"}

(* Some instructions stand for others. *)
Effects(x) ==
    CASE x.op \in {"NOP", "JMP"} -> <<>>
      [] x.op \in WithOperand -> <<Does(x.op, x.arg)>>
      [] x.op = "PUSH_ZERO" -> <<Does("PUSH_VALUE", Integer(0))>>
      [] x.op = "PUSH_ONE"  -> <<Does("PUSH_VALUE", Integer(1))>>
      [] x.op = "PUSH_TWO"  -> <<Does("PUSH_VALUE", Integer(2))>>
      [] x.op = "GOTO"      -> <<Effect("CALL"), Effect("RET")>>
      [] x.op = "EXTERNAL"  -> <<Effect("Extern")>>
      [] OTHER              -> <<Effect(x.op)>>

(* A run: where it is, its effects so far, the outcomes of tests that it   *)
(* has left, and if it goes on, has ended, is cut or has lost its way.     *)
Running(at, ev, d, st) == [at |-> at, ev |-> ev, d |-> d, st |-> st]

Begin(at, d) == Running(at, <<>>, d, "on")

Step(flow, c) ==
    LET x == flow[c.at]
        To(at, d, st) == Running(at, c.ev \o Effects(x), d, st)
    IN  IF c.st # "on" THEN c
        ELSE IF c.at \notin DOMAIN flow THEN Running(None, c.ev, c.d, "lost")
        ELSE CASE x.op \in {"RET", "GOTO", "HALT"} -> To(None, c.d, "end")
               [] x.op = "JZ" /\ c.d = <<>> -> To(None, c.d, "cut")
               [] x.op = "JZ" /\ c.d # <<>> ->
                      To(IF Head(c.d) THEN x.next ELSE x.branch, Tail(c.d), "on")
               [] x.op = "JMP" -> To(x.branch, c.d, "on")
               [] OTHER -> To(x.next, c.d, "on")

(* Where F goes to i, G goes to j: there too, or past a NOP that has gone. *)
Leads(F, G, i, j) ==
    /\ j \in DOMAIN G
    /\ i = j \/ (i \in DOMAIN F \ DOMAIN G /\ F[i].op = "NOP" /\ F[i].next = j)

(* Where the bodies of a closure begin: one for each mention of it.        *)
BodiesOf(k) == {i \in Range(program) : k \in referrers[i]}

(* One instruction of G does what it does in F. *)
DoesTheSame(F, G, i) ==
    LET x == F[i]
        y == G[i]
    IN  \/ /\ Effects(y) = Effects(x) /\ (y.op = "JMP" <=> x.op = "JMP")
           /\ y.op \notin Final => Leads(F, G, x.next, y.next)
           /\ y.op \in {"JMP", "JZ"} => Leads(F, G, x.branch, y.branch)
        \/ y.op = "RET" /\ x.op = "JMP" /\ F[x.branch].op = "RET"
        \/ y.op = "GOTO" /\ x.op = "CALL" /\ F[x.next].op = "RET"

(***************************************************************************)
(* Properties                                                              *)
(***************************************************************************)

(* Instructions have known opcodes and operands; the instruction that a    *)
(* walk is at has not been freed.                                          *)
TypeOK ==
    /\ opcode \in [DOMAIN opcode -> Opcodes]
    /\ \A i \in DOMAIN operand : operand[i].type \in Operands
    /\ Range(program) \subseteq DOMAIN opcode
    /\ DOMAIN branch = DOMAIN opcode /\ DOMAIN referrers = DOMAIN opcode
    /\ pass \in DOMAIN NextPass \cup {"encode", "done"}
    /\ ic \in Range(program)
    /\ dead \in BOOLEAN

(* Before and after every step of every pass, icode_free has left no       *)
(* dangling links: jumps and closures lead into the list, whatever they    *)
(* lead to knows them, and no instruction has a referrer that has been     *)
(* freed or is no jump to it.  Dead code and tail calls rest on this.      *)
LinksExact ==
    LET live == Range(program) IN
    /\ \A i \in live : IsBranch(i) => branch[i] \in live /\ i \in referrers[branch[i]]
    /\ \A i \in live : \A r \in referrers[i] :
          r > 0 => r \in live /\ IsBranch(r) /\ branch[r] = i
    /\ \A k \in DOMAIN entry : entry[k] \in live /\ k \in referrers[entry[k]]

(* No step of an optimization changes what the program does: each          *)
(* instruction that is left does what it did, or what it came to, and      *)
(* goes on to where it went; the program and each closure begin where they *)
(* began, though the closure perhaps at another of its bodies.             *)
StepKeepsMeaning ==
    \E F \in {ListFlow}, G \in {ListFlow'} :
        /\ DOMAIN G \subseteq DOMAIN F /\ \A i \in DOMAIN G : DoesTheSame(F, G, i)
        /\ Leads(F, G, Head(program), Head(program'))
        /\ \A k \in DOMAIN entry : \A j \in BodiesOf(k)' : \E i \in BodiesOf(k) : Leads(F, G, i, j)

MeaningIsKept == [][StepKeepsMeaning]_vars

(* The bytes that iprogram_gen writes are the list, as vm_run reads them,  *)
(* from the first byte on: at the label of an instruction is that          *)
(* instruction and no other, what vm_run skips leads to the next one,      *)
(* jumps and closures lead to labels, no NOP is left, which vm_run does    *)
(* not know, and the last instruction never goes on.                       *)
BytecodeIsTheList ==
    pass = "done" =>
        /\ label[Head(program)] = 0
        /\ \A i \in Range(program) :
              /\ label[i] \in DOMAIN memory
              /\ memory[label[i]].op = opcode[i] /\ opcode[i] # "NOP"
              /\ memory[label[i]].arg = Stored(operand[i])
              /\ IsBranch(i) => memory[label[i]].target = label[branch[i]]
              /\ ~NeverGoesOn(i) => /\ NextOf(i) # None
                                    /\ label[NextOf(i)] = label[i] + 1 + VmSkip(opcode[i])
============================================================================
