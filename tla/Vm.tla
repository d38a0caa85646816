-------------------------------- MODULE Vm --------------------------------
(***************************************************************************)
(* Calls, tail calls and returns of one virtual machine (vm.c), with the   *)
(* layout of its activation stack (activation.c).                          *)
(*                                                                         *)
(* Routines are nested as the program text nests them.  What a routine     *)
(* does with its values is open: any instruction that the code generator   *)
(* may write into a routine may come next, so the program counter is only  *)
(* the routine it is in.  Memory is counted in values: a record takes      *)
(* HeaderSize and its slots.  An address on the activation stack is its    *)
(* distance from the bottom; the records made on the heap are -1, -2, ...  *)
(*                                                                         *)
(* The reference is a machine in which every call has a new scope and a    *)
(* closure keeps the scope it was made in.  The scopes are the numbers of  *)
(* the calls; frames, lex, holds and sound say what that machine would do. *)
(* Once a scope has been lost (sound is FALSE) calls and returns are still *)
(* followed, but accesses to variables only where they stay in a record.   *)
(***************************************************************************)
EXTENDS Sequences, Integers

CONSTANTS Routine,      \* the program and its routines
          Main,         \* the program
          parent,       \* the routine in which the closure of a routine is written
          arity, locals,
          MaxSlots,     \* no routine has more variables
          Data,         \* values that are not closures
          Null,
          Foreign,      \* a record of another process
          VstackBound,  \* bound: values on the value stack
          CstackBound,  \* bound: calls that have not returned
          AstackBound,  \* bound: size of the activation stack
          CallBound     \* bound: calls in all

HeaderSize == 2         \* sizeof(struct activation), in values

ASSUME RoutineAssumption ==
    /\ Main \in Routine
    /\ parent \in [Routine \ {Main} -> Routine]
    /\ arity \in [Routine -> Nat] /\ locals \in [Routine -> Nat]
    /\ arity[Main] = 0
    /\ MaxSlots \in Nat /\ \A k \in Routine : arity[k] + locals[k] <= MaxSlots
ASSUME NullAssumption == Null \notin Int \cup {Foreign} /\ Foreign \notin Int
ASSUME BoundAssumption ==
    VstackBound \in Nat /\ CstackBound \in Nat /\ AstackBound \in Nat /\ CallBound \in Nat \ {0}

VARIABLES
    code,                           \* the routine that pc is in
    vstack, cstack, astack_ptr, current_ar,
    a_count,                        \* how many records the heap holds
    size, caller, enclosing, slot,  \* the records, by address
    closure_ar,                     \* the field ar of the closure of a routine
    returned,                       \* vm_run has come to its end
    frames,     \* the calls that have not returned, with what belongs to them
    lex,        \* scope -> the scope around it
    holds,      \* address -> the scope whose variables are in the record
    sound       \* no closure was called outside its scope, no record was
                \*   reused that something else belongs to, and no closure
                \*   was made in a record on the activation stack

machine == <<vstack, cstack, astack_ptr, current_ar, returned>>
records == <<a_count, size, caller, enclosing, slot>>
history == <<frames, lex, holds, sound>>
vars    == <<code, machine, records, closure_ar, history>>

Slots(k)     == arity[k] + locals[k]
ContainsClosures(k) == \E j \in DOMAIN parent : parent[j] = k     \* cc > 0
Address      == -CallBound .. AstackBound
OnStack(a)   == a >= 0                                 \* AR_ADMIN_ON_STACK
HeapRecord   == -a_count .. -1
Scope        == 1 .. Len(lex)
InUse        == HeapRecord \cup {frames[i].ar : i \in DOMAIN frames}

(* A closure value, and the scope it was made in. *)
Closure(k, s) == <<k, s>>
IsClosure(v)  == v \in (DOMAIN parent) \X Scope

Top        == vstack[Len(vstack)]
Pop(n)     == SubSeq(vstack, 1, Len(vstack) - n)
Last(n)    == SubSeq(vstack, Len(vstack) - n + 1, Len(vstack))
Push(s, v) == vstack' = Append(s, v)
ThisFrame  == frames[Len(frames)]

Running == ~returned

(***************************************************************************)
(* Values and variables                                                    *)
(***************************************************************************)
OnlyValues == UNCHANGED <<code, cstack, astack_ptr, current_ar, returned, records,
                          closure_ar, history>>

(* PUSH_VALUE of anything but a closure, PUSH_ZERO, PUSH_ONE, PUSH_TWO *)
PushValue(d) ==
    /\ Running
    /\ Len(vstack) < VstackBound
    /\ Push(vstack, d)
    /\ OnlyValues

(* A builtin or an extension: its n arguments lie in a record on top of the *)
(* activation stack while it runs.  Without a result it is also JZ.         *)
Builtin(n, result) ==
    /\ Running
    /\ n <= Len(vstack)
    /\ astack_ptr + HeaderSize + n <= AstackBound
    /\ vstack' = Pop(n) \o result
    /\ Len(vstack') <= VstackBound
    /\ OnlyValues

(* The record that activation_get_value comes to.  Bound: two levels up. *)
RecordUp(u) ==
    CASE u = 0 -> current_ar
      [] u = 1 -> enclosing[current_ar]
      [] u = 2 -> LET e == enclosing[current_ar] IN IF e \in Address THEN enclosing[e] ELSE e

(* The routine that a variable with that upcount belongs to. *)
RoutineUp(u) ==
    CASE u = 0 -> code
      [] u = 1 -> parent[code]
      [] u = 2 -> parent[parent[code]]

Level(k) == IF k = Main THEN 0 ELSE IF parent[k] = Main THEN 1 ELSE 2

IsVariable(a, i) == a \in Address /\ i \in 1 .. size[a]

(* PUSH_LOCAL; the parser lets no program mention a variable before it has *)
(* been given a value.                                                     *)
PushLocal(u, i) ==
    /\ Running
    /\ u <= Level(code) /\ i <= Slots(RoutineUp(u))
    /\ Len(vstack) < VstackBound
    /\ IsVariable(RecordUp(u), i)
    /\ slot[RecordUp(u)][i] # Null
    /\ Push(vstack, slot[RecordUp(u)][i])
    /\ OnlyValues

OnlyVariables == UNCHANGED <<code, cstack, astack_ptr, current_ar, returned, a_count,
                             size, caller, enclosing, closure_ar, history>>

(* POP_LOCAL *)
PopLocal(u, i) ==
    /\ Running
    /\ vstack # <<>>
    /\ u <= Level(code) /\ i <= Slots(RoutineUp(u))
    /\ IsVariable(RecordUp(u), i)
    /\ slot' = [slot EXCEPT ![RecordUp(u)][i] = Top]
    /\ vstack' = Pop(1)
    /\ OnlyVariables

(* INIT_LOCAL *)
InitLocal(i) ==
    /\ Running
    /\ vstack # <<>>
    /\ i <= Slots(code)
    /\ IsVariable(current_ar, i)
    /\ slot' = [slot EXCEPT ![current_ar][i] = Top]
    /\ vstack' = Pop(1)
    /\ OnlyVariables

(* PUSH_VALUE of the closure of routine k, and SET_ACTIVATION.  The current *)
(* record is on the activation stack when GOTO has kept it for a routine   *)
(* with closures; a return then gives the scope of the closure back.       *)
PushClosure(k) ==
    /\ Running
    /\ Len(vstack) < VstackBound
    /\ parent[k] = code
    /\ Push(vstack, Closure(k, ThisFrame.scope))
    /\ closure_ar' = [closure_ar EXCEPT ![k] = current_ar]
    /\ sound' = (sound /\ ~OnStack(current_ar))
    /\ UNCHANGED <<code, cstack, astack_ptr, current_ar, returned, records, frames, lex,
                   holds>>

(* Another process evaluates the same expression during its slice. *)
ForeignSetActivation(k) ==
    /\ Running
    /\ parent[k] # Main
    /\ closure_ar[k] # Null
    /\ closure_ar' = [closure_ar EXCEPT ![k] = Foreign]
    /\ UNCHANGED <<code, machine, records, history>>

(***************************************************************************)
(* Calls                                                                   *)
(***************************************************************************)

(* A closure on top of its arguments. *)
CanApply == /\ Running
            /\ vstack # <<>>
            /\ IsClosure(Top)
            /\ Len(vstack) > arity[Top[1]]
            /\ Len(lex) < CallBound

Arguments(k) == SubSeq(vstack, Len(vstack) - arity[k], Len(vstack) - 1)

(* The closure value still leads to the scope it was made in. *)
InItsScope(k, s) == closure_ar[k] \in DOMAIN holds /\ holds[closure_ar[k]] = s

NewRecordBroken(a, k, c) ==   \* mutant: the scope is the record of the caller
    /\ size' = [size EXCEPT ![a] = Slots(k)]
    /\ caller' = [caller EXCEPT ![a] = c]
    /\ enclosing' = [enclosing EXCEPT ![a] = c]
    /\ slot' = [slot EXCEPT ![a] =
                   [i \in 1 .. Slots(k) |-> IF i <= arity[k] THEN Arguments(k)[i] ELSE Null]]
    /\ current_ar' = a

(* activation_new_on_heap or activation_new_on_stack, for routine k, when  *)
(* the activation stack reaches to top; then the arguments.                *)
NewRecord(a, k, c) ==
    /\ size' = [size EXCEPT ![a] = Slots(k)]
    /\ caller' = [caller EXCEPT ![a] = c]
    /\ enclosing' = [enclosing EXCEPT ![a] = closure_ar[k]]
    /\ slot' = [slot EXCEPT ![a] =
                   [i \in 1 .. Slots(k) |-> IF i <= arity[k] THEN Arguments(k)[i] ELSE Null]]
    /\ current_ar' = a

OnHeapOrStackBroken(a, k, top) ==   \* mutant: the new record is left above the top
    IF ContainsClosures(k)
    THEN /\ a = -(a_count + 1)
         /\ a_count' = a_count + 1
         /\ astack_ptr' = top
    ELSE /\ a = top
         /\ astack_ptr' = top
         /\ a_count' = a_count

OnHeapOrStack(a, k, top) ==
    IF ContainsClosures(k)
    THEN /\ a = -(a_count + 1)
         /\ a_count' = a_count + 1
         /\ astack_ptr' = top
    ELSE /\ a = top
         /\ astack_ptr' = top + HeaderSize + Slots(k)
         /\ astack_ptr' <= AstackBound
         /\ a_count' = a_count

Frame(k, a, s, top) == [code |-> k, ar |-> a, scope |-> s, top |-> top]

(* The call of Closure(k, s) that the reference machine makes. *)
Enter(below, k, s, a) ==
    /\ lex' = Append(lex, s)
    /\ holds' = [holds EXCEPT ![a] = Len(lex) + 1]
    /\ frames' = Append(below, Frame(k, a, Len(lex) + 1, astack_ptr'))

(* CALL *)
Call ==
    LET k == Top[1]
        s == Top[2] IN
    /\ CanApply
    /\ Len(cstack) < CstackBound
    /\ \E a \in Address :
          /\ OnHeapOrStack(a, k, astack_ptr)
          /\ NewRecord(a, k, current_ar)
          /\ Enter(frames, k, s, a)
    /\ vstack' = Pop(arity[k] + 1)
    /\ cstack' = Append(cstack, code)
    /\ code' = k
    /\ sound' = (sound /\ InItsScope(k, s))
    /\ UNCHANGED <<closure_ar, returned>>

TopWithoutBroken(a) ==   \* mutant: AR_ADMIN_ON_STACK is not looked at
    astack_ptr - (HeaderSize + size[a])

TopWithoutKept(a) ==   \* mutant: the record stays on the stack
    astack_ptr

(* What is left of the activation stack without the current record. *)
TopWithout(a) == IF OnStack(a) THEN astack_ptr - (HeaderSize + size[a]) ELSE astack_ptr

Callers == SubSeq(frames, 1, Len(frames) - 1)

GotoNewRecordBroken ==   \* mutant: the record that is given up becomes the caller
    LET k == Top[1]
        s == Top[2] IN
    /\ CanApply
    /\ size[current_ar] < Slots(k)
    /\ \E a \in Address :
          /\ OnHeapOrStack(a, k, TopWithout(current_ar))
          /\ NewRecord(a, k, current_ar)
          /\ Enter(Callers, k, s, a)
    /\ vstack' = Pop(arity[k] + 1)
    /\ code' = k
    /\ sound' = (sound /\ InItsScope(k, s))
    /\ UNCHANGED <<cstack, closure_ar, returned>>

(* GOTO, when the current record has too few slots. *)
GotoNewRecord ==
    LET k == Top[1]
        s == Top[2] IN
    /\ CanApply
    /\ size[current_ar] < Slots(k)
    /\ \E a \in Address :
          /\ OnHeapOrStack(a, k, TopWithout(current_ar))
          /\ NewRecord(a, k, caller[current_ar])
          /\ Enter(Callers, k, s, a)
    /\ vstack' = Pop(arity[k] + 1)
    /\ code' = k
    /\ sound' = (sound /\ InItsScope(k, s))
    /\ UNCHANGED <<cstack, closure_ar, returned>>

(* A closure or another record has the record as its scope. *)
IsScope(a) == \/ \E k \in DOMAIN closure_ar : closure_ar[k] = a
              \/ \E b \in InUse : enclosing[b] = a

(* The callee may run in the record of its caller: it belongs to the same  *)
(* scope, and nothing belongs to the scope that is in it now.              *)
MayReuse(a, k) == enclosing[a] = closure_ar[k] /\ ~IsScope(a)

(* GOTO, when the current record is large enough: the callee gets it as it *)
(* is, with the scope around it and the variables it has no argument for,  *)
(* on the heap or on the activation stack, and whether or not closures are *)
(* made in the callee.                                                     *)
GotoSameRecord ==
    LET k == Top[1]
        s == Top[2]
        a == current_ar IN
    /\ CanApply
    /\ size[a] >= Slots(k)
    /\ slot' = [slot EXCEPT ![a] =
                   [i \in 1 .. size[a] |-> IF i <= arity[k] THEN Arguments(k)[i] ELSE @[i]]]
    /\ UNCHANGED <<cstack, astack_ptr, current_ar, returned, a_count, size, caller,
                   enclosing, closure_ar>>
    /\ Enter(Callers, k, s, a)
    /\ vstack' = Pop(arity[k] + 1)
    /\ code' = k
    /\ sound' = (sound /\ InItsScope(k, s) /\ MayReuse(a, k))

(* RET *)
Ret ==
    LET a == current_ar IN
    /\ Running
    /\ IF caller[a] = Null
       THEN /\ returned' = TRUE
            /\ UNCHANGED <<code, cstack, astack_ptr, current_ar, frames>>
       ELSE /\ code' = cstack[Len(cstack)]
            /\ cstack' = SubSeq(cstack, 1, Len(cstack) - 1)
            /\ astack_ptr' = TopWithout(a)
            /\ current_ar' = caller[a]
            /\ frames' = Callers
            /\ UNCHANGED returned
    /\ UNCHANGED <<vstack, records, closure_ar, lex, holds, sound>>

(* HALT *)
Halt ==
    /\ Running
    /\ code = Main
    /\ returned' = TRUE
    /\ UNCHANGED <<code, vstack, cstack, astack_ptr, current_ar, records, closure_ar, history>>

(***************************************************************************)
(* The specification                                                       *)
(***************************************************************************)

(* main has put the record of the globals on the heap. *)
Init ==
    /\ code = Main
    /\ vstack = <<>> /\ cstack = <<>>
    /\ astack_ptr = 0
    /\ current_ar = -1
    /\ returned = FALSE
    /\ a_count = 1
    /\ size = [a \in Address |-> IF a = -1 THEN Slots(Main) ELSE 0]
    /\ caller = [a \in Address |-> Null]
    /\ enclosing = [a \in Address |-> Null]
    /\ slot = [a \in Address |-> IF a = -1 THEN [i \in 1 .. Slots(Main) |-> Null] ELSE <<>>]
    /\ closure_ar = [k \in Routine \ {Main} |-> Null]
    /\ frames = <<Frame(Main, -1, 1, 0)>>
    /\ lex = <<0>>
    /\ holds = [a \in Address |-> IF a = -1 THEN 1 ELSE 0]
    /\ sound = TRUE

Next ==
    \/ \E d \in Data : PushValue(d)
    \/ \E n \in 0 .. 2, d \in Data : Builtin(n, <<d>>)
    \/ \E n \in 1 .. 2 : Builtin(n, <<>>)
    \/ \E u \in 0 .. 2, i \in 1 .. MaxSlots : PushLocal(u, i)
    \/ \E u \in 0 .. 2, i \in 1 .. MaxSlots : PopLocal(u, i)
    \/ \E i \in 1 .. MaxSlots : InitLocal(i)
    \/ \E k \in Routine \ {Main} : PushClosure(k)
    \/ \E k \in Routine \ {Main} : ForeignSetActivation(k)
    \/ Call
    \/ GotoNewRecord
    \/ GotoSameRecord
    \/ Ret
    \/ Halt

Spec == Init /\ [][Next]_vars

(***************************************************************************)
(* Properties                                                              *)
(***************************************************************************)

Value == Data \cup (DOMAIN parent) \X Nat
Record == Address \cup {Null, Foreign}

(* The type invariant of the variables of the machine. *)
TypeOK ==
    /\ code \in Routine
    /\ vstack \in Seq(Value) /\ cstack \in Seq(Routine)
    /\ astack_ptr \in 0 .. AstackBound
    /\ current_ar \in Address
    /\ a_count \in 1 .. CallBound
    /\ size \in [Address -> Nat]
    /\ caller \in [Address -> Record] /\ enclosing \in [Address -> Record]
    /\ DOMAIN slot = Address
    /\ \A a \in Address : slot[a] \in [1 .. size[a] -> Value \cup {Null}]
    /\ closure_ar \in [DOMAIN parent -> Record]
    /\ returned \in BOOLEAN

FrameTop(i) == IF i = 0 THEN 0 ELSE frames[i].top

(* The frame i of the call chain: where its record lies and what it goes   *)
(* back to.                                                                *)
Linked(i) ==
    LET f == frames[i] IN
    /\ caller[f.ar] = IF i = 1 THEN Null ELSE frames[i - 1].ar
    /\ i < Len(frames) => cstack[i] = f.code
    /\ IF OnStack(f.ar)
       THEN f.ar = FrameTop(i - 1) /\ f.top = f.ar + HeaderSize + size[f.ar]
       ELSE f.ar \in HeapRecord /\ f.top = FrameTop(i - 1)

(* The caller links, the return addresses and the layout of the activation *)
(* stack tell one and the same chain of calls: a return finds the routine, *)
(* the record and the top of the stack that its call left.  The calls that *)
(* a tail call has replaced leave nothing behind.                          *)
CallChain ==
    LET n == Len(frames) IN
    /\ n >= 1
    /\ Len(cstack) = n - 1
    /\ current_ar = frames[n].ar /\ code = frames[n].code
    /\ astack_ptr = frames[n].top
    /\ \A i \in 1 .. n : Linked(i)

(* However many calls have been made, the activation stack is no higher    *)
(* than the calls that have not returned allow: a loop of tail calls runs  *)
(* in constant space.                                                      *)
StackIsBoundedByDepth == astack_ptr <= (Len(cstack) + 1) * (HeaderSize + MaxSlots)

(* No two calls share a record, and no call has taken the record of one    *)
(* that has not returned.                                                  *)
EachCallHasItsRecord ==
    \A i \in DOMAIN frames :
        /\ holds[frames[i].ar] = frames[i].scope
        /\ \A j \in DOMAIN frames : frames[i].ar = frames[j].ar => i = j

(* The links that PUSH_LOCAL and POP_LOCAL follow are those of the program *)
(* text.                                                                   *)
Lexical(a) ==
    LET s == lex[holds[a]]
        e == enclosing[a] IN
    IF s = 0 THEN e = Null
             ELSE e \in HeapRecord /\ holds[e] = s

(* As long as no closure is called outside the scope it was made in, no    *)
(* record is reused that something else belongs to, and no closure is made *)
(* in a record on the activation stack, a variable of an outer routine is  *)
(* found in the record of the call that the closure was made in, and that  *)
(* record is on the heap, where no return gives it back.                   *)
LexicalScope == sound => \A a \in InUse : Lexical(a)

(* activation.h says of the link enclosing: the lexically enclosing        *)
(* activation record.                                                      *)
EnclosingIsLexical == Lexical(current_ar)
=============================================================================
