-------------------------------- MODULE Gc --------------------------------
(***************************************************************************)
(* The memory of running programs: activation records (activation.c),     *)
(* structured values (value.c), closures, and the mark-and-sweep collector *)
(* (gc.c), driven by the instructions of vm.c that allocate, store and     *)
(* drop references.                                                        *)
(*                                                                         *)
(* A routine has a number, 0 is the main program.  Of the slots of a       *)
(* record the first is modelled, for the argument of its routine or, if it *)
(* takes none, for a local that starts as null; the others only count in   *)
(* the size of the record.  A routine with another one in its body         *)
(* contains closures (cc > 0) and is called with a record from the heap,   *)
(* the others with one from the activation stack of the process's vm,      *)
(* where the frame at a depth is an address, reused by the next call at    *)
(* that depth.                                                             *)
(***************************************************************************)
EXTENDS Sequences, Naturals

CONSTANTS Proc,         \* processes
          HeapAr,       \* addresses malloc may give to an activation record
          Sv,           \* addresses malloc may give to a structured value
          Null,
          NoArStack,    \* NO_AR_STACK: every record is on the heap
          Arity,        \* arguments of every routine
          Routines,     \* the routines of the program are 1 .. Routines
          Parent,       \* the routine in whose body a routine is written
          Slots,        \* arity + locals of a routine; of 0, the size of the
                        \*   record of the globals
          VstackBound,  \* bound: values on one value stack
          Frame,        \* the addresses of the frames of each activation stack,
                        \*   bottom to top; bound: how many there are
          MailboxBound, \* bound: messages in one mailbox; 0: no Send, no Recv
          Containers,   \* kinds of containers the program makes
          Folded        \* lists that the parser has computed from constants

ASSUME BuildAssumption == NoArStack \in BOOLEAN
ASSUME ArityAssumption == Arity \in {0, 1}
ASSUME RoutinesAssumption ==
    /\ Routines \in Nat \ {0}
    /\ Parent \in [1 .. Routines -> 0 .. Routines]
    /\ Slots \in [0 .. Routines -> Nat]
ASSUME BoundsAssumption == VstackBound \in Nat /\ MailboxBound \in Nat
ASSUME KindsAssumption == Containers \subseteq {"list", "dict"}
ASSUME FoldedAssumption == Folded \subseteq Sv

ASSUME FrameAssumption ==
    /\ Frame \in [Proc -> Seq(UNION {{Frame[p][d] : d \in DOMAIN Frame[p]} : p \in Proc})]
    /\ \A p, q \in Proc : \A d \in DOMAIN Frame[p], e \in DOMAIN Frame[q] :
          Frame[p][d] = Frame[q][e] => p = q /\ d = e

Closure == 1 .. Routines       \* one permanent value per closure expression
StackAr == UNION {{Frame[p][d] : d \in DOMAIN Frame[p]} : p \in Proc}
Ar      == HeapAr \cup StackAr
Node    == Ar \cup Sv \cup Closure

ASSUME AddressAssumption ==    \* no two things have one address
    /\ HeapAr \cap StackAr = {} /\ Ar \cap Sv = {}
    /\ (Ar \cup Sv) \cap Closure = {} /\ Null \notin Node

Value   == Sv \cup Closure \cup {Null}    \* Null: any value without structure

VARIABLES
    a_head, sv_head,               \* what the two lists of gc.c hold
    marked,                        \* records with AR_ADMIN_MARKED
    caller, enclosing, slot, size, \* the fields of a record
    code,                          \* the routine that runs with it
    kind, elem,                    \* the type and the content of a value
    closure_ar,                    \* the field ar of a closure
    state,                         \* of a process: "none", "awake", "asleep"
    current_ar, vstack, astack,    \* the vm of a process
    mailbox,
    unset,                         \* SET_ACTIVATION is its next instruction
    undefined                      \* the collector followed a freed pointer

records == <<a_head, caller, enclosing, slot, size, code>>
values  == <<sv_head, kind, elem>>
procs   == <<state, mailbox>>
vars    == <<records, values, marked, closure_ar, procs, current_ar, vstack,
             astack, unset, undefined>>

(* The process p executes its next instruction. *)
Executes(p) == state[p] = "awake" /\ ~unset[p] /\ ~undefined

Top(p)    == vstack[p][Len(vstack[p])]
Pop(s, n) == SubSeq(s, 1, Len(s) - n)
HasTop(p) == vstack[p] # <<>>

PushTo(p, s, v) == vstack' = [vstack EXCEPT ![p] = Append(s, v)]

(***************************************************************************)
(* Instructions on values                                                  *)
(***************************************************************************)

(* s_value_new: a value of kind k with content x takes a free address. *)
NewValue(v, k, x) ==
    /\ v \in Sv \ sv_head
    /\ sv_head' = sv_head \cup {v}
    /\ kind' = [kind EXCEPT ![v] = k]
    /\ elem' = [elem EXCEPT ![v] = x]

OnlyStack == UNCHANGED <<records, values, marked, closure_ar, procs, current_ar,
                         astack, unset, undefined>>

(* A builtin that makes a string. *)
PushString(p, v) ==
    /\ Executes(p)
    /\ Len(vstack[p]) < VstackBound
    /\ NewValue(v, "string", Null)
    /\ PushTo(p, vstack[p], v)
    /\ UNCHANGED <<records, marked, closure_ar, procs, current_ar, astack, unset,
                   undefined>>

(* PUSH_VALUE of a list that ast_new_builtin has computed: it is written   *)
(* into the program but, unlike a literal, not made permanent.             *)
PushFolded(p, v) ==
    /\ Executes(p)
    /\ v \in Folded
    /\ Len(vstack[p]) < VstackBound
    /\ PushTo(p, vstack[p], v)
    /\ OnlyStack

(* builtin_list or builtin_dict puts the top of the stack in a container. *)
Wrap(p, v, k) ==
    /\ Executes(p)
    /\ HasTop(p)
    /\ NewValue(v, k, Top(p))
    /\ PushTo(p, Pop(vstack[p], 1), v)
    /\ UNCHANGED <<records, marked, closure_ar, procs, current_ar, astack, unset,
                   undefined>>

(* builtin_fetch takes the content of a container, or a variable out of    *)
(* the scope of a closure.                                                 *)
Fetch(p) ==
    /\ Executes(p)
    /\ HasTop(p)
    /\ \/ /\ Top(p) \in Sv /\ kind[Top(p)] \in Containers
          /\ PushTo(p, Pop(vstack[p], 1), elem[Top(p)])
       \/ /\ Top(p) \in Closure /\ closure_ar[Top(p)] # Null
          /\ PushTo(p, Pop(vstack[p], 1), slot[closure_ar[Top(p)]])
    /\ OnlyStack

(* builtin_store: a container, and on top of it what goes into it.  The    *)
(* container is changed in place, so that it may come to hold itself;      *)
(* Store has no result.                                                    *)
Store(p) ==
    LET d == vstack[p][Len(vstack[p]) - 1] IN
    /\ Executes(p)
    /\ Len(vstack[p]) > 1
    /\ d \in Sv /\ kind[d] \in Containers
    /\ elem' = [elem EXCEPT ![d] = Top(p)]
    /\ vstack' = [vstack EXCEPT ![p] = Pop(@, 2)]
    /\ UNCHANGED <<sv_head, kind, records, marked, closure_ar, procs, current_ar,
                   astack, unset, undefined>>

(* The record that a variable is in: activation_get_value walks upcount   *)
(* times from the current record to the enclosing one.                    *)
Scope(p) == {current_ar[p], enclosing[current_ar[p]]} \ {Null}

(* PUSH_LOCAL *)
PushLocal(p) ==
    /\ Executes(p)
    /\ Len(vstack[p]) < VstackBound
    /\ \E a \in Scope(p) : PushTo(p, vstack[p], slot[a])
    /\ OnlyStack

(* POP_LOCAL *)
PopLocal(p) ==
    /\ Executes(p)
    /\ HasTop(p)
    /\ \E a \in Scope(p) : slot' = [slot EXCEPT ![a] = Top(p)]
    /\ vstack' = [vstack EXCEPT ![p] = Pop(@, 1)]
    /\ UNCHANGED <<a_head, caller, enclosing, size, code, values, marked, closure_ar,
                   procs, current_ar, astack, unset, undefined>>

(***************************************************************************)
(* Instructions on closures and activation records                         *)
(***************************************************************************)

(* PUSH_VALUE of a closure written in the current routine; the compiler    *)
(* lets SET_ACTIVATION follow.                                             *)
PushClosure(p, k) ==
    /\ Executes(p)
    /\ Len(vstack[p]) < VstackBound
    /\ Parent[k] = code[current_ar[p]]
    /\ PushTo(p, vstack[p], k)
    /\ unset' = [unset EXCEPT ![p] = TRUE]
    /\ UNCHANGED <<records, values, marked, closure_ar, procs, current_ar, astack,
                   undefined>>

(* SET_ACTIVATION *)
SetActivation(p) ==
    /\ state[p] = "awake" /\ unset[p] /\ ~undefined
    /\ closure_ar' = [closure_ar EXCEPT ![Top(p)] = current_ar[p]]
    /\ unset' = [unset EXCEPT ![p] = FALSE]
    /\ UNCHANGED <<records, values, marked, procs, current_ar, vstack, astack,
                   undefined>>

(* What every new record gets; its admin flags are reset. *)
FillRecord(a, c, k, x) ==
    /\ caller' = [caller EXCEPT ![a] = c]
    /\ enclosing' = [enclosing EXCEPT ![a] = closure_ar[k]]
    /\ slot' = [slot EXCEPT ![a] = x]
    /\ size' = [size EXCEPT ![a] = Slots[k]]
    /\ code' = [code EXCEPT ![a] = k]
    /\ marked' = marked \ {a}

(* activation_new_on_heap *)
NewOnHeap(a, c, k, x) ==
    /\ a \in HeapAr \ a_head
    /\ a_head' = a_head \cup {a}
    /\ FillRecord(a, c, k, x)

(* A closure with cc > 0. *)
OnHeap(k) == NoArStack \/ \E j \in Closure : Parent[j] = k

(* CALL and GOTO: the closure is on top of its argument. *)
MayCall(p) == Executes(p) /\ Len(vstack[p]) > Arity /\ Top(p) \in Closure

Argument(p) == IF Arity = 0 THEN Null ELSE vstack[p][Len(vstack[p]) - 1]

CallOnHeap(p, a) ==
    /\ MayCall(p)
    /\ OnHeap(Top(p))
    /\ NewOnHeap(a, current_ar[p], Top(p), Argument(p))
    /\ current_ar' = [current_ar EXCEPT ![p] = a]
    /\ vstack' = [vstack EXCEPT ![p] = Pop(@, Arity + 1)]
    /\ UNCHANGED <<values, closure_ar, procs, astack, unset, undefined>>

CallOnStack(p) ==
    LET d == astack[p] + 1 IN
    /\ MayCall(p)
    /\ ~OnHeap(Top(p))
    /\ d \in DOMAIN Frame[p]
    /\ FillRecord(Frame[p][d], current_ar[p], Top(p), Argument(p))
    /\ current_ar' = [current_ar EXCEPT ![p] = Frame[p][d]]
    /\ astack' = [astack EXCEPT ![p] = @ + 1]
    /\ vstack' = [vstack EXCEPT ![p] = Pop(@, Arity + 1)]
    /\ UNCHANGED <<a_head, values, closure_ar, procs, unset, undefined>>

(* activation_free_from_stack, for a record that RET or GOTO leaves. *)
FramesAfterKept(p, a) == astack   \* mutant: the frame is not popped

FramesAfterTwice(p, a) ==   \* mutant: the frame of the caller goes too
    IF a \in StackAr THEN [astack EXCEPT ![p] = @ - 2] ELSE astack

FramesAfter(p, a) == IF a \in StackAr THEN [astack EXCEPT ![p] = @ - 1] ELSE astack

(* GOTO: the current record is large enough for the routine and goes on    *)
(* with it, whether or not that routine contains closures.                 *)
Fits(p) == size[current_ar[p]] >= Slots[Top(p)]

GotoSameRecord(p) ==
    LET a == current_ar[p] IN
    /\ MayCall(p)
    /\ Fits(p)
    /\ slot' = IF Arity = 0 THEN slot ELSE [slot EXCEPT ![a] = Argument(p)]
    /\ code' = [code EXCEPT ![a] = Top(p)]
    /\ vstack' = [vstack EXCEPT ![p] = Pop(@, Arity + 1)]
    /\ UNCHANGED <<a_head, caller, enclosing, size, values, marked, closure_ar, procs,
                   current_ar, astack, unset, undefined>>

(* GOTO: the current record is left, and a new one takes its place between *)
(* the routine and the caller.                                             *)
GotoOnHeap(p, a) ==
    /\ MayCall(p)
    /\ ~Fits(p)
    /\ OnHeap(Top(p))
    /\ NewOnHeap(a, caller[current_ar[p]], Top(p), Argument(p))
    /\ current_ar' = [current_ar EXCEPT ![p] = a]
    /\ astack' = FramesAfter(p, current_ar[p])
    /\ vstack' = [vstack EXCEPT ![p] = Pop(@, Arity + 1)]
    /\ UNCHANGED <<values, closure_ar, procs, unset, undefined>>

GotoOnStackCalls(p) ==   \* mutant: the current record is not left
    LET d == astack[p] + 1 IN
    /\ MayCall(p)
    /\ ~Fits(p)
    /\ ~OnHeap(Top(p))
    /\ d \in DOMAIN Frame[p]
    /\ FillRecord(Frame[p][d], caller[current_ar[p]], Top(p), Argument(p))
    /\ current_ar' = [current_ar EXCEPT ![p] = Frame[p][d]]
    /\ astack' = [astack EXCEPT ![p] = d]
    /\ vstack' = [vstack EXCEPT ![p] = Pop(@, Arity + 1)]
    /\ UNCHANGED <<a_head, values, closure_ar, procs, unset, undefined>>

GotoOnStack(p) ==
    LET popped == FramesAfter(p, current_ar[p])
        d      == popped[p] + 1
    IN
    /\ MayCall(p)
    /\ ~Fits(p)
    /\ ~OnHeap(Top(p))
    /\ d \in DOMAIN Frame[p]
    /\ FillRecord(Frame[p][d], caller[current_ar[p]], Top(p), Argument(p))
    /\ current_ar' = [current_ar EXCEPT ![p] = Frame[p][d]]
    /\ astack' = [popped EXCEPT ![p] = d]
    /\ vstack' = [vstack EXCEPT ![p] = Pop(@, Arity + 1)]
    /\ UNCHANGED <<a_head, values, closure_ar, procs, unset, undefined>>

(* process_free: nothing leads to the vm or to the messages any more. *)
Ends(p) ==
    /\ state' = [state EXCEPT ![p] = "none"]
    /\ mailbox' = [mailbox EXCEPT ![p] = <<>>]
    /\ vstack' = [vstack EXCEPT ![p] = <<>>]
    /\ astack' = [astack EXCEPT ![p] = 0]

(* RET, and with the last record gone VM_RETURNED. *)
Ret(p) ==
    LET a == current_ar[p] IN
    /\ Executes(p)
    /\ current_ar' = [current_ar EXCEPT ![p] = caller[a]]
    /\ IF caller[a] = Null
       THEN Ends(p)
       ELSE /\ astack' = FramesAfter(p, a)
            /\ UNCHANGED <<procs, vstack>>
    /\ UNCHANGED <<records, values, marked, closure_ar, unset, undefined>>

(* HALT in the main program: VM_TERMINATED. *)
Halt(p) ==
    /\ Executes(p)
    /\ code[current_ar[p]] = 0
    /\ Ends(p)
    /\ current_ar' = [current_ar EXCEPT ![p] = Null]
    /\ UNCHANGED <<records, values, marked, closure_ar, unset, undefined>>

(***************************************************************************)
(* Processes                                                               *)
(***************************************************************************)

(* process_spawn: a vm for q, with a record on the heap that has no       *)
(* caller; its slot holds whatever malloc found, here nothing.            *)
Spawn(p, q, a) ==
    /\ Executes(p)
    /\ HasTop(p) /\ Top(p) \in Closure
    /\ state[q] = "none"
    /\ NewOnHeap(a, Null, Top(p), Null)
    /\ state' = [state EXCEPT ![q] = "awake"]
    /\ mailbox' = [mailbox EXCEPT ![q] = <<>>]
    /\ current_ar' = [current_ar EXCEPT ![q] = a]
    /\ astack' = [astack EXCEPT ![q] = 0]
    /\ vstack' = [vstack EXCEPT ![p] = Pop(@, 1), ![q] = <<>>]
    /\ UNCHANGED <<values, closure_ar, unset, undefined>>

(* process_send *)
Send(p, q) ==
    /\ Executes(p)
    /\ HasTop(p)
    /\ state[q] # "none"
    /\ Len(mailbox[q]) < MailboxBound
    /\ mailbox' = [mailbox EXCEPT ![q] = <<Top(p)>> \o @]
    /\ state' = [state EXCEPT ![q] = "awake"]
    /\ vstack' = [vstack EXCEPT ![p] = Pop(@, 1)]
    /\ UNCHANGED <<records, values, marked, closure_ar, current_ar, astack, unset,
                   undefined>>

(* RECV: the newest message, or to the wait list. *)
Recv(p) ==
    /\ Executes(p)
    /\ MailboxBound > 0
    /\ Len(vstack[p]) < VstackBound
    /\ IF mailbox[p] = <<>>
       THEN /\ state' = [state EXCEPT ![p] = "asleep"]
            /\ UNCHANGED <<mailbox, vstack>>
       ELSE /\ mailbox' = [mailbox EXCEPT ![p] = Tail(@)]
            /\ PushTo(p, vstack[p], Head(mailbox[p]))
            /\ UNCHANGED state
    /\ UNCHANGED <<records, values, marked, closure_ar, current_ar, astack, unset,
                   undefined>>

(***************************************************************************)
(* The collector                                                           *)
(***************************************************************************)

(* The least set that holds R and, with a node, its successors. *)
Reached(R, successors) ==
    LET ahead  == (UNION {successors[m] : m \in Node}) \ R
        closed == {T \in SUBSET ahead :
                      \A m \in R \cup T : successors[m] \subseteq R \cup T}
    IN  {n \in Node : n \in R \/ \A T \in closed : n \in T}

RangeOf(s) == {s[i] : i \in DOMAIN s}

(* What activation_mark and value_mark visit from a node.  The contents of *)
(* a dictionary are not marked.                                            *)
MarkSuccessorsNoScope(n) ==   \* mutant: closures are taken for leaves
    CASE n \in Ar      -> {caller[n], enclosing[n], slot[n]}
      [] n \in Sv      -> IF kind[n] = "list" THEN {elem[n]} ELSE {}
      [] n \in Closure -> {}

MarkSuccessorsNoLists(n) ==   \* mutant: values are taken for leaves
    CASE n \in Ar      -> {caller[n], enclosing[n], slot[n]}
      [] n \in Sv      -> {}
      [] n \in Closure -> {closure_ar[n]}

MarkSuccessors(n) ==
    CASE n \in Ar      -> {caller[n], enclosing[n], slot[n]}
      [] n \in Sv      -> IF kind[n] = "list" THEN {elem[n]} ELSE {}
      [] n \in Closure -> {closure_ar[n]}

(* Records that already carry a mark are not entered. *)
Visits == [n \in Node |-> MarkSuccessors(n) \ (marked \cup {Null})]

(* The mark phase starts from the run list only. *)
OnRunList(p) == state[p] = "awake"

MarkRootsRecords ==   \* mutant: the value stacks are forgotten
    {current_ar[p] : p \in {q \in Proc : OnRunList(q)}} \ (marked \cup {Null})

MarkRoots ==
    (UNION {{current_ar[p]} \cup RangeOf(vstack[p]) : p \in {q \in Proc : OnRunList(q)}})
        \ (marked \cup {Null})

(* Only what is in the two lists is swept: records on an activation stack *)
(* keep their marks.  Freed memory holds nothing that may be read.        *)
Sweep(M) ==
    LET Kept(f, x) == [n \in DOMAIN f |-> IF n \in M \cup StackAr THEN f[n] ELSE x] IN
    /\ a_head' = a_head \cap M
    /\ sv_head' = sv_head \cap M
    /\ marked' = (marked \cup (M \cap Ar)) \ HeapAr
    /\ caller' = Kept(caller, Null)
    /\ enclosing' = Kept(enclosing, Null)
    /\ slot' = Kept(slot, Null)
    /\ size' = Kept(size, 0)
    /\ code' = Kept(code, 0)
    /\ kind' = Kept(kind, "string")
    /\ elem' = Kept(elem, Null)

Collect ==
    LET M == Reached(MarkRoots, Visits) IN
    /\ ~undefined
    /\ \E p \in Proc : state[p] = "awake"
    /\ Sweep(M)
    /\ undefined' = ~(M \subseteq a_head \cup sv_head \cup StackAr \cup Closure)
    /\ UNCHANGED <<closure_ar, procs, current_ar, vstack, astack, unset>>

(***************************************************************************)
(* The specification                                                       *)
(***************************************************************************)

(* main has put the record of the globals on the heap. *)
Init ==
    \E main \in Proc, global_ar \in HeapAr :
        /\ a_head = {global_ar}
        /\ sv_head = Folded
        /\ marked = {}
        /\ caller = [a \in Ar |-> Null]
        /\ enclosing = [a \in Ar |-> Null]
        /\ slot = [a \in Ar |-> Null]
        /\ size = [a \in Ar |-> IF a = global_ar THEN Slots[0] ELSE 0]
        /\ code = [a \in Ar |-> 0]
        /\ kind = [v \in Sv |-> IF v \in Folded THEN "list" ELSE "string"]
        /\ elem = [v \in Sv |-> Null]
        /\ closure_ar = [k \in Closure |-> Null]
        /\ state = [p \in Proc |-> IF p = main THEN "awake" ELSE "none"]
        /\ current_ar = [p \in Proc |-> IF p = main THEN global_ar ELSE Null]
        /\ vstack = [p \in Proc |-> <<>>]
        /\ astack = [p \in Proc |-> 0]
        /\ mailbox = [p \in Proc |-> <<>>]
        /\ unset = [p \in Proc |-> FALSE]
        /\ undefined = FALSE

Next ==
    \/ \E p \in Proc, v \in Sv : PushString(p, v)
    \/ \E p \in Proc, v \in Sv : PushFolded(p, v)
    \/ \E p \in Proc, v \in Sv, k \in Containers : Wrap(p, v, k)
    \/ \E p \in Proc : Fetch(p)
    \/ \E p \in Proc : Store(p)
    \/ \E p \in Proc : PushLocal(p)
    \/ \E p \in Proc : PopLocal(p)
    \/ \E p \in Proc, k \in Closure : PushClosure(p, k)
    \/ \E p \in Proc : SetActivation(p)
    \/ \E p \in Proc, a \in HeapAr : CallOnHeap(p, a)
    \/ \E p \in Proc : CallOnStack(p)
    \/ \E p \in Proc : GotoSameRecord(p)
    \/ \E p \in Proc, a \in HeapAr : GotoOnHeap(p, a)
    \/ \E p \in Proc : GotoOnStack(p)
    \/ \E p \in Proc : Ret(p)
    \/ \E p \in Proc : Halt(p)
    \/ \E p, q \in Proc, a \in HeapAr : Spawn(p, q, a)
    \/ \E p, q \in Proc : Send(p, q)
    \/ \E p \in Proc : Recv(p)
    \/ Collect

Spec == Init /\ [][Next]_vars

(***************************************************************************)
(* Properties                                                              *)
(***************************************************************************)

TypeOK ==
    /\ a_head \subseteq HeapAr
    /\ sv_head \subseteq Sv
    /\ marked \subseteq Ar
    /\ caller \in [Ar -> Ar \cup {Null}]
    /\ enclosing \in [Ar -> Ar \cup {Null}]
    /\ slot \in [Ar -> Value]
    /\ size \in [Ar -> Nat]
    /\ code \in [Ar -> 0 .. Routines]
    /\ kind \in [Sv -> {"string", "list", "dict"}]
    /\ elem \in [Sv -> Value]
    /\ closure_ar \in [Closure -> Ar \cup {Null}]
    /\ state \in [Proc -> {"none", "awake", "asleep"}]
    /\ current_ar \in [Proc -> Ar \cup {Null}]
    /\ vstack \in [Proc -> Seq(Value)]
    /\ astack \in [Proc -> Nat]
    /\ mailbox \in [Proc -> Seq(Value)]
    /\ unset \in [Proc -> BOOLEAN]
    /\ undefined \in BOOLEAN
    /\ \A p \in Proc : state[p] # "none" => current_ar[p] # Null

Allocated ==
    a_head \cup sv_head \cup Closure
        \cup UNION {{Frame[p][d] : d \in 1 .. astack[p]} : p \in Proc}

(* The records that p will return to. *)
Callers      == [n \in Node |-> IF n \in Ar THEN {caller[n]} \ {Null} ELSE {}]
CallChain(p) == Reached({current_ar[p]}, Callers)

(* What a program can still get at: from the records it will return to,   *)
(* the values on its stack and the messages it has not read, through      *)
(* scopes, variables, containers and closures.  The closure that          *)
(* SET_ACTIVATION is about to set has no scope yet.                       *)
InUseSuccessors ==
    [n \in Node |->
        CASE n \in Ar      -> {enclosing[n], slot[n]} \ {Null}
          [] n \in Sv      -> {elem[n]} \ {Null}
          [] n \in Closure -> {closure_ar[n]} \ {Null}]

InUseRoots(p) ==
    (CallChain(p) \cup RangeOf(IF unset[p] THEN Pop(vstack[p], 1) ELSE vstack[p])
                  \cup RangeOf(mailbox[p])) \ {Null}

InUse == Reached(UNION {InUseRoots(p) : p \in {q \in Proc : state[q] # "none"}},
                 InUseSuccessors)

(* Nothing that a program can still get at is freed: not by the collector, *)
(* and not as a frame.  Of the steps that are no collections, only a GOTO  *)
(* that runs a routine with closures in a frame can lead to the contrary.  *)
NothingInUseIsFreed == InUse \subseteq Allocated

(* What a process that sleeps will find again when a message wakes it. *)
SleepersKeepTheirMemory ==
    \A p \in Proc : state[p] = "asleep" =>
        Reached((CallChain(p) \cup RangeOf(vstack[p])) \ {Null}, InUseSuccessors)
            \subseteq Allocated

(* A collection while processes sleep, with no message unread anywhere,    *)
(* leaves them their records and values.                                   *)
CollectKeepsSleepers ==
    [][/\ Collect /\ NothingInUseIsFreed
       /\ \A p \in Proc : RangeOf(mailbox[p]) \subseteq {Null}
       => SleepersKeepTheirMemory']_vars

(* The frames of an activation stack are the records that its process      *)
(* will return from, in the order of the calls, as long as nothing in use  *)
(* has been freed: what RET and GOTO pop is the current record, and those  *)
(* of its callers stay.                                                    *)
FramesAreCallChain ==
    NothingInUseIsFreed =>
        \A p \in Proc : state[p] # "none" =>
            CallChain(p) \cap StackAr = {Frame[p][d] : d \in 1 .. astack[p]}

(* The collector keeps what is in use, except where it is known to fail:  *)
(* a process sleeps, a message with structure is unread, a dictionary is  *)
(* in use, or a record in use still carries the mark of an earlier        *)
(* collection.                                                            *)
Collectable ==
    /\ \A p \in Proc : state[p] # "asleep"
    /\ \A p \in Proc : state[p] # "none" => RangeOf(mailbox[p]) \subseteq {Null}
    /\ \A v \in InUse \cap Sv : kind[v] # "dict"
    /\ InUse \cap marked = {}

CollectKeepsWhatIsInUse ==
    [][Collect /\ Collectable /\ NothingInUseIsFreed => NothingInUseIsFreed']_vars
============================================================================
