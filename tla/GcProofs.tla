------------------------------ MODULE GcProofs ------------------------------
(***************************************************************************)
(* Theorems about Gc, for any processes, addresses, frames and bounds:     *)
(* types, what a single collection keeps, that programs of which all       *)
(* records are on the heap never lose anything, and the order of frames.   *)
(***************************************************************************)
EXTENDS Gc, Integers, SequenceTheorems, TLAPS

(***************************************************************************)
(* Lemmas about reachability                                               *)
(***************************************************************************)

(* What holds the roots and is closed under the successors holds all that  *)
(* is reached.                                                             *)
LEMMA ReachedIsLeast ==
    ASSUME NEW R, NEW successors, NEW T,
           R \subseteq T, T \subseteq Node,
           \A m \in T : successors[m] \subseteq T
    PROVE  Reached(R, successors) \subseteq T
<1> DEFINE next == UNION {successors[m] : m \in Node}
           ahead == next \ R
           S == T \cap ahead
<1>1. S \in SUBSET ahead /\ S \subseteq T
  OBVIOUS
<1>2. ASSUME NEW m \in R \cup S PROVE successors[m] \subseteq R \cup S
  <2>1. m \in T /\ m \in Node
    BY <1>1
  <2>2. successors[m] \subseteq T
    BY <2>1
  <2>3. successors[m] \subseteq next
    BY <2>1
  <2>. HIDE DEF next
  <2>. QED BY <2>2, <2>3
<1>3. S \in {U \in SUBSET ahead : \A m \in R \cup U : successors[m] \subseteq R \cup U}
  <2>. HIDE DEF S, ahead
  <2>. QED BY <1>1, <1>2
<1>4. Reached(R, successors)
        = {n \in Node : \/ n \in R
                        \/ \A U \in {U \in SUBSET ahead :
                                       \A m \in R \cup U : successors[m] \subseteq R \cup U} :
                              n \in U}
  BY DEF Reached
<1>. HIDE DEF S, ahead, next
<1>. QED BY <1>1, <1>3, <1>4

(* What is reached holds the roots, and is itself closed.                  *)
LEMMA ReachedIsClosed ==
    ASSUME NEW R, NEW successors,
           R \subseteq Node, \A m \in Node : successors[m] \subseteq Node
    PROVE  /\ R \subseteq Reached(R, successors)
           /\ Reached(R, successors) \subseteq Node
           /\ \A m \in Reached(R, successors) :
                 successors[m] \subseteq Reached(R, successors)
<1>1. ASSUME NEW m \in Reached(R, successors), NEW n \in successors[m]
      PROVE  n \in Reached(R, successors)
  <2>1. m \in Node /\ n \in Node
    BY <1>1 DEF Reached
  <2>2. ASSUME n \notin R, NEW T \in SUBSET ((UNION {successors[k] : k \in Node}) \ R),
               \A k \in R \cup T : successors[k] \subseteq R \cup T
        PROVE  n \in T
    <3>1. m \in R \cup T
      BY <1>1, <2>2 DEF Reached
    <3>. QED BY <1>1, <2>2, <3>1
  <2>. QED BY <2>1, <2>2 DEF Reached
<1>. QED BY <1>1 DEF Reached

(* What is reached from nodes that are reached is reached.                 *)
LEMMA ReachedFromReached ==
    ASSUME NEW R, NEW successors, NEW Q,
           R \subseteq Node, \A m \in Node : successors[m] \subseteq Node,
           Q \subseteq Reached(R, successors)
    PROVE  Reached(Q, successors) \subseteq Reached(R, successors)
<1>1. /\ Reached(R, successors) \subseteq Node
      /\ \A m \in Reached(R, successors) :
            successors[m] \subseteq Reached(R, successors)
  BY ReachedIsClosed
<1>. QED BY <1>1, ReachedIsLeast

(* A node reaches itself and what its successors reach.                    *)
LEMMA ReachedFromOne ==
    ASSUME NEW a \in Node, NEW successors,
           \A m \in Node : successors[m] \subseteq Node
    PROVE  Reached({a}, successors) = {a} \cup Reached(successors[a], successors)
<1> DEFINE A == Reached({a}, successors)
           B == Reached(successors[a], successors)
<1>1. /\ a \in A /\ A \subseteq Node /\ \A m \in A : successors[m] \subseteq A
  BY ReachedIsClosed
<1>2. /\ successors[a] \subseteq B /\ B \subseteq Node
      /\ \A m \in B : successors[m] \subseteq B
  BY ReachedIsClosed
<1>3. A \subseteq {a} \cup B
  <2>1. \A m \in {a} \cup B : successors[m] \subseteq {a} \cup B
    BY <1>2
  <2>2. {a} \subseteq {a} \cup B /\ {a} \cup B \subseteq Node
    BY <1>2
  <2>. HIDE DEF B
  <2>. QED BY <2>1, <2>2, ReachedIsLeast
<1>4. B \subseteq A
  <2>. successors[a] \subseteq A
    BY <1>1
  <2>. HIDE DEF A
  <2>. QED BY <1>1, ReachedIsLeast DEF B
<1>. QED BY <1>1, <1>3, <1>4

(* Two successor functions that agree on what one of them reaches reach    *)
(* the same.                                                               *)
LEMMA ReachedTheSame ==
    ASSUME NEW R, NEW s1, NEW s2, R \subseteq Node,
           \A m \in Node : s1[m] \subseteq Node /\ s2[m] \subseteq Node,
           \A m \in Reached(R, s1) : s2[m] = s1[m]
    PROVE  Reached(R, s2) = Reached(R, s1)
<1> DEFINE A == Reached(R, s1)
           B == Reached(R, s2)
<1>1. R \subseteq A /\ A \subseteq Node /\ \A m \in A : s1[m] \subseteq A
  BY ReachedIsClosed
<1>2. R \subseteq B /\ B \subseteq Node /\ \A m \in B : s2[m] \subseteq B
  BY ReachedIsClosed
<1>3. B \subseteq A
  <2>. \A m \in A : s2[m] \subseteq A
    BY <1>1
  <2>. HIDE DEF A
  <2>. QED BY <1>1, ReachedIsLeast DEF B
<1>4. A \subseteq B
  <2>. \A m \in B : s1[m] \subseteq B
    BY <1>2, <1>3
  <2>. HIDE DEF B
  <2>. QED BY <1>2, ReachedIsLeast DEF A
<1>. QED BY <1>3, <1>4

(***************************************************************************)
(* Types                                                                   *)
(***************************************************************************)

(* Nodes and values, the kinds of memory apart from each other.            *)
LEMMA Kinds ==
    /\ HeapAr \subseteq Ar /\ StackAr \subseteq Ar /\ Ar = HeapAr \cup StackAr
    /\ Ar \subseteq Node /\ Sv \subseteq Node /\ Closure \subseteq Node
    /\ Node = Ar \cup Sv \cup Closure
    /\ Sv \subseteq Value /\ Closure \subseteq Value /\ Null \in Value
    /\ Value = Sv \cup Closure \cup {Null}
    /\ Ar \cap Sv = {} /\ Ar \cap Closure = {} /\ Sv \cap Closure = {}
    /\ HeapAr \cap StackAr = {} /\ Null \notin Node
BY AddressAssumption DEF Ar, Node, Value

(* The frames of a process are records.                                    *)
LEMMA Frames ==
    ASSUME NEW p \in Proc
    PROVE  /\ Len(Frame[p]) \in Nat /\ DOMAIN Frame[p] = 1 .. Len(Frame[p])
           /\ \A d \in DOMAIN Frame[p] : Frame[p][d] \in StackAr
<1>1. Frame[p] \in Seq(UNION {{Frame[q][d] : d \in DOMAIN Frame[q]} : q \in Proc})
  BY FrameAssumption
<1>. QED BY <1>1 DEF StackAr

(* Without its top values, a stack is what it was.                         *)
LEMMA Popped ==
    ASSUME NEW s \in Seq(Value), NEW n \in Nat, n <= Len(s)
    PROVE  /\ Pop(s, n) \in Seq(Value)
           /\ Len(Pop(s, n)) = Len(s) - n
           /\ \A i \in 1 .. Len(s) - n : Pop(s, n)[i] = s[i]
           /\ RangeOf(Pop(s, n)) \subseteq RangeOf(s)
<1>1. Len(s) \in Nat /\ DOMAIN s = 1 .. Len(s) /\ \A i \in 1 .. Len(s) : s[i] \in Value
  OBVIOUS
<1>2. /\ Pop(s, n) \in Seq(Value)
      /\ Len(Pop(s, n)) = Len(s) - n
      /\ \A i \in 1 .. Len(s) - n : Pop(s, n)[i] = s[i]
  <2>1. 1 \in Int /\ Len(s) - n \in Int /\ \A i \in 1 .. Len(s) - n : s[i] \in Value
    BY <1>1
  <2>2. /\ SubSeq(s, 1, Len(s) - n) \in Seq(Value)
        /\ Len(SubSeq(s, 1, Len(s) - n)) =
              IF 1 <= Len(s) - n THEN (Len(s) - n) - 1 + 1 ELSE 0
        /\ \A i \in 1 .. (Len(s) - n) - 1 + 1 :
              SubSeq(s, 1, Len(s) - n)[i] = s[1 + i - 1]
    BY <2>1, SubSeqProperties
  <2>3. /\ (Len(s) - n) - 1 + 1 = Len(s) - n
        /\ \A i \in 1 .. Len(s) - n : 1 + i - 1 = i
    BY <1>1
  <2>4. Len(SubSeq(s, 1, Len(s) - n)) = Len(s) - n
    <3>1. PICK l : l = Len(s) - n
      OBVIOUS
    <3>2. l \in Nat
      BY <1>1, <3>1
    <3>3. 1 <= l => l - 1 + 1 = l
      BY <3>2
    <3>4. ~(1 <= l) => l = 0
      BY <3>2
    <3>. QED BY <2>2, <3>1, <3>3, <3>4
  <2>. QED BY <2>2, <2>3, <2>4 DEF Pop
<1>. QED BY <1>1, <1>2 DEF RangeOf

(* All of TypeOK but the height of the activation stacks: when the         *)
(* collector frees a record that a call returns to, and its address is     *)
(* used again, RET goes on with the frames of another process and counts   *)
(* below 0.                                                                *)
Types ==
    /\ a_head \subseteq HeapAr
    /\ sv_head \subseteq Sv
    /\ marked \subseteq Ar
    /\ caller \in [Ar -> Ar \cup {Null}]
    /\ enclosing \in [Ar -> Ar \cup {Null}]
    /\ slot \in [Ar -> Value]
    /\ size \in [Ar -> Nat]
    /\ code \in [Ar -> 0 .. Routines]
    /\ kind \in [Sv -> {"string", "list", "dict"}]
    /\ elem \in [Sv -> Value]
    /\ closure_ar \in [Closure -> Ar \cup {Null}]
    /\ state \in [Proc -> {"none", "awake", "asleep"}]
    /\ current_ar \in [Proc -> Ar \cup {Null}]
    /\ vstack \in [Proc -> Seq(Value)]
    /\ astack \in [Proc -> Int]
    /\ mailbox \in [Proc -> Seq(Value)]
    /\ unset \in [Proc -> BOOLEAN]
    /\ undefined \in BOOLEAN
    /\ \A p \in Proc : state[p] # "none" => current_ar[p] # Null

(* What is on the stack of a process, and what Pop leaves of it.           *)
LEMMA StackOf ==
    ASSUME Types, NEW p \in Proc
    PROVE  /\ vstack[p] \in Seq(Value) /\ Len(vstack[p]) \in Nat
           /\ RangeOf(vstack[p]) \subseteq Value
           /\ \A i \in 1 .. Len(vstack[p]) : vstack[p][i] \in RangeOf(vstack[p])
           /\ vstack[p] # <<>> => /\ Top(p) \in RangeOf(vstack[p])
                                  /\ Pop(vstack[p], 1) \in Seq(Value)
                                  /\ RangeOf(Pop(vstack[p], 1)) \subseteq RangeOf(vstack[p])
           /\ Len(vstack[p]) > Arity =>
                 /\ vstack[p] # <<>>
                 /\ Argument(p) \in RangeOf(vstack[p]) \cup {Null}
                 /\ Pop(vstack[p], Arity + 1) \in Seq(Value)
                 /\ RangeOf(Pop(vstack[p], Arity + 1)) \subseteq RangeOf(vstack[p])
<1>1. /\ vstack[p] \in Seq(Value) /\ Len(vstack[p]) \in Nat
      /\ DOMAIN vstack[p] = 1 .. Len(vstack[p])
      /\ \A i \in 1 .. Len(vstack[p]) : vstack[p][i] \in Value
  <2>1. vstack[p] \in Seq(Value)
    BY DEF Types
  <2>. QED BY <2>1
<1>2. /\ RangeOf(vstack[p]) \subseteq Value
      /\ \A i \in 1 .. Len(vstack[p]) : vstack[p][i] \in RangeOf(vstack[p])
  BY <1>1 DEF RangeOf
<1>3. ASSUME vstack[p] # <<>>
      PROVE  /\ Top(p) \in RangeOf(vstack[p])
             /\ Pop(vstack[p], 1) \in Seq(Value)
             /\ RangeOf(Pop(vstack[p], 1)) \subseteq RangeOf(vstack[p])
  <2>1. Len(vstack[p]) >= 1 /\ Len(vstack[p]) \in 1 .. Len(vstack[p])
    BY <1>1, <1>3
  <2>2. Top(p) \in RangeOf(vstack[p])
    BY <1>2, <2>1 DEF Top
  <2>. QED BY <1>1, <2>1, <2>2, Popped
<1>4. ASSUME Len(vstack[p]) > Arity
      PROVE  /\ vstack[p] # <<>>
             /\ Argument(p) \in RangeOf(vstack[p]) \cup {Null}
             /\ Pop(vstack[p], Arity + 1) \in Seq(Value)
             /\ RangeOf(Pop(vstack[p], Arity + 1)) \subseteq RangeOf(vstack[p])
  <2>1. Arity \in Nat /\ Arity + 1 \in Nat /\ Arity + 1 <= Len(vstack[p])
    BY <1>1, <1>4, ArityAssumption
  <2>2. Argument(p) \in RangeOf(vstack[p]) \cup {Null}
    <3>1. CASE Arity = 0 BY <3>1 DEF Argument
    <3>2. CASE Arity # 0
      <4>1. Len(vstack[p]) - 1 \in 1 .. Len(vstack[p])
        BY <1>1, <1>4, <3>2, ArityAssumption
      <4>. QED BY <1>2, <3>2, <4>1 DEF Argument
    <3>. QED BY <3>1, <3>2
  <2>. QED BY <1>1, <1>4, <2>1, <2>2, Popped
<1>. QED BY <1>1, <1>2, <1>3, <1>4

LEMMA InitTypes == Init => Types
<1> SUFFICES ASSUME Init PROVE Types
  OBVIOUS
<1>1. PICK main \in Proc, global_ar \in HeapAr :
        /\ a_head = {global_ar}
        /\ state = [p \in Proc |-> IF p = main THEN "awake" ELSE "none"]
        /\ current_ar = [p \in Proc |-> IF p = main THEN global_ar ELSE Null]
  BY DEF Init
<1>2. /\ sv_head = Folded
      /\ marked = {}
      /\ caller = [a \in Ar |-> Null]
      /\ enclosing = [a \in Ar |-> Null]
      /\ slot = [a \in Ar |-> Null]
      /\ size \in [Ar -> {Slots[0], 0}]
      /\ code = [a \in Ar |-> 0]
      /\ kind = [v \in Sv |-> IF v \in Folded THEN "list" ELSE "string"]
      /\ elem = [v \in Sv |-> Null]
      /\ closure_ar = [k \in Closure |-> Null]
      /\ vstack = [p \in Proc |-> <<>>]
      /\ astack = [p \in Proc |-> 0]
      /\ mailbox = [p \in Proc |-> <<>>]
      /\ unset = [p \in Proc |-> FALSE]
      /\ undefined = FALSE
  BY DEF Init
<1>3. Folded \subseteq Sv /\ 0 \in 0 .. Routines /\ Slots[0] \in Nat /\ <<>> \in Seq(Value)
  BY FoldedAssumption, RoutinesAssumption
<1>4. /\ a_head \subseteq HeapAr /\ sv_head \subseteq Sv /\ marked \subseteq Ar
      /\ state \in [Proc -> {"none", "awake", "asleep"}]
      /\ current_ar \in [Proc -> Ar \cup {Null}]
      /\ \A p \in Proc : state[p] # "none" => current_ar[p] # Null
  BY <1>1, <1>2, <1>3, Kinds
<1>5. /\ vstack \in [Proc -> Seq(Value)] /\ mailbox \in [Proc -> Seq(Value)]
      /\ astack \in [Proc -> Int] /\ unset \in [Proc -> BOOLEAN]
  BY <1>2, <1>3
<1>6. /\ caller \in [Ar -> Ar \cup {Null}] /\ enclosing \in [Ar -> Ar \cup {Null}]
      /\ slot \in [Ar -> Value] /\ size \in [Ar -> Nat] /\ code \in [Ar -> 0 .. Routines]
      /\ kind \in [Sv -> {"string", "list", "dict"}] /\ elem \in [Sv -> Value]
      /\ closure_ar \in [Closure -> Ar \cup {Null}]
  BY <1>2, <1>3, Kinds
<1>. QED BY <1>2, <1>3, <1>4, <1>5, <1>6 DEF Types

(* The records a process works with.                                       *)
LEMMA ScopeIsRecords ==
    ASSUME Types, NEW p \in Proc, Executes(p)
    PROVE  /\ current_ar[p] \in Ar /\ current_ar[p] \in Node
           /\ Scope(p) \subseteq Ar
           /\ \A a \in Scope(p) : slot[a] \in Value
<1>1. current_ar[p] \in Ar \cup {Null} /\ current_ar[p] # Null
  BY DEF Types, Executes
<1>2. enclosing[current_ar[p]] \in Ar \cup {Null}
  BY <1>1 DEF Types
<1>3. Scope(p) \subseteq Ar
  BY <1>1, <1>2 DEF Scope
<1>. QED BY <1>1, <1>3, Kinds DEF Types

(* Appending to a stack.                                                   *)
LEMMA Pushed ==
    ASSUME NEW s \in Seq(Value), NEW v \in Value
    PROVE  Append(s, v) \in Seq(Value) /\ RangeOf(Append(s, v)) = RangeOf(s) \cup {v}
<1>1. /\ Append(s, v) \in Seq(Value) /\ Len(Append(s, v)) = Len(s) + 1
      /\ \A i \in 1 .. Len(s) : Append(s, v)[i] = s[i]
      /\ Append(s, v)[Len(s) + 1] = v
  BY AppendProperties
<1>2. Len(s) \in Nat /\ DOMAIN s = 1 .. Len(s)
      /\ DOMAIN Append(s, v) = 1 .. Len(s) + 1
  BY <1>1
<1>3. RangeOf(Append(s, v)) \subseteq RangeOf(s) \cup {v}
  <2>1. \A i \in 1 .. Len(s) + 1 : i \in 1 .. Len(s) \/ i = Len(s) + 1
    BY <1>2
  <2>. QED BY <1>1, <1>2, <2>1 DEF RangeOf
<1>4. RangeOf(s) \cup {v} \subseteq RangeOf(Append(s, v))
  <2>1. \A i \in 1 .. Len(s) : i \in 1 .. Len(s) + 1
    BY <1>2
  <2>2. Len(s) + 1 \in 1 .. Len(s) + 1
    BY <1>2
  <2>. QED BY <1>1, <1>2, <2>1, <2>2 DEF RangeOf
<1>. QED BY <1>1, <1>3, <1>4

(* What Fetch pushes is the content of what was on top of the stack.       *)
LEMMA FetchedIsValue ==
    ASSUME Types, NEW p \in Proc, Fetch(p)
    PROVE  \E x \in Value :
              /\ vstack' = [vstack EXCEPT ![p] = Append(Pop(vstack[p], 1), x)]
              /\ \/ Top(p) \in Sv /\ x = elem[Top(p)]
                 \/ /\ Top(p) \in Closure /\ closure_ar[Top(p)] \in Ar
                    /\ x = slot[closure_ar[Top(p)]]
<1>1. CASE /\ Top(p) \in Sv
           /\ PushTo(p, Pop(vstack[p], 1), elem[Top(p)])
  <2>1. elem[Top(p)] \in Value
    BY <1>1 DEF Types
  <2>. QED BY <1>1, <2>1 DEF PushTo
<1>2. CASE /\ Top(p) \in Closure /\ closure_ar[Top(p)] # Null
           /\ PushTo(p, Pop(vstack[p], 1), slot[closure_ar[Top(p)]])
  <2>1. closure_ar[Top(p)] \in Ar
    BY <1>2 DEF Types
  <2>2. slot[closure_ar[Top(p)]] \in Value
    BY <2>1 DEF Types
  <2>. QED BY <1>2, <2>1, <2>2 DEF PushTo
<1>. QED BY <1>1, <1>2 DEF Fetch

(* Store takes the container and the value from the stack.                 *)
LEMMA StorePops ==
    ASSUME Types, NEW p \in Proc, Len(vstack[p]) > 1
    PROVE  /\ vstack[p] # <<>> /\ Pop(vstack[p], 2) \in Seq(Value)
           /\ RangeOf(Pop(vstack[p], 2)) \subseteq RangeOf(vstack[p])
<1>1. vstack[p] \in Seq(Value) /\ Len(vstack[p]) \in Nat /\ 2 \in Nat
  BY StackOf
<1>2. 2 <= Len(vstack[p]) /\ vstack[p] # <<>>
  BY <1>1
<1>. QED BY <1>1, <1>2, Popped

(* The frames after the current record has been left.                      *)
LEMMA FramesAfterTypes ==
    ASSUME Types, NEW p \in Proc, NEW a
    PROVE  /\ FramesAfter(p, a) \in [Proc -> Int]
           /\ a \in StackAr => FramesAfter(p, a)[p] = astack[p] - 1
           /\ a \notin StackAr => FramesAfter(p, a) = astack
           /\ \A q \in Proc : q # p => FramesAfter(p, a)[q] = astack[q]
BY DEF Types, FramesAfter

(* The field of a record that FillRecord writes, from a closure.           *)
LEMMA FilledTypes ==
    ASSUME Types, NEW a \in Ar, NEW c \in Ar \cup {Null}, NEW k \in Closure,
           NEW x \in Value, FillRecord(a, c, k, x)
    PROVE  /\ caller' \in [Ar -> Ar \cup {Null}]
           /\ enclosing' \in [Ar -> Ar \cup {Null}]
           /\ slot' \in [Ar -> Value]
           /\ size' \in [Ar -> Nat]
           /\ code' \in [Ar -> 0 .. Routines]
           /\ marked' \subseteq Ar
<1>1. k \in 0 .. Routines /\ Slots[k] \in Nat
  BY RoutinesAssumption DEF Closure
<1>2. closure_ar[k] \in Ar \cup {Null}
  BY DEF Types
<1>. QED BY <1>1, <1>2 DEF Types, FillRecord

LEMMA NextTypes == Types /\ [Next]_vars => Types'
<1> SUFFICES ASSUME Types, [Next]_vars PROVE Types'
  OBVIOUS
<1>. USE DEF records, values, procs
<1>1. ASSUME NEW p \in Proc, NEW v \in Sv, PushString(p, v) PROVE Types'
  <2>1. vstack' \in [Proc -> Seq(Value)]
    BY <1>1, StackOf, Pushed, Kinds DEF Types, PushString, PushTo
  <2>. QED BY <1>1, <2>1, Kinds DEF Types, PushString, NewValue
<1>2. ASSUME NEW p \in Proc, NEW v \in Sv, PushFolded(p, v) PROVE Types'
  <2>1. vstack' \in [Proc -> Seq(Value)]
    BY <1>2, StackOf, Pushed, Kinds DEF Types, PushFolded, PushTo
  <2>. QED BY <1>2, <2>1 DEF Types, PushFolded, OnlyStack
<1>3. ASSUME NEW p \in Proc, NEW v \in Sv, NEW k \in Containers, Wrap(p, v, k)
      PROVE  Types'
  <2>1. vstack' \in [Proc -> Seq(Value)]
    BY <1>3, StackOf, Pushed, Kinds DEF Types, Wrap, PushTo, HasTop
  <2>2. Top(p) \in Value
    BY <1>3, StackOf DEF Wrap, HasTop
  <2>. QED BY <1>3, <2>1, <2>2, KindsAssumption DEF Types, Wrap, NewValue
<1>4. ASSUME NEW p \in Proc, Fetch(p) PROVE Types'
  <2>1. vstack' \in [Proc -> Seq(Value)]
    <3>1. vstack[p] # <<>> /\ Pop(vstack[p], 1) \in Seq(Value)
      BY <1>4, StackOf DEF Fetch, HasTop
    <3>2. PICK x \in Value : vstack' = [vstack EXCEPT ![p] = Append(Pop(vstack[p], 1), x)]
      BY <1>4, FetchedIsValue
    <3>3. Append(Pop(vstack[p], 1), x) \in Seq(Value)
      BY <3>1, Pushed
    <3>. QED BY <3>2, <3>3 DEF Types
  <2>. QED BY <1>4, <2>1 DEF Types, Fetch, OnlyStack
<1>5. ASSUME NEW p \in Proc, Store(p) PROVE Types'
  <2>1. Len(vstack[p]) > 1 /\ vstack[p] # <<>> /\ Pop(vstack[p], 2) \in Seq(Value)
    BY <1>5, StorePops DEF Store
  <2>2. vstack' \in [Proc -> Seq(Value)]
    BY <1>5, <2>1 DEF Types, Store
  <2>3. elem' \in [Sv -> Value]
    BY <1>5, <2>1, StackOf DEF Types, Store
  <2>. QED BY <1>5, <2>2, <2>3 DEF Types, Store
<1>6. ASSUME NEW p \in Proc, PushLocal(p) PROVE Types'
  <2>1. vstack' \in [Proc -> Seq(Value)]
    BY <1>6, StackOf, ScopeIsRecords, Pushed DEF Types, PushLocal, PushTo
  <2>. QED BY <1>6, <2>1 DEF Types, PushLocal, OnlyStack
<1>7. ASSUME NEW p \in Proc, PopLocal(p) PROVE Types'
  <2>1. vstack' \in [Proc -> Seq(Value)]
    BY <1>7, StackOf DEF Types, PopLocal, HasTop
  <2>2. slot' \in [Ar -> Value]
    BY ZenonT(60), <1>7, StackOf DEF Types, PopLocal, HasTop
  <2>. QED BY <1>7, <2>1, <2>2 DEF Types, PopLocal
<1>8. ASSUME NEW p \in Proc, NEW k \in Closure, PushClosure(p, k) PROVE Types'
  <2>2. vstack' \in [Proc -> Seq(Value)]
    BY <1>8, StackOf, Pushed, Kinds DEF Types, PushClosure, PushTo
  <2>. QED BY <1>8, <2>2 DEF Types, PushClosure
<1>9. ASSUME NEW p \in Proc, SetActivation(p) PROVE Types'
  BY <1>9 DEF Types, SetActivation
<1>10. ASSUME NEW p \in Proc, NEW a \in HeapAr, CallOnHeap(p, a) PROVE Types'
  <2>1. Executes(p) /\ Len(vstack[p]) > Arity /\ Top(p) \in Closure
    BY <1>10 DEF CallOnHeap, MayCall
  <2>2. Argument(p) \in Value
    BY <2>1, StackOf, Kinds
  <2>3. vstack' \in [Proc -> Seq(Value)]
    BY <1>10, <2>1, StackOf DEF Types, CallOnHeap
  <2>4. /\ caller' \in [Ar -> Ar \cup {Null}] /\ enclosing' \in [Ar -> Ar \cup {Null}]
        /\ slot' \in [Ar -> Value] /\ size' \in [Ar -> Nat]
        /\ code' \in [Ar -> 0 .. Routines] /\ marked' \subseteq Ar
    BY <1>10, <2>1, <2>2, ScopeIsRecords, FilledTypes, Kinds DEF CallOnHeap, NewOnHeap
  <2>5. a \in Ar /\ a # Null
    BY Kinds
  <2>. QED BY <1>10, <2>3, <2>4, <2>5 DEF Types, CallOnHeap, NewOnHeap
<1>11. ASSUME NEW p \in Proc, CallOnStack(p) PROVE Types'
  <2> DEFINE a == Frame[p][astack[p] + 1]
  <2>1. Executes(p) /\ Len(vstack[p]) > Arity /\ Top(p) \in Closure
    BY <1>11 DEF CallOnStack, MayCall
  <2>2. Argument(p) \in Value
    BY <2>1, StackOf, Kinds
  <2>3. vstack' \in [Proc -> Seq(Value)]
    BY <1>11, <2>1, StackOf DEF Types, CallOnStack
  <2>4. a \in Ar /\ a # Null
    BY <1>11, Frames, Kinds DEF CallOnStack
  <2>5. /\ FillRecord(a, current_ar[p], Top(p), Argument(p))
        /\ current_ar' = [current_ar EXCEPT ![p] = a]
        /\ astack' = [astack EXCEPT ![p] = @ + 1]
        /\ UNCHANGED <<a_head, values, closure_ar, procs, unset, undefined>>
    BY <1>11 DEF CallOnStack
  <2>. HIDE DEF a
  <2>6. /\ caller' \in [Ar -> Ar \cup {Null}] /\ enclosing' \in [Ar -> Ar \cup {Null}]
        /\ slot' \in [Ar -> Value] /\ size' \in [Ar -> Nat]
        /\ code' \in [Ar -> 0 .. Routines] /\ marked' \subseteq Ar
    BY <2>1, <2>2, <2>4, <2>5, ScopeIsRecords, FilledTypes
  <2>. QED BY <2>3, <2>4, <2>5, <2>6 DEF Types
<1>12. ASSUME NEW p \in Proc, Ret(p) PROVE Types'
  <2>1. PICK c : c = caller[current_ar[p]]
    OBVIOUS
  <2>2. c \in Ar \cup {Null} /\ p \in Proc
    BY <1>12, <2>1, ScopeIsRecords DEF Types, Ret
  <2>3. /\ current_ar' = [current_ar EXCEPT ![p] = c]
        /\ IF c = Null
           THEN Ends(p)
           ELSE /\ astack' = FramesAfter(p, current_ar[p])
                /\ UNCHANGED <<procs, vstack>>
        /\ UNCHANGED <<records, values, marked, closure_ar, unset, undefined>>
    BY <1>12, <2>1 DEF Ret
  <2>4. CASE c = Null
    <3>1. Ends(p)
      BY <2>3, <2>4
    <3>2. <<>> \in Seq(Value) /\ 0 \in Int
      OBVIOUS
    <3>3. /\ mailbox' \in [Proc -> Seq(Value)] /\ vstack' \in [Proc -> Seq(Value)]
          /\ astack' \in [Proc -> Int]
      BY <3>1, <3>2 DEF Types, Ends
    <3>4. /\ state' \in [Proc -> {"none", "awake", "asleep"}]
          /\ \A q \in Proc : state'[q] # "none" => q # p /\ state[q] # "none"
      BY <3>1 DEF Types, Ends
    <3>5. /\ current_ar' \in [Proc -> Ar \cup {Null}]
          /\ \A q \in Proc : q # p => current_ar'[q] = current_ar[q]
      BY <2>2, <2>3 DEF Types
    <3>. QED BY <2>3, <3>3, <3>4, <3>5 DEF Types
  <2>5. CASE c # Null
    BY <2>2, <2>3, <2>5 DEF Types, FramesAfter
  <2>. QED BY <2>4, <2>5
<1>13. ASSUME NEW p \in Proc, Halt(p) PROVE Types'
  BY <1>13 DEF Types, Halt, Ends
<1>14. ASSUME NEW p \in Proc, NEW q \in Proc, NEW a \in HeapAr, Spawn(p, q, a)
       PROVE  Types'
  <2>1. Top(p) \in Closure /\ vstack[p] # <<>>
    BY <1>14 DEF Spawn, HasTop
  <2>2. vstack' \in [Proc -> Seq(Value)]
    <3>1. Pop(vstack[p], 1) \in Seq(Value) /\ <<>> \in Seq(Value)
      BY <2>1, StackOf
    <3>. QED BY <1>14, <3>1 DEF Types, Spawn
  <2>3. /\ caller' \in [Ar -> Ar \cup {Null}] /\ enclosing' \in [Ar -> Ar \cup {Null}]
        /\ slot' \in [Ar -> Value] /\ size' \in [Ar -> Nat]
        /\ code' \in [Ar -> 0 .. Routines] /\ marked' \subseteq Ar
    BY <1>14, <2>1, FilledTypes, Kinds DEF Spawn, NewOnHeap
  <2>4. a \in Ar /\ a # Null
    BY Kinds
  <2>5. current_ar' \in [Proc -> Ar \cup {Null}] /\ astack' \in [Proc -> Int]
    BY <1>14, <2>4 DEF Types, Spawn
  <2>6. mailbox' \in [Proc -> Seq(Value)]
    <3>1. <<>> \in Seq(Value)
      OBVIOUS
    <3>. QED BY <1>14, <3>1 DEF Types, Spawn
  <2>7. /\ state' \in [Proc -> {"none", "awake", "asleep"}]
        /\ \A r \in Proc : state'[r] # "none" => current_ar'[r] # Null
    BY <1>14, <2>4 DEF Types, Spawn
  <2>. QED BY <1>14, <2>2, <2>3, <2>5, <2>6, <2>7 DEF Types, Spawn, NewOnHeap
<1>15. ASSUME NEW p \in Proc, NEW q \in Proc, Send(p, q) PROVE Types'
  <2>1. vstack' \in [Proc -> Seq(Value)]
    BY <1>15, StackOf DEF Types, Send, HasTop
  <2>2. mailbox' \in [Proc -> Seq(Value)]
    <3>1. Top(p) \in Value
      BY <1>15, StackOf DEF Send, HasTop
    <3>2. <<Top(p)>> \in Seq(Value) /\ mailbox[q] \in Seq(Value)
      BY <3>1 DEF Types
    <3>3. <<Top(p)>> \o mailbox[q] \in Seq(Value)
      BY <3>2, ConcatProperties
    <3>. QED BY <1>15, <3>3 DEF Types, Send
  <2>3. current_ar[q] # Null
    BY <1>15 DEF Types, Send
  <2>. QED BY <1>15, <2>1, <2>2, <2>3 DEF Types, Send
<1>16. ASSUME NEW p \in Proc, Recv(p) PROVE Types'
  <2>1. CASE mailbox[p] = <<>>
    BY <1>16, <2>1 DEF Types, Recv, Executes
  <2>2. CASE mailbox[p] # <<>>
    <3>1. mailbox[p] \in Seq(Value)
      BY DEF Types
    <3>2. Head(mailbox[p]) \in Value /\ Tail(mailbox[p]) \in Seq(Value)
      BY <2>2, <3>1, HeadTailProperties
    <3>3. vstack' \in [Proc -> Seq(Value)]
      <4>1. Append(vstack[p], Head(mailbox[p])) \in Seq(Value)
        BY <3>2, StackOf, Pushed
      <4>. QED BY <1>16, <2>2, <4>1 DEF Types, Recv, PushTo
    <3>. QED BY ZenonT(60), <1>16, <2>2, <3>2, <3>3 DEF Types, Recv
  <2>. QED BY <2>1, <2>2
<1>17. ASSUME Collect PROVE Types'
  <2>1. PICK M : M = Reached(MarkRoots, Visits) /\ Sweep(M)
    BY <1>17 DEF Collect
  <2>2. /\ caller' \in [Ar -> Ar \cup {Null}] /\ enclosing' \in [Ar -> Ar \cup {Null}]
        /\ slot' \in [Ar -> Value]
    BY <2>1, Kinds DEF Types, Sweep
  <2>5. size' \in [Ar -> Nat] /\ code' \in [Ar -> 0 .. Routines]
    <3>1. 0 \in Nat /\ 0 \in 0 .. Routines
      BY RoutinesAssumption
    <3>. QED BY <2>1, <3>1 DEF Types, Sweep
  <2>3. kind' \in [Sv -> {"string", "list", "dict"}] /\ elem' \in [Sv -> Value]
    BY <2>1, Kinds DEF Types, Sweep
  <2>4. a_head' \subseteq HeapAr /\ sv_head' \subseteq Sv /\ marked' \subseteq Ar
    BY <2>1 DEF Types, Sweep
  <2>. QED BY <1>17, <2>2, <2>3, <2>4, <2>5 DEF Types, Collect
<1>18. ASSUME NEW p \in Proc, GotoSameRecord(p) PROVE Types'
  <2>1. Executes(p) /\ Len(vstack[p]) > Arity /\ Top(p) \in Closure
    BY <1>18 DEF GotoSameRecord, MayCall
  <2>2. Argument(p) \in Value /\ Pop(vstack[p], Arity + 1) \in Seq(Value)
    BY <2>1, StackOf, Kinds
  <2>3. vstack' \in [Proc -> Seq(Value)]
    BY <1>18, <2>2 DEF Types, GotoSameRecord
  <2>4. slot' \in [Ar -> Value]
    BY <1>18, <2>2 DEF Types, GotoSameRecord
  <2>5. code' \in [Ar -> 0 .. Routines]
    <3>1. Top(p) \in 0 .. Routines
      BY <2>1, RoutinesAssumption DEF Closure
    <3>. QED BY <1>18, <3>1 DEF Types, GotoSameRecord
  <2>. QED BY <1>18, <2>3, <2>4, <2>5 DEF Types, GotoSameRecord
<1>19. ASSUME NEW p \in Proc, NEW a \in HeapAr, GotoOnHeap(p, a) PROVE Types'
  <2>1. Executes(p) /\ Len(vstack[p]) > Arity /\ Top(p) \in Closure
    BY <1>19 DEF GotoOnHeap, MayCall
  <2>2. Argument(p) \in Value /\ caller[current_ar[p]] \in Ar \cup {Null}
    BY <2>1, StackOf, ScopeIsRecords, Kinds DEF Types
  <2>3. vstack' \in [Proc -> Seq(Value)]
    BY <1>19, <2>1, StackOf DEF Types, GotoOnHeap
  <2>4. a \in Ar /\ a # Null
    BY Kinds
  <2>5. /\ caller' \in [Ar -> Ar \cup {Null}] /\ enclosing' \in [Ar -> Ar \cup {Null}]
        /\ slot' \in [Ar -> Value] /\ size' \in [Ar -> Nat]
        /\ code' \in [Ar -> 0 .. Routines] /\ marked' \subseteq Ar
    BY <1>19, <2>1, <2>2, <2>4, FilledTypes DEF GotoOnHeap, NewOnHeap
  <2>6. astack' \in [Proc -> Int]
    BY <1>19, FramesAfterTypes DEF GotoOnHeap
  <2>. QED BY <1>19, <2>3, <2>4, <2>5, <2>6 DEF Types, GotoOnHeap, NewOnHeap
<1>20. ASSUME NEW p \in Proc, GotoOnStack(p) PROVE Types'
  <2>1. Executes(p) /\ Len(vstack[p]) > Arity /\ Top(p) \in Closure
    BY <1>20 DEF GotoOnStack, MayCall
  <2>2. Argument(p) \in Value /\ caller[current_ar[p]] \in Ar \cup {Null}
    BY <2>1, StackOf, ScopeIsRecords, Kinds DEF Types
  <2>3. vstack' \in [Proc -> Seq(Value)]
    BY <1>20, <2>1, StackOf DEF Types, GotoOnStack
  <2>4. PICK popped, d :
          /\ popped = FramesAfter(p, current_ar[p]) /\ d = popped[p] + 1
          /\ d \in DOMAIN Frame[p]
          /\ FillRecord(Frame[p][d], caller[current_ar[p]], Top(p), Argument(p))
          /\ current_ar' = [current_ar EXCEPT ![p] = Frame[p][d]]
          /\ astack' = [popped EXCEPT ![p] = d]
          /\ UNCHANGED <<a_head, values, closure_ar, procs, unset, undefined>>
    BY <1>20 DEF GotoOnStack
  <2>5. Frame[p][d] \in Ar /\ Frame[p][d] # Null
    BY <2>4, Frames, Kinds
  <2>6. /\ caller' \in [Ar -> Ar \cup {Null}] /\ enclosing' \in [Ar -> Ar \cup {Null}]
        /\ slot' \in [Ar -> Value] /\ size' \in [Ar -> Nat]
        /\ code' \in [Ar -> 0 .. Routines] /\ marked' \subseteq Ar
    BY <2>1, <2>2, <2>4, <2>5, FilledTypes
  <2>7. astack' \in [Proc -> Int]
    <3>1. popped \in [Proc -> Int]
      BY <2>4, FramesAfterTypes
    <3>2. d \in Int
      BY <2>4, <3>1
    <3>. QED BY <2>4, <3>1, <3>2
  <2>. QED BY <2>3, <2>4, <2>5, <2>6, <2>7 DEF Types
<1>21. CASE UNCHANGED vars
  BY <1>21 DEF Types, vars
<1>. QED BY <1>1, <1>2, <1>3, <1>4, <1>5, <1>6, <1>7, <1>8, <1>9, <1>10, <1>11,
            <1>12, <1>13, <1>14, <1>15, <1>16, <1>17, <1>18, <1>19, <1>20, <1>21
         DEF Next


(***************************************************************************)
(* What is in use                                                          *)
(***************************************************************************)

(* The three ways to walk through memory stay in it.                       *)
SuccessorsAre ==
    /\ \A m \in Node : /\ InUseSuccessors[m] \subseteq Node
                       /\ Callers[m] \subseteq Node
                       /\ Visits[m] \subseteq Node
    /\ \A m \in Ar : /\ InUseSuccessors[m] = {enclosing[m], slot[m]} \ {Null}
                     /\ Callers[m] = {caller[m]} \ {Null}
                     /\ Visits[m] = {caller[m], enclosing[m], slot[m]}
                                        \ (marked \cup {Null})
    /\ \A m \in Sv : /\ InUseSuccessors[m] = {elem[m]} \ {Null}
                     /\ Visits[m] = (IF kind[m] = "list" THEN {elem[m]} ELSE {})
                                        \ (marked \cup {Null})
    /\ \A m \in Closure : /\ InUseSuccessors[m] = {closure_ar[m]} \ {Null}
                          /\ Visits[m] = {closure_ar[m]} \ (marked \cup {Null})
    /\ \A m \in Node \ Ar : Callers[m] = {}

LEMMA SuccessorsOf == Types => SuccessorsAre
<1> SUFFICES ASSUME Types PROVE SuccessorsAre
  OBVIOUS
<1>1. ASSUME NEW m \in Ar
      PROVE  /\ InUseSuccessors[m] = {enclosing[m], slot[m]} \ {Null}
             /\ Callers[m] = {caller[m]} \ {Null}
             /\ Visits[m] = {caller[m], enclosing[m], slot[m]} \ (marked \cup {Null})
             /\ enclosing[m] \in Ar \cup {Null} /\ slot[m] \in Value
             /\ caller[m] \in Ar \cup {Null}
  <2>1. m \in Node /\ m \notin Sv /\ m \notin Closure
    BY Kinds
  <2>2. InUseSuccessors[m] = {enclosing[m], slot[m]} \ {Null}
    BY <2>1 DEF InUseSuccessors
  <2>3. MarkSuccessors(m) = {caller[m], enclosing[m], slot[m]}
    BY <2>1 DEF MarkSuccessors
  <2>. QED BY <2>1, <2>2, <2>3 DEF Types, Callers, Visits
<1>2. ASSUME NEW m \in Sv
      PROVE  /\ InUseSuccessors[m] = {elem[m]} \ {Null}
             /\ Visits[m] = (IF kind[m] = "list" THEN {elem[m]} ELSE {})
                               \ (marked \cup {Null})
             /\ Callers[m] = {}
             /\ elem[m] \in Value
  <2>1. m \in Node /\ m \notin Ar /\ m \notin Closure
    BY Kinds
  <2>2. InUseSuccessors[m] = {elem[m]} \ {Null}
    BY <2>1 DEF InUseSuccessors
  <2>3. MarkSuccessors(m) = IF kind[m] = "list" THEN {elem[m]} ELSE {}
    BY <2>1 DEF MarkSuccessors
  <2>. QED BY <2>1, <2>2, <2>3 DEF Types, Callers, Visits
<1>3. ASSUME NEW m \in Closure
      PROVE  /\ InUseSuccessors[m] = {closure_ar[m]} \ {Null}
             /\ Visits[m] = {closure_ar[m]} \ (marked \cup {Null})
             /\ Callers[m] = {}
             /\ closure_ar[m] \in Ar \cup {Null}
  <2>1. m \in Node /\ m \notin Ar /\ m \notin Sv
    BY Kinds
  <2>2. InUseSuccessors[m] = {closure_ar[m]} \ {Null}
    BY <2>1 DEF InUseSuccessors
  <2>3. MarkSuccessors(m) = {closure_ar[m]}
    BY <2>1 DEF MarkSuccessors
  <2>. QED BY <2>1, <2>2, <2>3 DEF Types, Callers, Visits
<1>4. \A x \in Value : x # Null => x \in Node
  BY Kinds
<1>5. \A m \in Ar : /\ InUseSuccessors[m] \subseteq Node /\ Callers[m] \subseteq Node
                    /\ Visits[m] \subseteq Node
  BY <1>1, <1>4, Kinds
<1>6. \A m \in Sv : /\ InUseSuccessors[m] \subseteq Node /\ Callers[m] \subseteq Node
                    /\ Visits[m] \subseteq Node
  BY <1>2, <1>4
<1>7. \A m \in Closure : /\ InUseSuccessors[m] \subseteq Node /\ Callers[m] \subseteq Node
                         /\ Visits[m] \subseteq Node
  BY <1>3, <1>4, Kinds
<1>. QED BY <1>1, <1>2, <1>3, <1>5, <1>6, <1>7, Kinds DEF SuccessorsAre

(* The same after a step. *)
LEMMA SuccessorsOfNext == Types' => SuccessorsAre'
BY SuccessorsOf, PTL

(* The records that a process returns to are those that its current record *)
(* reaches through the callers.                                            *)
LEMMA CallChainOf ==
    ASSUME Types, NEW p \in Proc, state[p] # "none"
    PROVE  /\ current_ar[p] \in Ar
           /\ current_ar[p] \in CallChain(p)
           /\ CallChain(p) \subseteq Ar
           /\ \A m \in CallChain(p) : Callers[m] \subseteq CallChain(p)
<1>1. current_ar[p] \in Ar /\ {current_ar[p]} \subseteq Node
  BY Kinds DEF Types
<1>2. /\ {current_ar[p]} \subseteq CallChain(p)
      /\ \A m \in CallChain(p) : Callers[m] \subseteq CallChain(p)
  BY <1>1, ReachedIsClosed, SuccessorsOf DEF CallChain, SuccessorsAre
<1>3. CallChain(p) \subseteq Ar
  <2>1. \A m \in Ar : Callers[m] \subseteq Ar
    BY SuccessorsOf DEF Types, SuccessorsAre
  <2>2. {current_ar[p]} \subseteq Ar /\ Ar \subseteq Node
    BY <1>1, Kinds
  <2>. QED BY <2>1, <2>2, ReachedIsLeast DEF CallChain
<1>. QED BY <1>1, <1>2, <1>3

Roots == UNION {InUseRoots(p) : p \in {q \in Proc : state[q] # "none"}}

(* What is in use is closed, and holds the chains, stacks and mailboxes.   *)
LEMMA InUseIsClosed ==
    ASSUME Types
    PROVE  /\ InUse \subseteq Node
           /\ \A m \in InUse : InUseSuccessors[m] \subseteq InUse
           /\ \A p \in Proc : state[p] # "none" =>
                 /\ InUseRoots(p) \subseteq InUse
                 /\ CallChain(p) \subseteq InUse
                 /\ current_ar[p] \in InUse
                 /\ ~unset[p] => RangeOf(vstack[p]) \ {Null} \subseteq InUse
<1>1. ASSUME NEW p \in Proc, state[p] # "none"
      PROVE  /\ InUseRoots(p) \subseteq Node
             /\ CallChain(p) \subseteq InUseRoots(p)
             /\ ~unset[p] => RangeOf(vstack[p]) \ {Null} \subseteq InUseRoots(p)
  <2>1. RangeOf(mailbox[p]) \subseteq Value
    <3>1. mailbox[p] \in Seq(Value)
      BY DEF Types
    <3>2. \A i \in DOMAIN mailbox[p] : mailbox[p][i] \in Value
      BY <3>1
    <3>. QED BY <3>2 DEF RangeOf
  <2>2. RangeOf(IF unset[p] THEN Pop(vstack[p], 1) ELSE vstack[p]) \subseteq Value
    <3>1. CASE vstack[p] # <<>>
      BY <3>1, StackOf
    <3>2. CASE vstack[p] = <<>>
      <4>1. Len(vstack[p]) - 1 = -1
        BY <3>2
      <4>2. SubSeq(vstack[p], 1, -1) = <<>>
        BY SubSeqEmpty
      <4>. QED BY <3>2, <4>1, <4>2 DEF Pop, RangeOf
    <3>. QED BY <3>1, <3>2
  <2>3. CallChain(p) \subseteq Ar
    BY <1>1, CallChainOf
  <2>. QED BY <2>1, <2>2, <2>3, Kinds DEF InUseRoots
<1>2. Roots \subseteq Node
  BY <1>1 DEF Roots
<1>3. \A m \in Node : InUseSuccessors[m] \subseteq Node
  BY SuccessorsOf DEF SuccessorsAre
<1>4. InUse = Reached(Roots, InUseSuccessors)
  BY DEF InUse, Roots
<1>5. /\ Roots \subseteq InUse /\ InUse \subseteq Node
      /\ \A m \in InUse : InUseSuccessors[m] \subseteq InUse
  BY <1>2, <1>3, <1>4, ReachedIsClosed
<1>6. \A p \in Proc : state[p] # "none" => InUseRoots(p) \subseteq Roots
  BY DEF Roots
<1>. QED BY <1>1, <1>5, <1>6, CallChainOf

(* A set of nodes that is closed holds what is in use if it holds the      *)
(* roots: the form in which this is needed after a step.                   *)
InUseWithin ==
    \A T \in SUBSET Node :
        /\ \A p \in Proc : state[p] # "none" => InUseRoots(p) \subseteq T
        /\ \A m \in T : InUseSuccessors[m] \subseteq T
        => InUse \subseteq T

LEMMA InUseIsLeast == InUseWithin
<1> SUFFICES ASSUME NEW T \in SUBSET Node,
                    \A p \in Proc : state[p] # "none" => InUseRoots(p) \subseteq T,
                    \A m \in T : InUseSuccessors[m] \subseteq T
             PROVE  InUse \subseteq T
  BY DEF InUseWithin
<1>1. Roots \subseteq T
  BY DEF Roots
<1>2. InUse = Reached(Roots, InUseSuccessors)
  BY DEF InUse, Roots
<1>. QED BY <1>1, <1>2, ReachedIsLeast

LEMMA InUseIsLeastNext == InUseWithin'
BY InUseIsLeast, PTL

(***************************************************************************)
(* The mark phase                                                          *)
(***************************************************************************)

(* Strings hold nothing, and so does freed memory. *)
StringsHoldNothing == \A v \in Sv : kind[v] = "string" => elem[v] = Null

(* The mark phase starts from the record and the stack of each process in  *)
(* the run list.                                                           *)
LEMMA MarkRootsOf ==
    /\ \A p \in Proc : OnRunList(p) =>
          ({current_ar[p]} \cup RangeOf(vstack[p])) \ (marked \cup {Null}) \subseteq MarkRoots
    /\ \A x \in MarkRoots : /\ x # Null
                            /\ \E p \in Proc : x \in {current_ar[p]} \cup RangeOf(vstack[p])
<1> DEFINE V(p) == {current_ar[p]} \cup RangeOf(vstack[p])
           Q == {q \in Proc : OnRunList(q)}
<1>1. MarkRoots = (UNION {V(p) : p \in Q}) \ (marked \cup {Null})
  BY DEF MarkRoots
<1>2. \A p \in Proc : OnRunList(p) => p \in Q
  OBVIOUS
<1>3. \A p \in Q : p \in Proc
  OBVIOUS
<1>. HIDE DEF V, Q
<1>4. ASSUME NEW p \in Proc, OnRunList(p), NEW x \in V(p), x \notin marked \cup {Null}
      PROVE  x \in MarkRoots
  <2>1. V(p) \in {V(q) : q \in Q}
    BY <1>2, <1>4
  <2>. QED BY <1>1, <1>4, <2>1
<1>5. ASSUME NEW x \in MarkRoots PROVE x # Null /\ \E p \in Proc : x \in V(p)
  <2>1. x # Null /\ x \in UNION {V(p) : p \in Q}
    BY <1>1
  <2>2. PICK S \in {V(p) : p \in Q} : x \in S
    BY <2>1
  <2>3. PICK p \in Q : S = V(p)
    OBVIOUS
  <2>. QED BY <1>3, <2>1, <2>2, <2>3
<1>. QED BY <1>4, <1>5 DEF V

(* Where Collectable holds, everything in use is marked.                   *)
LEMMA InUseIsMarked ==
    ASSUME Types, StringsHoldNothing, Collectable
    PROVE  InUse \subseteq Reached(MarkRoots, Visits)
<1> DEFINE M == Reached(MarkRoots, Visits)
<1>1. MarkRoots \subseteq Node
  <2>1. \A p \in Proc : current_ar[p] \in Node \cup {Null}
                        /\ RangeOf(vstack[p]) \subseteq Node \cup {Null}
    BY StackOf, Kinds DEF Types
  <2>. QED BY <2>1, MarkRootsOf
<1>2. MarkRoots \subseteq M /\ M \subseteq Node /\ \A m \in M : Visits[m] \subseteq M
  BY <1>1, SuccessorsOf, ReachedIsClosed DEF SuccessorsAre
<1>. HIDE DEF M
<1>3. \A m \in InUse : m \notin marked /\ m # Null
  BY InUseIsClosed, Kinds DEF Collectable
<1>4. ASSUME NEW p \in Proc, state[p] # "none"
      PROVE  InUseRoots(p) \subseteq InUse \cap M
  <2>1. OnRunList(p)
    BY <1>4 DEF Types, Collectable, OnRunList
  <2>2. ({current_ar[p]} \cup RangeOf(vstack[p])) \ (marked \cup {Null}) \subseteq MarkRoots
    BY <2>1, MarkRootsOf
  <2>3. current_ar[p] \in M
    BY <1>2, <1>3, <1>4, <2>2, InUseIsClosed
  <2>4. CallChain(p) \subseteq M
    <3> DEFINE T == CallChain(p) \cap M
    <3>1. {current_ar[p]} \subseteq T /\ T \subseteq Node
      BY <1>2, <1>4, <2>3, CallChainOf
    <3>2. ASSUME NEW m \in T PROVE Callers[m] \subseteq T
      <4>1. m \in Ar /\ Callers[m] \subseteq CallChain(p)
        BY <1>4, CallChainOf
      <4>2. Callers[m] \subseteq InUse
        BY <1>4, <4>1, InUseIsClosed
      <4>3. Callers[m] \subseteq Visits[m]
        BY <1>3, <4>1, <4>2, SuccessorsOf DEF SuccessorsAre
      <4>. QED BY <1>2, <4>1, <4>3
    <3>3. CallChain(p) \subseteq T
      <4>. HIDE DEF T
      <4>. QED BY <3>1, <3>2, ReachedIsLeast DEF CallChain
    <3>. QED BY <3>3
  <2>5. RangeOf(IF unset[p] THEN Pop(vstack[p], 1) ELSE vstack[p]) \subseteq RangeOf(vstack[p])
        \/ InUseRoots(p) \subseteq CallChain(p) \cup RangeOf(mailbox[p])
    <3>1. CASE vstack[p] # <<>>
      BY <3>1, StackOf
    <3>2. CASE vstack[p] = <<>>
      <4>1. Len(vstack[p]) - 1 = -1
        BY <3>2
      <4>2. SubSeq(vstack[p], 1, -1) = <<>>
        BY SubSeqEmpty
      <4>. QED BY <3>2, <4>1, <4>2 DEF Pop, RangeOf
    <3>. QED BY <3>1, <3>2
  <2>6. InUseRoots(p) \subseteq CallChain(p) \cup RangeOf(vstack[p])
    <3>1. RangeOf(mailbox[p]) \subseteq {Null}
      BY <1>4 DEF Collectable
    <3>2. Null \notin InUseRoots(p)
      BY DEF InUseRoots
    <3>. QED BY <2>5, <3>1, <3>2 DEF InUseRoots
  <2>7. InUseRoots(p) \subseteq InUse
    BY <1>4, InUseIsClosed
  <2>. QED BY <1>2, <1>3, <2>2, <2>4, <2>6, <2>7
<1>5. ASSUME NEW m \in InUse \cap M PROVE InUseSuccessors[m] \subseteq InUse \cap M
  <2>1. InUseSuccessors[m] \subseteq InUse
    BY InUseIsClosed
  <2>2. InUseSuccessors[m] \subseteq Visits[m]
    <3>1. CASE m \in Ar BY <1>3, <2>1, <3>1, SuccessorsOf DEF SuccessorsAre
    <3>2. CASE m \in Sv
      <4>1. kind[m] = "list" \/ elem[m] = Null
        BY <3>2 DEF Types, StringsHoldNothing, Collectable
      <4>. QED BY <1>3, <2>1, <3>2, <4>1, SuccessorsOf DEF SuccessorsAre
    <3>3. CASE m \in Closure BY <1>3, <2>1, <3>3, SuccessorsOf DEF SuccessorsAre
    <3>. QED BY <1>2, <3>1, <3>2, <3>3, Kinds
  <2>. QED BY <1>2, <2>1, <2>2
<1>6. InUse \subseteq InUse \cap M
  BY <1>2, <1>4, <1>5, InUseIsLeast DEF InUseWithin
<1>. QED BY <1>6 DEF M

(***************************************************************************)
(* The sweep                                                               *)
(***************************************************************************)

(* The frames that are taken, as a set for each process. *)
FramesOf(p, d) == {Frame[p][e] : e \in 1 .. d}

(* What is allocated: in one of the lists, a closure, or a frame taken.    *)
AllocatedAre ==
    \A x : x \in Allocated <=> \/ x \in a_head \cup sv_head \cup Closure
                               \/ \E p \in Proc : x \in FramesOf(p, astack[p])

LEMMA AllocatedIs == AllocatedAre
<1> DEFINE U == UNION {{Frame[p][d] : d \in 1 .. astack[p]} : p \in Proc}
<1>1. \A x : x \in U <=> \E p \in Proc : x \in {Frame[p][d] : d \in 1 .. astack[p]}
  OBVIOUS
<1>2. Allocated = a_head \cup sv_head \cup Closure \cup U
  BY DEF Allocated
<1>. HIDE DEF U
<1>. QED BY <1>1, <1>2 DEF FramesOf, AllocatedAre

LEMMA AllocatedIsNext == AllocatedAre'
BY AllocatedIs, PTL

(* A collection cuts links to Null and makes no new ones.                  *)
LEMMA SweepCuts ==
    ASSUME Types, Collect
    PROVE  /\ \A m \in Node : /\ InUseSuccessors'[m] \subseteq InUseSuccessors[m]
                              /\ Callers'[m] \subseteq Callers[m]
           /\ \A m \in Node : m \in Reached(MarkRoots, Visits) \cup StackAr =>
                 Callers'[m] = Callers[m]
<1> DEFINE M == Reached(MarkRoots, Visits)
<1>1. Types'
  BY NextTypes DEF Next
<1>2. /\ caller' = [n \in Ar |-> IF n \in M \cup StackAr THEN caller[n] ELSE Null]
      /\ enclosing' = [n \in Ar |-> IF n \in M \cup StackAr THEN enclosing[n] ELSE Null]
      /\ slot' = [n \in Ar |-> IF n \in M \cup StackAr THEN slot[n] ELSE Null]
      /\ elem' = [n \in Sv |-> IF n \in M \cup StackAr THEN elem[n] ELSE Null]
      /\ closure_ar' = closure_ar
  BY DEF Types, Collect, Sweep
<1>. HIDE DEF M
<1>3. /\ \A m \in Ar : /\ InUseSuccessors'[m] = {enclosing'[m], slot'[m]} \ {Null}
                       /\ Callers'[m] = {caller'[m]} \ {Null}
      /\ \A m \in Sv : InUseSuccessors'[m] = {elem'[m]} \ {Null}
      /\ \A m \in Closure : InUseSuccessors'[m] = {closure_ar'[m]} \ {Null}
      /\ \A m \in Node \ Ar : Callers'[m] = {}
  BY <1>1, SuccessorsOfNext DEF SuccessorsAre
<1>4. ASSUME NEW m \in Node
      PROVE  /\ InUseSuccessors'[m] \subseteq InUseSuccessors[m]
             /\ Callers'[m] \subseteq Callers[m]
             /\ m \in M \cup StackAr => Callers'[m] = Callers[m]
  <2>1. CASE m \in Ar
    <3>1. /\ InUseSuccessors[m] = {enclosing[m], slot[m]} \ {Null}
          /\ Callers[m] = {caller[m]} \ {Null}
      BY <2>1, SuccessorsOf DEF SuccessorsAre
    <3>2. /\ InUseSuccessors'[m] = {enclosing'[m], slot'[m]} \ {Null}
          /\ Callers'[m] = {caller'[m]} \ {Null}
      BY <1>3, <2>1
    <3>3. /\ caller'[m] \in {caller[m], Null} /\ enclosing'[m] \in {enclosing[m], Null}
          /\ slot'[m] \in {slot[m], Null}
          /\ m \in M \cup StackAr => caller'[m] = caller[m]
      BY <1>2, <2>1
    <3>. QED BY <3>1, <3>2, <3>3
  <2>2. CASE m \in Sv
    <3>1. InUseSuccessors[m] = {elem[m]} \ {Null} /\ Callers[m] = {}
      BY <2>2, SuccessorsOf, Kinds DEF SuccessorsAre
    <3>2. InUseSuccessors'[m] = {elem'[m]} \ {Null} /\ Callers'[m] = {}
      BY <1>3, <2>2, Kinds
    <3>3. elem'[m] \in {elem[m], Null}
      BY <1>2, <2>2
    <3>. QED BY <3>1, <3>2, <3>3
  <2>3. CASE m \in Closure
    <3>1. InUseSuccessors[m] = {closure_ar[m]} \ {Null} /\ Callers[m] = {}
      BY <2>3, SuccessorsOf, Kinds DEF SuccessorsAre
    <3>2. InUseSuccessors'[m] = {closure_ar'[m]} \ {Null} /\ Callers'[m] = {}
      BY <1>3, <2>3, Kinds
    <3>. QED BY <1>2, <3>1, <3>2
  <2>. QED BY <2>1, <2>2, <2>3, Kinds
<1>. QED BY <1>4 DEF M

(* Nothing comes into use by a collection.                                 *)
LEMMA CollectAddsNothing ==
    ASSUME Types, Collect
    PROVE  InUse' \subseteq InUse
<1>1. Types'
  BY NextTypes DEF Next
<1>2. ASSUME NEW p \in Proc, state'[p] # "none"
      PROVE  InUseRoots(p)' \subseteq InUse
  <2>1. /\ state[p] # "none" /\ vstack' = vstack /\ mailbox' = mailbox /\ unset' = unset
        /\ current_ar' = current_ar
    BY <1>2 DEF Collect, procs
  <2>2. CallChain(p)' \subseteq CallChain(p)
    <3>1. /\ {current_ar[p]} \subseteq CallChain(p) /\ CallChain(p) \subseteq Node
          /\ \A m \in CallChain(p) : Callers[m] \subseteq CallChain(p)
      BY <2>1, CallChainOf, Kinds
    <3>2. \A m \in CallChain(p) : Callers'[m] \subseteq CallChain(p)
      BY <3>1, SweepCuts
    <3>3. CallChain(p)' = Reached({current_ar[p]}, Callers')
      BY <2>1 DEF CallChain, Reached
    <3>. QED BY <3>1, <3>2, <3>3, ReachedIsLeast
  <2>3. InUseRoots(p)' \subseteq InUseRoots(p)
    BY <2>1, <2>2 DEF InUseRoots, RangeOf, Pop
  <2>. QED BY <2>1, <2>3, InUseIsClosed
<1>3. \A m \in InUse : InUseSuccessors'[m] \subseteq InUse
  BY InUseIsClosed, SweepCuts
<1>4. InUse \subseteq Node
  BY InUseIsClosed
<1>5. PICK T : T = InUse
  OBVIOUS
<1>6. /\ T \subseteq Node
      /\ \A p \in Proc : state'[p] # "none" => InUseRoots(p)' \subseteq T
      /\ \A m \in T : InUseSuccessors'[m] \subseteq T
  BY <1>2, <1>3, <1>4, <1>5
<1>7. InUse' \subseteq T
  BY <1>6, InUseIsLeastNext DEF InUseWithin
<1>. QED BY <1>5, <1>7

(* One collection keeps what is in use if all that is marked.              *)
LEMMA CollectKeepsMarked ==
    ASSUME Types, Collect, NothingInUseIsFreed,
           InUse \subseteq Reached(MarkRoots, Visits)
    PROVE  NothingInUseIsFreed'
<1>1. /\ a_head' = a_head \cap Reached(MarkRoots, Visits)
      /\ sv_head' = sv_head \cap Reached(MarkRoots, Visits)
      /\ astack' = astack
  BY DEF Collect, Sweep
<1>2. ASSUME NEW x \in InUse PROVE x \in Allocated'
  <2>1. x \in Allocated /\ x \in Reached(MarkRoots, Visits)
    BY DEF NothingInUseIsFreed
  <2>2. \/ x \in a_head' \cup sv_head' \cup Closure
        \/ \E p \in Proc : x \in FramesOf(p, astack'[p])
    BY <1>1, <2>1, AllocatedIs DEF AllocatedAre
  <2>3. x \in Allocated' <=> \/ x \in a_head' \cup sv_head' \cup Closure
                             \/ \E p \in Proc : x \in FramesOf(p, astack'[p])
    BY AllocatedIsNext DEF AllocatedAre, FramesOf
  <2>. QED BY <2>2, <2>3
<1>. QED BY <1>2, CollectAddsNothing DEF NothingInUseIsFreed

LEMMA StringsStayEmpty ==
    Types /\ StringsHoldNothing /\ [Next]_vars => StringsHoldNothing'
<1> SUFFICES ASSUME Types, StringsHoldNothing, [Next]_vars PROVE StringsHoldNothing'
  OBVIOUS
<1>. USE DEF StringsHoldNothing
<1>1. ASSUME NEW p \in Proc, NEW v \in Sv, PushString(p, v) PROVE StringsHoldNothing'
  BY <1>1 DEF Types, PushString, NewValue
<1>2. ASSUME NEW p \in Proc, NEW v \in Sv, NEW k \in Containers, Wrap(p, v, k)
      PROVE  StringsHoldNothing'
  BY <1>2, KindsAssumption DEF Types, Wrap, NewValue
<1>3. ASSUME NEW p \in Proc, Store(p) PROVE StringsHoldNothing'
  <2>1. PICK d \in Sv : /\ kind[d] # "string"
                        /\ elem' = [elem EXCEPT ![d] = Top(p)]
    BY <1>3, KindsAssumption DEF Store
  <2>2. kind' = kind
    BY <1>3 DEF Store
  <2>. QED BY <2>1, <2>2 DEF Types
<1>4. ASSUME Collect PROVE StringsHoldNothing'
  BY <1>4 DEF Types, Collect, Sweep
<1>5. CASE UNCHANGED <<kind, elem>>
  BY <1>5
<1>6. UNCHANGED vars => UNCHANGED <<kind, elem>>
  BY DEF vars, values
<1>7. ASSUME NEW p \in Proc
      PROVE  /\ \A v \in Sv : PushFolded(p, v) => UNCHANGED <<kind, elem>>
             /\ \A k \in Closure : PushClosure(p, k) => UNCHANGED <<kind, elem>>
             /\ \/ Fetch(p) \/ PushLocal(p) \/ PopLocal(p) \/ SetActivation(p)
                \/ CallOnStack(p) \/ GotoSameRecord(p) \/ GotoOnStack(p)
                \/ Ret(p) \/ Halt(p) \/ Recv(p)
                => UNCHANGED <<kind, elem>>
             /\ \A a \in HeapAr :
                   CallOnHeap(p, a) \/ GotoOnHeap(p, a) => UNCHANGED <<kind, elem>>
             /\ \A q \in Proc, a \in HeapAr : Spawn(p, q, a) => UNCHANGED <<kind, elem>>
             /\ \A q \in Proc : Send(p, q) => UNCHANGED <<kind, elem>>
  BY DEF values, OnlyStack, PushFolded, Fetch, PushLocal, PopLocal, PushClosure,
         SetActivation, CallOnStack, Ret, Halt, Recv, CallOnHeap, Spawn, Send,
         GotoSameRecord, GotoOnHeap, GotoOnStack
<1>. QED BY <1>1, <1>2, <1>3, <1>4, <1>5, <1>6, <1>7 DEF Next

(* One collection of the garbage collector, at any instruction of any      *)
(* build, keeps everything that a program can still get at, if no process  *)
(* sleeps, no message with structure is unread, no dictionary is in use    *)
(* and no record in use still carries the mark of an earlier collection.   *)
THEOREM CollectionIsSafe == Spec => CollectKeepsWhatIsInUse
<1> DEFINE Inv == Types /\ StringsHoldNothing
<1>1. Init => Inv
  BY InitTypes DEF Init, StringsHoldNothing
<1>2. Inv /\ [Next]_vars => Inv'
  BY NextTypes, StringsStayEmpty
<1>3. Inv /\ [Next]_vars
      => [Collect /\ Collectable /\ NothingInUseIsFreed => NothingInUseIsFreed']_vars
  BY InUseIsMarked, CollectKeepsMarked
<1>. QED BY <1>1, <1>2, <1>3, PTL DEF Spec, CollectKeepsWhatIsInUse

(***************************************************************************)
(* Programs all of whose records are on the heap                           *)
(***************************************************************************)

(* No process sleeps or has mail, no dictionary is made, and no record is  *)
(* on an activation stack; a closure without a scope is on top of a stack  *)
(* until SET_ACTIVATION.                                                   *)
HeapOnly ==
    /\ \A p \in Proc : /\ state[p] # "asleep" /\ mailbox[p] = <<>> /\ astack[p] = 0
                       /\ current_ar[p] \in HeapAr \cup {Null}
                       /\ unset[p] => /\ state[p] = "awake" /\ vstack[p] # <<>>
                                      /\ Top(p) \in Closure
    /\ \A v \in Sv : kind[v] # "dict"
    /\ marked = {}
    /\ \A a \in Ar : /\ caller[a] \in HeapAr \cup {Null}
                     /\ enclosing[a] \in HeapAr \cup {Null}
    /\ \A k \in Closure : closure_ar[k] \in HeapAr \cup {Null}

HeapInv == Types /\ StringsHoldNothing /\ HeapOnly /\ NothingInUseIsFreed

(* What such a program is made of. *)
HeapProgram ==
    NoArStack /\ Containers \subseteq {"list"} /\ MailboxBound = 0 /\ Folded = {}

(* Without frames, allocated is what is in the lists of the collector.     *)
InLists == \A x : x \in Allocated <=> x \in a_head \cup sv_head \cup Closure

LEMMA AllocatedInLists == HeapOnly => InLists
<1> SUFFICES ASSUME HeapOnly PROVE InLists
  OBVIOUS
<1>1. \A p \in Proc : FramesOf(p, astack[p]) = {}
  <2>1. 1 .. 0 = {}
    OBVIOUS
  <2>2. \A p \in Proc : astack[p] = 0
    BY DEF HeapOnly
  <2>. QED BY <2>1, <2>2 DEF FramesOf
<1>. QED BY <1>1, AllocatedIs DEF AllocatedAre, InLists

LEMMA AllocatedInListsNext == HeapOnly' => InLists'
BY AllocatedInLists, PTL

LEMMA HeapInit == HeapProgram /\ Init => HeapInv
<1> SUFFICES ASSUME HeapProgram, Init PROVE HeapInv
  OBVIOUS
<1>1. Types
  BY InitTypes
<1>2. PICK main \in Proc, global_ar \in HeapAr :
        /\ a_head = {global_ar}
        /\ state = [p \in Proc |-> IF p = main THEN "awake" ELSE "none"]
        /\ current_ar = [p \in Proc |-> IF p = main THEN global_ar ELSE Null]
  BY DEF Init
<1>3. /\ marked = {}
      /\ caller = [a \in Ar |-> Null]
      /\ enclosing = [a \in Ar |-> Null]
      /\ slot = [a \in Ar |-> Null]
      /\ kind = [v \in Sv |-> IF v \in Folded THEN "list" ELSE "string"]
      /\ elem = [v \in Sv |-> Null]
      /\ closure_ar = [k \in Closure |-> Null]
      /\ vstack = [p \in Proc |-> <<>>]
      /\ astack = [p \in Proc |-> 0]
      /\ mailbox = [p \in Proc |-> <<>>]
      /\ unset = [p \in Proc |-> FALSE]
  BY DEF Init
<1>4. StringsHoldNothing
  BY <1>3 DEF StringsHoldNothing
<1>5. HeapOnly
  BY <1>2, <1>3 DEF HeapOnly, HeapProgram
<1>6. NothingInUseIsFreed
  <2>1. \A m \in Node : InUseSuccessors[m] = {} /\ Callers[m] = {}
    BY <1>1, <1>3, SuccessorsOf, Kinds DEF SuccessorsAre
  <2>2. {global_ar} \subseteq Node /\ global_ar \in Ar
    BY Kinds
  <2>3. ASSUME NEW p \in Proc, state[p] # "none" PROVE InUseRoots(p) \subseteq {global_ar}
    <3>1. current_ar[p] = global_ar
      BY <1>2, <2>3
    <3>2. CallChain(p) \subseteq {global_ar}
      BY SMTT(30), <2>1, <2>2, <3>1, ReachedIsLeast DEF CallChain
    <3>3. RangeOf(vstack[p]) = {} /\ RangeOf(mailbox[p]) = {} /\ ~unset[p]
      BY <1>3 DEF RangeOf
    <3>. QED BY <3>2, <3>3 DEF InUseRoots
  <2>4. InUse \subseteq {global_ar}
    BY <2>1, <2>2, <2>3, InUseIsLeast DEF InUseWithin
  <2>. QED BY <1>2, <1>5, <2>4, AllocatedInLists DEF InLists, NothingInUseIsFreed
<1>. QED BY <1>1, <1>4, <1>5, <1>6 DEF HeapInv

(* HeapOnly is preserved on its own.                                       *)
LEMMA HeapOnlyStays ==
    ASSUME HeapProgram, Types, HeapOnly, [Next]_vars
    PROVE  HeapOnly'
<1>. USE DEF records, values, procs
<1>0. Types'
  BY NextTypes
<1>1. ASSUME NEW p \in Proc, NEW v \in Sv, PushString(p, v) PROVE HeapOnly'
  <2>1. \A q \in Proc : unset[q] => q # p /\ vstack'[q] = vstack[q]
    BY <1>1 DEF Types, PushString, PushTo, Executes
  <2>. QED BY <1>1, <2>1 DEF Types, HeapOnly, PushString, NewValue, Top
<1>2. ASSUME NEW p \in Proc, NEW v \in Sv, PushFolded(p, v) PROVE FALSE
  BY <1>2 DEF PushFolded, HeapProgram
<1>3. ASSUME NEW p \in Proc, NEW v \in Sv, NEW k \in Containers, Wrap(p, v, k)
      PROVE  HeapOnly'
  <2>1. \A q \in Proc : unset[q] => q # p /\ vstack'[q] = vstack[q]
    BY <1>3 DEF Types, Wrap, PushTo, Executes
  <2>2. k # "dict"
    BY DEF HeapProgram
  <2>. QED BY <1>3, <2>1, <2>2 DEF Types, HeapOnly, Wrap, NewValue, Top
<1>4. ASSUME NEW p \in Proc, Fetch(p) PROVE HeapOnly'
  <2>1. \A q \in Proc : unset[q] => q # p /\ vstack'[q] = vstack[q]
    BY <1>4 DEF Types, Fetch, PushTo, Executes
  <2>. QED BY <1>4, <2>1 DEF Types, HeapOnly, Fetch, OnlyStack, Top
<1>5. ASSUME NEW p \in Proc, Store(p) PROVE HeapOnly'
  <2>1. \A q \in Proc : unset[q] => q # p /\ vstack'[q] = vstack[q]
    BY <1>5 DEF Types, Store, Executes
  <2>. QED BY <1>5, <2>1 DEF Types, HeapOnly, Store, Top
<1>6. ASSUME NEW p \in Proc, PushLocal(p) PROVE HeapOnly'
  <2>1. \A q \in Proc : unset[q] => q # p /\ vstack'[q] = vstack[q]
    BY <1>6 DEF Types, PushLocal, PushTo, Executes
  <2>. QED BY <1>6, <2>1 DEF Types, HeapOnly, PushLocal, OnlyStack, Top
<1>7. ASSUME NEW p \in Proc, PopLocal(p) PROVE HeapOnly'
  <2>1. \A q \in Proc : unset[q] => q # p /\ vstack'[q] = vstack[q]
    BY <1>7 DEF Types, PopLocal, Executes
  <2>. QED BY <1>7, <2>1 DEF Types, HeapOnly, PopLocal, Top
<1>8. ASSUME NEW p \in Proc, NEW k \in Closure, PushClosure(p, k) PROVE HeapOnly'
  <2>1. k \in Closure /\ k \in Value
    BY Kinds
  <2>2. vstack' = [vstack EXCEPT ![p] = Append(vstack[p], k)] /\ state[p] = "awake"
    BY <1>8 DEF PushClosure, PushTo, Executes
  <2>3. vstack'[p] = Append(vstack[p], k) /\ \A q \in Proc : q # p => vstack'[q] = vstack[q]
    BY <2>2 DEF Types
  <2>4. /\ vstack[p] \in Seq(Value) /\ Append(vstack[p], k) # <<>>
        /\ Len(Append(vstack[p], k)) = Len(vstack[p]) + 1
        /\ Append(vstack[p], k)[Len(vstack[p]) + 1] = k
    BY <2>1, StackOf, AppendProperties
  <2>5. vstack'[p] # <<>> /\ vstack'[p][Len(vstack'[p])] = k
    BY <2>3, <2>4
  <2>6. \A q \in Proc : unset'[q] =>
           state'[q] = "awake" /\ vstack'[q] # <<>> /\ vstack'[q][Len(vstack'[q])] \in Closure
    BY <1>8, <2>1, <2>2, <2>3, <2>5 DEF Types, HeapOnly, PushClosure, Top
  <2>. QED BY <1>8, <2>6 DEF Types, HeapOnly, PushClosure, Top
<1>9. ASSUME NEW p \in Proc, SetActivation(p) PROVE HeapOnly'
  BY <1>9 DEF Types, HeapOnly, SetActivation, Top
<1>10. ASSUME NEW p \in Proc, NEW a \in HeapAr, CallOnHeap(p, a) PROVE HeapOnly'
  <2>1. \A q \in Proc : unset[q] => q # p /\ vstack'[q] = vstack[q]
    BY <1>10 DEF Types, CallOnHeap, MayCall, Executes
  <2>2. FillRecord(a, current_ar[p], Top(p), Argument(p)) /\ Top(p) \in Closure
    BY <1>10 DEF CallOnHeap, NewOnHeap, MayCall
  <2>3. marked' = {}
        /\ \A b \in Ar : /\ caller'[b] \in HeapAr \cup {Null}
                         /\ enclosing'[b] \in HeapAr \cup {Null}
    BY <2>2 DEF Types, HeapOnly, FillRecord
  <2>. QED BY <1>10, <2>1, <2>3 DEF Types, HeapOnly, CallOnHeap, Top
<1>11. ASSUME NEW p \in Proc, CallOnStack(p) PROVE FALSE
  BY <1>11 DEF CallOnStack, OnHeap, HeapProgram
<1>12. ASSUME NEW p \in Proc, Ret(p) PROVE HeapOnly'
  <2>1. PICK c : c = caller[current_ar[p]]
    OBVIOUS
  <2>2. c \in HeapAr \cup {Null} /\ current_ar[p] \notin StackAr /\ ~unset[p]
    BY <1>12, <2>1, ScopeIsRecords, Kinds DEF HeapOnly, Ret, Executes
  <2>3. /\ current_ar' = [current_ar EXCEPT ![p] = c]
        /\ IF c = Null
           THEN Ends(p)
           ELSE /\ astack' = FramesAfter(p, current_ar[p])
                /\ UNCHANGED <<procs, vstack>>
        /\ UNCHANGED <<records, values, marked, closure_ar, unset, undefined>>
    BY <1>12, <2>1 DEF Ret
  <2>4. CASE Ends(p)
    BY <2>2, <2>3, <2>4 DEF Types, HeapOnly, Ends, Top
  <2>5. CASE /\ astack' = FramesAfter(p, current_ar[p])
             /\ UNCHANGED <<procs, vstack>>
    BY <2>2, <2>3, <2>5 DEF Types, HeapOnly, FramesAfter, Top
  <2>. QED BY <2>3, <2>4, <2>5
<1>13. ASSUME NEW p \in Proc, Halt(p) PROVE HeapOnly'
  BY <1>13 DEF Types, HeapOnly, Halt, Ends, Executes, Top
<1>14. ASSUME NEW p \in Proc, NEW q \in Proc, NEW a \in HeapAr, Spawn(p, q, a)
       PROVE  HeapOnly'
  <2>1. \A r \in Proc : unset[r] => r # p /\ r # q /\ vstack'[r] = vstack[r]
    BY <1>14 DEF Types, HeapOnly, Spawn, Executes
  <2>2. FillRecord(a, Null, Top(p), Null) /\ Top(p) \in Closure
    BY <1>14 DEF Spawn, NewOnHeap
  <2>3. marked' = {}
        /\ \A b \in Ar : /\ caller'[b] \in HeapAr \cup {Null}
                         /\ enclosing'[b] \in HeapAr \cup {Null}
    BY <2>2 DEF Types, HeapOnly, FillRecord
  <2>. QED BY <1>14, <2>1, <2>3 DEF Types, HeapOnly, Spawn, Top
<1>15. ASSUME NEW p \in Proc, NEW q \in Proc, Send(p, q) PROVE FALSE
  BY <1>15 DEF Send, HeapProgram, HeapOnly
<1>16. ASSUME NEW p \in Proc, Recv(p) PROVE FALSE
  BY <1>16 DEF Recv, HeapProgram
<1>17. ASSUME Collect PROVE HeapOnly'
  <2> DEFINE M == Reached(MarkRoots, Visits)
             T == HeapAr \cup Sv \cup Closure
  <2>1. M \subseteq T
    <3>1. MarkRoots \subseteq T
      BY MarkRootsOf, StackOf DEF HeapOnly, Value
    <3>2. ASSUME NEW m \in T PROVE Visits[m] \subseteq T
      <4>1. CASE m \in HeapAr
        <5>1. m \in Ar /\ slot[m] \in Value
          BY <4>1, Kinds DEF Types
        <5>2. /\ caller[m] \in HeapAr \cup {Null} /\ enclosing[m] \in HeapAr \cup {Null}
          BY <5>1 DEF HeapOnly
        <5>3. Visits[m] = {caller[m], enclosing[m], slot[m]} \ (marked \cup {Null})
          BY <5>1, SuccessorsOf DEF SuccessorsAre
        <5>. QED BY <5>1, <5>2, <5>3, Kinds
      <4>2. CASE m \in Sv
        BY <4>2, SuccessorsOf, Kinds DEF SuccessorsAre, Types
      <4>3. CASE m \in Closure
        BY <4>3, SuccessorsOf DEF SuccessorsAre, HeapOnly
      <4>. QED BY <4>1, <4>2, <4>3
    <3>3. T \subseteq Node
      BY Kinds
    <3>. HIDE DEF T
    <3>. QED BY <3>1, <3>2, <3>3, ReachedIsLeast
  <2>2. marked' = (marked \cup (M \cap Ar)) \ HeapAr
    BY <1>17 DEF Collect, Sweep
  <2>. HIDE DEF M
  <2>3. marked' = {}
    BY <2>1, <2>2, Kinds DEF HeapOnly
  <2>4. /\ \A a \in Ar : /\ caller'[a] \in HeapAr \cup {Null}
                         /\ enclosing'[a] \in HeapAr \cup {Null}
        /\ \A v \in Sv : kind'[v] # "dict"
    BY <1>17 DEF Types, HeapOnly, Collect, Sweep
  <2>. QED BY <1>17, <2>3, <2>4 DEF HeapOnly, Collect, Top
<1>18. ASSUME NEW p \in Proc, GotoSameRecord(p) PROVE HeapOnly'
  <2>1. \A q \in Proc : unset[q] => q # p /\ vstack'[q] = vstack[q]
    BY <1>18 DEF Types, GotoSameRecord, MayCall, Executes
  <2>. QED BY <1>18, <2>1 DEF Types, HeapOnly, GotoSameRecord, Top
<1>19. ASSUME NEW p \in Proc, NEW a \in HeapAr, GotoOnHeap(p, a) PROVE HeapOnly'
  <2>1. \A q \in Proc : unset[q] => q # p /\ vstack'[q] = vstack[q]
    BY <1>19 DEF Types, GotoOnHeap, MayCall, Executes
  <2>2. FillRecord(a, caller[current_ar[p]], Top(p), Argument(p)) /\ Top(p) \in Closure
    BY <1>19 DEF GotoOnHeap, NewOnHeap, MayCall
  <2>3. current_ar[p] \in Ar /\ current_ar[p] \notin StackAr
    BY <1>19, ScopeIsRecords, Kinds DEF GotoOnHeap, MayCall, HeapOnly
  <2>4. marked' = {}
        /\ \A b \in Ar : /\ caller'[b] \in HeapAr \cup {Null}
                         /\ enclosing'[b] \in HeapAr \cup {Null}
    BY <2>2, <2>3 DEF Types, HeapOnly, FillRecord
  <2>5. astack' = astack
    BY <1>19, <2>3 DEF GotoOnHeap, FramesAfter
  <2>. QED BY <1>19, <2>1, <2>4, <2>5 DEF Types, HeapOnly, GotoOnHeap, Top
<1>20. ASSUME NEW p \in Proc, GotoOnStack(p) PROVE FALSE
  BY <1>20 DEF GotoOnStack, OnHeap, HeapProgram
<1>21. CASE UNCHANGED vars
  BY <1>21 DEF HeapOnly, vars, Top
<1>. QED BY <1>1, <1>2, <1>3, <1>4, <1>5, <1>6, <1>7, <1>8, <1>9, <1>10, <1>11,
            <1>12, <1>13, <1>14, <1>15, <1>16, <1>17, <1>18, <1>19, <1>20, <1>21
         DEF Next

(* After a step nothing in use is free if what was in use and the nodes A  *)
(* together are allocated, closed, and hold the roots.                     *)
LEMMA NothingFreedAfter ==
    ASSUME NEW A, InUse \cup A \subseteq Node,
           HeapOnly', InUse \cup A \subseteq a_head' \cup sv_head' \cup Closure,
           \A p \in Proc : state'[p] # "none" => InUseRoots(p)' \subseteq InUse \cup A,
           \A m \in InUse \cup A : InUseSuccessors'[m] \subseteq InUse \cup A
    PROVE  NothingInUseIsFreed'
<1>1. PICK T \in SUBSET Node : T = InUse \cup A
  OBVIOUS
<1>2. InUse' \subseteq T
  BY <1>1, InUseIsLeastNext DEF InUseWithin
<1>. QED BY <1>1, <1>2, AllocatedInListsNext DEF InLists, NothingInUseIsFreed

(* The roots of a process lie in a set that holds its chain, its stack and *)
(* its mailbox.                                                            *)
LEMMA RootsWithin ==
    ASSUME NEW p \in Proc, NEW T, CallChain(p)' \subseteq T, mailbox'[p] = <<>>,
           RangeOf(IF unset'[p] THEN Pop(vstack'[p], 1) ELSE vstack'[p]) \ {Null} \subseteq T
    PROVE  InUseRoots(p)' \subseteq T
<1>1. RangeOf(mailbox'[p]) = {}
  BY DEF RangeOf
<1>. QED BY <1>1 DEF InUseRoots, RangeOf, Pop

(* The chain of a process stays within itself when neither its current     *)
(* record nor the callers in it change.                                    *)
LEMMA ChainStays ==
    ASSUME Types, Types', NEW p \in Proc, state[p] # "none",
           current_ar'[p] = current_ar[p] \/ current_ar'[p] \in CallChain(p),
           \A m \in CallChain(p) : caller'[m] = caller[m]
    PROVE  CallChain(p)' \subseteq CallChain(p)
<1>1. /\ current_ar[p] \in CallChain(p) /\ CallChain(p) \subseteq Ar
      /\ \A m \in CallChain(p) : Callers[m] \subseteq CallChain(p)
  BY CallChainOf
<1>2. \A m \in CallChain(p) : Callers'[m] \subseteq CallChain(p)
  BY <1>1, SuccessorsOf, SuccessorsOfNext DEF SuccessorsAre
<1>3. {current_ar'[p]} \subseteq CallChain(p) /\ CallChain(p) \subseteq Node
  BY <1>1, Kinds
<1>4. CallChain(p)' = Reached({current_ar'[p]}, Callers')
  BY DEF CallChain, Reached
<1>. QED BY <1>2, <1>3, <1>4, ReachedIsLeast

(* The roots of a process that a step leaves alone.                        *)
LEMMA RootsStay ==
    ASSUME Types, Types', HeapOnly', NEW p \in Proc, state[p] # "none",
           current_ar'[p] = current_ar[p], vstack'[p] = vstack[p], unset'[p] = unset[p],
           \A m \in CallChain(p) : caller'[m] = caller[m]
    PROVE  InUseRoots(p)' \subseteq InUse
<1>1. CallChain(p)' \subseteq InUse
  BY ChainStays, InUseIsClosed
<1>2. RangeOf(IF unset[p] THEN Pop(vstack[p], 1) ELSE vstack[p]) \ {Null} \subseteq InUse
  BY InUseIsClosed DEF InUseRoots
<1>3. mailbox'[p] = <<>>
  BY DEF HeapOnly
<1>. QED BY <1>1, <1>2, <1>3, RootsWithin

(* A step of p that calls nothing and returns from nothing.                *)
LEMMA QuietStep ==
    ASSUME Types, Types', HeapOnly', NEW p \in Proc, state[p] # "none", NEW A,
           InUse \cup A \subseteq a_head' \cup sv_head' \cup Closure,
           caller' = caller, current_ar' = current_ar, state' = state,
           \A q \in Proc : q # p => vstack'[q] = vstack[q] /\ unset'[q] = unset[q],
           RangeOf(IF unset'[p] THEN Pop(vstack'[p], 1) ELSE vstack'[p]) \ {Null}
               \subseteq InUse \cup A,
           \A m \in InUse \cup A : InUseSuccessors'[m] \subseteq InUse \cup A
    PROVE  NothingInUseIsFreed'
<1>1. InUse \cup A \subseteq Node
  BY Kinds DEF Types
<1>2. ASSUME NEW q \in Proc, state'[q] # "none"
      PROVE  InUseRoots(q)' \subseteq InUse \cup A
  <2>1. CASE q = p
    <3>1. CallChain(p)' \subseteq InUse \cup A
      BY ChainStays, InUseIsClosed
    <3>2. mailbox'[p] = <<>>
      BY DEF HeapOnly
    <3>. QED BY <2>1, <3>1, <3>2, RootsWithin
  <2>2. CASE q # p
    BY <1>2, <2>2, RootsStay
  <2>. QED BY <2>1, <2>2
<1>. QED BY <1>1, <1>2, NothingFreedAfter

(* What the steps below take from the invariant.                           *)
LEMMA HeapFacts ==
    ASSUME HeapInv
    PROVE  /\ InUse \subseteq a_head \cup sv_head \cup Closure
           /\ \A m \in InUse : InUseSuccessors[m] \subseteq InUse
           /\ \A p \in Proc : Executes(p) =>
                 /\ state[p] # "none" /\ ~unset[p]
                 /\ current_ar[p] \in InUse /\ current_ar[p] \in Ar
                 /\ RangeOf(vstack[p]) \subseteq InUse \cup {Null}
<1>1. InUse \subseteq a_head \cup sv_head \cup Closure
  BY AllocatedInLists DEF HeapInv, InLists, NothingInUseIsFreed
<1>2. \A m \in InUse : InUseSuccessors[m] \subseteq InUse
  BY InUseIsClosed DEF HeapInv
<1>3. ASSUME NEW p \in Proc, Executes(p)
      PROVE  /\ state[p] # "none" /\ ~unset[p]
             /\ current_ar[p] \in InUse /\ current_ar[p] \in Ar
             /\ RangeOf(vstack[p]) \subseteq InUse \cup {Null}
  <2>1. state[p] # "none" /\ ~unset[p]
    BY <1>3 DEF Executes
  <2>. QED BY <1>3, <2>1, InUseIsClosed, ScopeIsRecords DEF HeapInv
<1>. QED BY <1>1, <1>2, <1>3

(* Successors that do not change. *)
SuccessorsStayAt(m) == InUseSuccessors'[m] = InUseSuccessors[m]

LEMMA SuccessorsStay ==
    ASSUME Types, Types'
    PROVE  /\ \A m \in Ar : enclosing'[m] = enclosing[m] /\ slot'[m] = slot[m]
                 => SuccessorsStayAt(m)
           /\ \A m \in Sv : elem'[m] = elem[m] => SuccessorsStayAt(m)
           /\ \A m \in Closure : closure_ar'[m] = closure_ar[m] => SuccessorsStayAt(m)
<1>1. ASSUME NEW m \in Ar, enclosing'[m] = enclosing[m], slot'[m] = slot[m]
      PROVE  SuccessorsStayAt(m)
  <2>1. InUseSuccessors[m] = {enclosing[m], slot[m]} \ {Null}
    BY SuccessorsOf DEF SuccessorsAre
  <2>2. InUseSuccessors'[m] = {enclosing'[m], slot'[m]} \ {Null}
    BY SuccessorsOfNext DEF SuccessorsAre
  <2>. QED BY <1>1, <2>1, <2>2 DEF SuccessorsStayAt
<1>2. ASSUME NEW m \in Sv, elem'[m] = elem[m] PROVE SuccessorsStayAt(m)
  <2>1. InUseSuccessors[m] = {elem[m]} \ {Null}
    BY SuccessorsOf DEF SuccessorsAre
  <2>2. InUseSuccessors'[m] = {elem'[m]} \ {Null}
    BY SuccessorsOfNext DEF SuccessorsAre
  <2>. QED BY <1>2, <2>1, <2>2 DEF SuccessorsStayAt
<1>3. ASSUME NEW m \in Closure, closure_ar'[m] = closure_ar[m] PROVE SuccessorsStayAt(m)
  <2>1. InUseSuccessors[m] = {closure_ar[m]} \ {Null}
    BY SuccessorsOf DEF SuccessorsAre
  <2>2. InUseSuccessors'[m] = {closure_ar'[m]} \ {Null}
    BY SuccessorsOfNext DEF SuccessorsAre
  <2>. QED BY <1>3, <2>1, <2>2 DEF SuccessorsStayAt
<1>. QED BY <1>1, <1>2, <1>3

LEMMA PushStringFreesNothing ==
    ASSUME HeapInv, Types', HeapOnly', NEW p \in Proc, NEW v \in Sv, PushString(p, v)
    PROVE  NothingInUseIsFreed'
<1>. USE DEF HeapInv
<1>1. Executes(p) /\ v \notin sv_head /\ sv_head' = sv_head \cup {v}
      /\ elem' = [elem EXCEPT ![v] = Null]
      /\ vstack' = [vstack EXCEPT ![p] = Append(vstack[p], v)]
      /\ UNCHANGED <<records, closure_ar, current_ar, state, unset>>
  BY DEF PushString, NewValue, PushTo, procs
<1>2. RangeOf(vstack'[p]) = RangeOf(vstack[p]) \cup {v}
  <2>1. RangeOf(Append(vstack[p], v)) = RangeOf(vstack[p]) \cup {v}
    BY StackOf, Pushed, Kinds
  <2>. QED BY <1>1, <2>1 DEF Types
<1>3. ASSUME NEW m \in InUse \cup {v}
      PROVE  InUseSuccessors'[m] \subseteq InUse \cup {v}
  <2>1. CASE m = v
    <3>1. elem'[v] = Null
      BY <1>1 DEF Types
    <3>. QED BY <2>1, <3>1, SuccessorsOfNext DEF SuccessorsAre
  <2>2. CASE m # v
    <3>1. m \in InUse /\ m \in Node
      BY <2>2, InUseIsClosed
    <3>2. SuccessorsStayAt(m)
      BY SMTT(30), <1>1, <2>2, <3>1, SuccessorsStay, Kinds DEF records, Types
    <3>. QED BY <3>1, <3>2, HeapFacts DEF SuccessorsStayAt
  <2>. QED BY <2>1, <2>2
<1>4. InUse \cup {v} \subseteq a_head' \cup sv_head' \cup Closure
  BY <1>1, HeapFacts DEF records
<1>5. RangeOf(IF unset'[p] THEN Pop(vstack'[p], 1) ELSE vstack'[p]) \ {Null}
        \subseteq InUse \cup {v}
  BY <1>1, <1>2, HeapFacts
<1>6. \A q \in Proc : q # p => vstack'[q] = vstack[q] /\ unset'[q] = unset[q]
  BY <1>1 DEF Types
<1>7. caller' = caller /\ current_ar' = current_ar /\ state' = state /\ state[p] # "none"
  BY <1>1, HeapFacts DEF records
<1>. QED BY <1>3, <1>4, <1>5, <1>6, <1>7, QuietStep

LEMMA WrapFreesNothing ==
    ASSUME HeapInv, Types', HeapOnly', NEW p \in Proc, NEW v \in Sv,
           NEW k \in Containers, Wrap(p, v, k)
    PROVE  NothingInUseIsFreed'
<1>. USE DEF HeapInv
<1>1. Executes(p) /\ v \notin sv_head /\ sv_head' = sv_head \cup {v} /\ vstack[p] # <<>>
      /\ elem' = [elem EXCEPT ![v] = Top(p)]
      /\ vstack' = [vstack EXCEPT ![p] = Append(Pop(vstack[p], 1), v)]
      /\ UNCHANGED <<records, closure_ar, current_ar, state, unset>>
  BY DEF Wrap, NewValue, PushTo, procs, HasTop
<1>2. /\ RangeOf(vstack'[p]) \subseteq RangeOf(vstack[p]) \cup {v}
      /\ Top(p) \in InUse \cup {Null}
  <2>1. /\ RangeOf(Append(Pop(vstack[p], 1), v)) = RangeOf(Pop(vstack[p], 1)) \cup {v}
        /\ RangeOf(Pop(vstack[p], 1)) \subseteq RangeOf(vstack[p])
        /\ Top(p) \in RangeOf(vstack[p])
    BY <1>1, StackOf, Pushed, Kinds
  <2>. QED BY <1>1, <2>1, HeapFacts DEF Types
<1>3. ASSUME NEW m \in InUse \cup {v}
      PROVE  InUseSuccessors'[m] \subseteq InUse \cup {v}
  <2>1. CASE m = v
    BY <1>1, <1>2, <2>1, SuccessorsOfNext DEF SuccessorsAre, Types
  <2>2. CASE m # v
    <3>1. m \in InUse /\ m \in Node
      BY <2>2, InUseIsClosed
    <3>2. SuccessorsStayAt(m)
      BY SMTT(30), <1>1, <2>2, <3>1, SuccessorsStay, Kinds DEF records, Types
    <3>. QED BY <3>1, <3>2, HeapFacts DEF SuccessorsStayAt
  <2>. QED BY <2>1, <2>2
<1>4. InUse \cup {v} \subseteq a_head' \cup sv_head' \cup Closure
  BY <1>1, HeapFacts DEF records
<1>5. RangeOf(IF unset'[p] THEN Pop(vstack'[p], 1) ELSE vstack'[p]) \ {Null}
        \subseteq InUse \cup {v}
  BY <1>1, <1>2, HeapFacts
<1>6. \A q \in Proc : q # p => vstack'[q] = vstack[q] /\ unset'[q] = unset[q]
  BY <1>1 DEF Types
<1>7. caller' = caller /\ current_ar' = current_ar /\ state' = state /\ state[p] # "none"
  BY <1>1, HeapFacts DEF records
<1>. QED BY <1>3, <1>4, <1>5, <1>6, <1>7, QuietStep

(* A step that changes one stack, and puts nothing on it but what is in    *)
(* use.                                                                    *)
LEMMA StackStepFreesNothing ==
    ASSUME HeapInv, Types', HeapOnly', NEW p \in Proc, Executes(p), OnlyStack,
           \A q \in Proc : q # p => vstack'[q] = vstack[q],
           RangeOf(vstack'[p]) \subseteq InUse \cup {Null}
    PROVE  NothingInUseIsFreed'
<1>. USE DEF HeapInv
<1>1. UNCHANGED <<records, values, closure_ar, current_ar, state, unset>>
  BY DEF OnlyStack, procs
<1>2. ASSUME NEW m \in InUse PROVE InUseSuccessors'[m] \subseteq InUse
  <2>1. m \in Node
    BY InUseIsClosed
  <2>2. SuccessorsStayAt(m)
    BY <1>1, <2>1, SuccessorsStay, Kinds DEF records, values, Types
  <2>. QED BY <2>2, HeapFacts DEF SuccessorsStayAt
<1>3. InUse \subseteq a_head' \cup sv_head' \cup Closure
  BY <1>1, HeapFacts DEF records, values
<1>4. /\ caller' = caller /\ current_ar' = current_ar /\ state' = state /\ state[p] # "none"
      /\ \A q \in Proc : q # p => vstack'[q] = vstack[q] /\ unset'[q] = unset[q]
      /\ ~unset'[p]
  BY <1>1, HeapFacts DEF records
<1>5. RangeOf(IF unset'[p] THEN Pop(vstack'[p], 1) ELSE vstack'[p]) \ {Null} \subseteq InUse
  BY <1>4
<1>6. InUse \cup {} = InUse
  OBVIOUS
<1>. QED BY <1>2, <1>3, <1>4, <1>5, <1>6, QuietStep

LEMMA FetchFreesNothing ==
    ASSUME HeapInv, Types', HeapOnly', NEW p \in Proc, Fetch(p)
    PROVE  NothingInUseIsFreed'
<1>. USE DEF HeapInv
<1>1. Executes(p) /\ OnlyStack /\ vstack[p] # <<>>
  BY DEF Fetch, HasTop
<1>2. PICK x \in Value :
        /\ vstack' = [vstack EXCEPT ![p] = Append(Pop(vstack[p], 1), x)]
        /\ \/ Top(p) \in Sv /\ x = elem[Top(p)]
           \/ /\ Top(p) \in Closure /\ closure_ar[Top(p)] \in Ar
              /\ x = slot[closure_ar[Top(p)]]
  BY FetchedIsValue
<1>3. x \in InUse \cup {Null}
  <2>1. Top(p) \in InUse \cup {Null}
    BY <1>1, StackOf, HeapFacts
  <2>2. CASE Top(p) \in Sv /\ x = elem[Top(p)]
    <3>1. InUseSuccessors[Top(p)] = {x} \ {Null}
      BY <2>2, SuccessorsOf DEF SuccessorsAre
    <3>. QED BY <2>1, <2>2, <3>1, HeapFacts, Kinds
  <2>3. CASE /\ Top(p) \in Closure /\ closure_ar[Top(p)] \in Ar
             /\ x = slot[closure_ar[Top(p)]]
    <3>1. InUseSuccessors[Top(p)] = {closure_ar[Top(p)]} \ {Null}
      BY <2>3, SuccessorsOf DEF SuccessorsAre
    <3>2. closure_ar[Top(p)] \in InUse
      BY <2>1, <2>3, <3>1, HeapFacts, Kinds
    <3>3. x \in InUseSuccessors[closure_ar[Top(p)]] \cup {Null}
      BY <2>3, SuccessorsOf DEF SuccessorsAre
    <3>. QED BY <3>2, <3>3, HeapFacts
  <2>. QED BY <1>2, <2>2, <2>3
<1>4. RangeOf(vstack'[p]) \subseteq InUse \cup {Null}
  <2>1. /\ RangeOf(Append(Pop(vstack[p], 1), x)) = RangeOf(Pop(vstack[p], 1)) \cup {x}
        /\ RangeOf(Pop(vstack[p], 1)) \subseteq RangeOf(vstack[p])
    BY <1>1, StackOf, Pushed
  <2>. QED BY <1>1, <1>2, <1>3, <2>1, HeapFacts DEF Types
<1>5. \A q \in Proc : q # p => vstack'[q] = vstack[q]
  BY <1>2 DEF Types
<1>. QED BY <1>1, <1>4, <1>5, StackStepFreesNothing

(* What a variable in scope holds is in use.                               *)
LEMMA ScopeInUse ==
    ASSUME HeapInv, NEW p \in Proc, Executes(p)
    PROVE  \A a \in Scope(p) : a \in Ar /\ a \in InUse /\ slot[a] \in InUse \cup {Null}
<1>. USE DEF HeapInv
<1>1. /\ Scope(p) \subseteq Ar /\ current_ar[p] \in Ar /\ current_ar[p] \in InUse
  BY ScopeIsRecords, HeapFacts
<1>2. \A a \in Ar : InUseSuccessors[a] = {enclosing[a], slot[a]} \ {Null}
  BY SuccessorsOf DEF SuccessorsAre
<1>3. Scope(p) \subseteq InUse
  BY <1>1, <1>2, HeapFacts DEF Scope
<1>. QED BY <1>1, <1>2, <1>3, HeapFacts

LEMMA PushLocalFreesNothing ==
    ASSUME HeapInv, Types', HeapOnly', NEW p \in Proc, PushLocal(p)
    PROVE  NothingInUseIsFreed'
<1>. USE DEF HeapInv
<1>1. Executes(p) /\ OnlyStack
  BY DEF PushLocal
<1>2. PICK a \in Scope(p) : vstack' = [vstack EXCEPT ![p] = Append(vstack[p], slot[a])]
  BY DEF PushLocal, PushTo
<1>3. slot[a] \in InUse \cup {Null} /\ slot[a] \in Value
  BY <1>1, ScopeInUse, ScopeIsRecords
<1>4. RangeOf(vstack'[p]) \subseteq InUse \cup {Null}
  <2>1. RangeOf(Append(vstack[p], slot[a])) = RangeOf(vstack[p]) \cup {slot[a]}
    BY <1>3, StackOf, Pushed
  <2>. QED BY <1>1, <1>2, <1>3, <2>1, HeapFacts DEF Types
<1>5. \A q \in Proc : q # p => vstack'[q] = vstack[q]
  BY <1>2 DEF Types
<1>. QED BY <1>1, <1>4, <1>5, StackStepFreesNothing

LEMMA StoreFreesNothing ==
    ASSUME HeapInv, Types', HeapOnly', NEW p \in Proc, Store(p)
    PROVE  NothingInUseIsFreed'
<1>. USE DEF HeapInv
<1>1. PICK d \in Sv :
        /\ Executes(p) /\ Len(vstack[p]) > 1
        /\ elem' = [elem EXCEPT ![d] = Top(p)]
        /\ vstack' = [vstack EXCEPT ![p] = Pop(vstack[p], 2)]
        /\ UNCHANGED <<records, sv_head, closure_ar, current_ar, state, unset>>
  <2>1. Len(vstack[p]) > 1 /\ vstack[p][Len(vstack[p]) - 1] \in Sv
    BY DEF Store
  <2>. QED BY <2>1 DEF Store, procs
<1>2. /\ Top(p) \in InUse \cup {Null}
      /\ RangeOf(vstack'[p]) \subseteq InUse \cup {Null}
  <2>1. RangeOf(Pop(vstack[p], 2)) \subseteq RangeOf(vstack[p]) /\ Top(p) \in RangeOf(vstack[p])
    BY <1>1, StackOf, StorePops
  <2>. QED BY <1>1, <2>1, HeapFacts DEF Types
<1>3. ASSUME NEW m \in InUse PROVE InUseSuccessors'[m] \subseteq InUse
  <2>0. m \in Node
    BY InUseIsClosed
  <2>1. CASE m = d
    BY <1>1, <1>2, <2>1, SuccessorsOfNext DEF SuccessorsAre, Types
  <2>2. CASE m # d
    <3>1. SuccessorsStayAt(m)
      BY <1>1, <2>0, <2>2, SuccessorsStay, Kinds DEF records, Types
    <3>. QED BY <3>1, HeapFacts DEF SuccessorsStayAt
  <2>. QED BY <2>1, <2>2
<1>4. InUse \subseteq a_head' \cup sv_head' \cup Closure
  BY <1>1, HeapFacts DEF records
<1>5. /\ caller' = caller /\ current_ar' = current_ar /\ state' = state /\ state[p] # "none"
      /\ \A q \in Proc : q # p => vstack'[q] = vstack[q] /\ unset'[q] = unset[q]
      /\ ~unset'[p]
  BY <1>1, HeapFacts DEF records, Types
<1>6. RangeOf(IF unset'[p] THEN Pop(vstack'[p], 1) ELSE vstack'[p]) \ {Null} \subseteq InUse
  BY <1>2, <1>5
<1>7. InUse \cup {} = InUse
  OBVIOUS
<1>. QED BY <1>3, <1>4, <1>5, <1>6, <1>7, QuietStep

(* A step that stores something in use in a variable of the scope, and     *)
(* puts nothing else on the stack than what is in use.                     *)
LEMMA SlotStepFreesNothing ==
    ASSUME HeapInv, Types', HeapOnly', NEW p \in Proc, Executes(p),
           NEW a \in Scope(p), NEW x \in InUse \cup {Null},
           slot' = [slot EXCEPT ![a] = x],
           \A q \in Proc : q # p => vstack'[q] = vstack[q],
           RangeOf(vstack'[p]) \subseteq InUse \cup {Null},
           UNCHANGED <<a_head, caller, enclosing, values, closure_ar, current_ar, state, unset>>
    PROVE  NothingInUseIsFreed'
<1>. USE DEF HeapInv
<1>4. ASSUME NEW m \in InUse PROVE InUseSuccessors'[m] \subseteq InUse
  <2>0. m \in Node
    BY InUseIsClosed
  <2>1. CASE m = a
    <3>1. a \in Ar
      BY ScopeInUse
    <3>2. enclosing[a] \in InUse \cup {Null}
      BY <2>1, <3>1, HeapFacts, SuccessorsOf DEF SuccessorsAre
    <3>3. InUseSuccessors'[a] = {enclosing'[a], slot'[a]} \ {Null}
      BY <3>1, SuccessorsOfNext DEF SuccessorsAre
    <3>4. slot'[a] = x /\ enclosing'[a] = enclosing[a]
      BY <3>1 DEF Types
    <3>. QED BY <2>1, <3>2, <3>3, <3>4
  <2>2. CASE m # a
    <3>1. SuccessorsStayAt(m)
      BY <2>0, <2>2, SuccessorsStay, Kinds DEF values, Types
    <3>. QED BY <3>1, HeapFacts DEF SuccessorsStayAt
  <2>. QED BY <2>1, <2>2
<1>5. InUse \subseteq a_head' \cup sv_head' \cup Closure
  BY HeapFacts DEF values
<1>6. /\ caller' = caller /\ current_ar' = current_ar /\ state' = state /\ state[p] # "none"
      /\ \A q \in Proc : q # p => vstack'[q] = vstack[q] /\ unset'[q] = unset[q]
      /\ ~unset'[p]
  BY HeapFacts DEF Types, Executes
<1>7. RangeOf(IF unset'[p] THEN Pop(vstack'[p], 1) ELSE vstack'[p]) \ {Null} \subseteq InUse
  BY <1>6
<1>8. InUse \cup {} = InUse
  OBVIOUS
<1>. QED BY <1>4, <1>5, <1>6, <1>7, <1>8, QuietStep

LEMMA PopLocalFreesNothing ==
    ASSUME HeapInv, Types', HeapOnly', NEW p \in Proc, PopLocal(p)
    PROVE  NothingInUseIsFreed'
<1>. USE DEF HeapInv
<1>1. /\ Executes(p) /\ vstack[p] # <<>>
      /\ vstack' = [vstack EXCEPT ![p] = Pop(vstack[p], 1)]
      /\ UNCHANGED <<a_head, caller, enclosing, values, closure_ar, current_ar, state, unset>>
  BY DEF PopLocal, procs, HasTop
<1>2. PICK a \in Scope(p) : slot' = [slot EXCEPT ![a] = Top(p)]
  BY DEF PopLocal
<1>3. /\ Top(p) \in InUse \cup {Null}
      /\ RangeOf(vstack'[p]) \subseteq InUse \cup {Null}
  <2>1. RangeOf(Pop(vstack[p], 1)) \subseteq RangeOf(vstack[p]) /\ Top(p) \in RangeOf(vstack[p])
    BY <1>1, StackOf
  <2>. QED BY <1>1, <2>1, HeapFacts DEF Types
<1>4. \A q \in Proc : q # p => vstack'[q] = vstack[q]
  BY <1>1 DEF Types
<1>. QED BY <1>1, <1>2, <1>3, <1>4, SlotStepFreesNothing

(* What CALL and GOTO take from the stack and leave on it is in use.       *)
LEMMA CallTakes ==
    ASSUME HeapInv, NEW p \in Proc, MayCall(p)
    PROVE  /\ Top(p) \in InUse /\ Argument(p) \in InUse \cup {Null}
           /\ RangeOf(Pop(vstack[p], Arity + 1)) \subseteq InUse \cup {Null}
<1>. USE DEF HeapInv
<1>1. Executes(p) /\ Len(vstack[p]) > Arity /\ Top(p) \in Closure
  BY DEF MayCall
<1>2. /\ Top(p) \in RangeOf(vstack[p])
      /\ Argument(p) \in RangeOf(vstack[p]) \cup {Null}
      /\ RangeOf(Pop(vstack[p], Arity + 1)) \subseteq RangeOf(vstack[p])
  BY <1>1, StackOf
<1>. QED BY <1>1, <1>2, HeapFacts, Kinds

LEMMA GotoSameRecordFreesNothing ==
    ASSUME HeapInv, Types', HeapOnly', NEW p \in Proc, GotoSameRecord(p)
    PROVE  NothingInUseIsFreed'
<1>. USE DEF HeapInv
<1>1. PICK a :
        /\ MayCall(p) /\ a = current_ar[p]
        /\ slot' = IF Arity = 0 THEN slot ELSE [slot EXCEPT ![a] = Argument(p)]
        /\ vstack' = [vstack EXCEPT ![p] = Pop(vstack[p], Arity + 1)]
        /\ UNCHANGED <<a_head, caller, enclosing, values, closure_ar, current_ar, state, unset>>
  BY DEF GotoSameRecord, procs
<1>2. Executes(p) /\ a \in Ar /\ a \in Scope(p) /\ slot[a] \in InUse \cup {Null}
  <2>1. Executes(p)
    BY <1>1 DEF MayCall
  <2>2. a \in Ar
    BY <1>1, <2>1, HeapFacts
  <2>3. a \in Scope(p)
    BY <1>1, <2>2, Kinds DEF Scope
  <2>. QED BY <2>1, <2>2, <2>3, ScopeInUse
<1>3. PICK x \in InUse \cup {Null} : slot' = [slot EXCEPT ![a] = x]
  <2>1. CASE Arity = 0
    <3>1. slot' = [slot EXCEPT ![a] = slot[a]]
      BY <1>1, <1>2, <2>1 DEF Types
    <3>. QED BY <1>2, <3>1
  <2>2. CASE Arity # 0
    BY <1>1, <2>2, CallTakes
  <2>. QED BY <2>1, <2>2
<1>4. RangeOf(vstack'[p]) \subseteq InUse \cup {Null}
  <2>1. vstack'[p] = Pop(vstack[p], Arity + 1)
    BY <1>1 DEF Types
  <2>. QED BY <1>1, <2>1, CallTakes
<1>5. \A q \in Proc : q # p => vstack'[q] = vstack[q]
  BY <1>1 DEF Types
<1>. QED BY <1>1, <1>2, <1>3, <1>4, <1>5, SlotStepFreesNothing

(* The closure that PUSH_VALUE pushes is not yet in use: its scope may be  *)
(* a record that has been freed.                                           *)
LEMMA PushClosureFreesNothing ==
    ASSUME HeapInv, Types', HeapOnly', NEW p \in Proc, NEW k \in Closure, PushClosure(p, k)
    PROVE  NothingInUseIsFreed'
<1>. USE DEF HeapInv
<1>1. /\ Executes(p) /\ vstack' = [vstack EXCEPT ![p] = Append(vstack[p], k)]
      /\ unset' = [unset EXCEPT ![p] = TRUE]
      /\ UNCHANGED <<records, values, closure_ar, current_ar, state>>
  BY DEF PushClosure, PushTo, procs
<1>2. k \in Value
  BY Kinds
<1>3. vstack'[p] = Append(vstack[p], k) /\ unset'[p]
  BY <1>1 DEF Types
<1>4. RangeOf(Pop(Append(vstack[p], k), 1)) \subseteq RangeOf(vstack[p])
  <2>1. /\ vstack[p] \in Seq(Value) /\ Append(vstack[p], k) \in Seq(Value)
        /\ Len(Append(vstack[p], k)) = Len(vstack[p]) + 1 /\ Len(vstack[p]) \in Nat
        /\ \A i \in 1 .. Len(vstack[p]) : Append(vstack[p], k)[i] = vstack[p][i]
    BY <1>2, StackOf, AppendProperties
  <2>2. PICK t \in Seq(Value), l \in Nat :
           /\ t = Append(vstack[p], k) /\ l = Len(vstack[p]) /\ Len(t) = l + 1
           /\ \A i \in 1 .. l : t[i] \in RangeOf(vstack[p])
    BY <2>1, StackOf
  <2>3. 1 \in Nat /\ 1 <= Len(t) /\ Len(t) - 1 = l
    BY <2>2
  <2>4. /\ Pop(t, 1) \in Seq(Value) /\ Len(Pop(t, 1)) = l
        /\ \A i \in 1 .. l : Pop(t, 1)[i] = t[i]
    <3>1. /\ Pop(t, 1) \in Seq(Value) /\ Len(Pop(t, 1)) = Len(t) - 1
          /\ \A i \in 1 .. Len(t) - 1 : Pop(t, 1)[i] = t[i]
      BY <2>3, Popped
    <3>. QED BY <2>3, <3>1
  <2>5. DOMAIN Pop(t, 1) = 1 .. l
    BY <2>4
  <2>. QED BY <2>2, <2>4, <2>5 DEF RangeOf
<1>5. ASSUME NEW m \in InUse PROVE InUseSuccessors'[m] \subseteq InUse
  <2>1. m \in Node
    BY InUseIsClosed
  <2>2. SuccessorsStayAt(m)
    BY <1>1, <2>1, SuccessorsStay, Kinds DEF records, values, Types
  <2>. QED BY <2>2, HeapFacts DEF SuccessorsStayAt
<1>6. InUse \subseteq a_head' \cup sv_head' \cup Closure
  BY <1>1, HeapFacts DEF records, values
<1>7. /\ caller' = caller /\ current_ar' = current_ar /\ state' = state /\ state[p] # "none"
      /\ \A q \in Proc : q # p => vstack'[q] = vstack[q] /\ unset'[q] = unset[q]
  BY <1>1, HeapFacts DEF records, Types
<1>8. RangeOf(IF unset'[p] THEN Pop(vstack'[p], 1) ELSE vstack'[p]) \ {Null} \subseteq InUse
  BY <1>1, <1>3, <1>4, HeapFacts
<1>9. InUse \cup {} = InUse
  OBVIOUS
<1>. QED BY <1>5, <1>6, <1>7, <1>8, <1>9, QuietStep

LEMMA SetActivationFreesNothing ==
    ASSUME HeapInv, Types', HeapOnly', NEW p \in Proc, SetActivation(p)
    PROVE  NothingInUseIsFreed'
<1>. USE DEF HeapInv
<1>1. /\ state[p] = "awake" /\ unset[p] /\ vstack' = vstack
      /\ closure_ar' = [closure_ar EXCEPT ![Top(p)] = current_ar[p]]
      /\ unset' = [unset EXCEPT ![p] = FALSE]
      /\ UNCHANGED <<records, values, current_ar, state>>
  BY DEF SetActivation, procs
<1>2. Top(p) \in Closure /\ vstack[p] # <<>>
  BY <1>1 DEF HeapOnly
<1>3. current_ar[p] \in InUse
  BY <1>1, InUseIsClosed
<1>4. RangeOf(vstack[p]) \subseteq InUse \cup {Null} \cup {Top(p)}
  <2>1. RangeOf(Pop(vstack[p], 1)) \ {Null} \subseteq InUse
    BY <1>1, InUseIsClosed DEF InUseRoots
  <2>2. RangeOf(vstack[p]) \subseteq RangeOf(Pop(vstack[p], 1)) \cup {Top(p)}
    <3>1. vstack[p] \in Seq(Value) /\ Len(vstack[p]) \in Nat /\ Len(vstack[p]) >= 1
      BY <1>2, StackOf
    <3>2. /\ Pop(vstack[p], 1) \in Seq(Value)
          /\ Len(Pop(vstack[p], 1)) = Len(vstack[p]) - 1
          /\ \A i \in 1 .. Len(vstack[p]) - 1 : Pop(vstack[p], 1)[i] = vstack[p][i]
      BY <3>1, Popped
    <3>3. /\ DOMAIN vstack[p] = 1 .. Len(vstack[p])
          /\ DOMAIN Pop(vstack[p], 1) = 1 .. Len(vstack[p]) - 1
      BY <3>1, <3>2
    <3>4. \A i \in 1 .. Len(vstack[p]) : i \in 1 .. Len(vstack[p]) - 1 \/ i = Len(vstack[p])
      BY <3>1
    <3>. QED BY <3>2, <3>3, <3>4 DEF RangeOf, Top
  <2>. QED BY <2>1, <2>2
<1>5. ASSUME NEW m \in InUse \cup {Top(p)}
      PROVE  InUseSuccessors'[m] \subseteq InUse \cup {Top(p)}
  <2>1. CASE m = Top(p)
    <3>1. InUseSuccessors'[m] = {closure_ar'[m]} \ {Null}
      BY <1>2, <2>1, SuccessorsOfNext DEF SuccessorsAre
    <3>2. closure_ar'[m] = current_ar[p]
      BY <1>1, <1>2, <2>1 DEF Types
    <3>. QED BY <1>3, <3>1, <3>2
  <2>2. CASE m # Top(p)
    <3>1. m \in InUse /\ m \in Node
      BY <2>2, InUseIsClosed
    <3>2. SuccessorsStayAt(m)
      BY SMTT(30), <1>1, <2>2, <3>1, SuccessorsStay, Kinds DEF records, values, Types
    <3>. QED BY <3>1, <3>2, HeapFacts DEF SuccessorsStayAt
  <2>. QED BY <2>1, <2>2
<1>6. InUse \cup {Top(p)} \subseteq a_head' \cup sv_head' \cup Closure
  BY <1>1, <1>2, HeapFacts DEF records, values
<1>7. /\ caller' = caller /\ current_ar' = current_ar /\ state' = state /\ state[p] # "none"
      /\ \A q \in Proc : q # p => vstack'[q] = vstack[q] /\ unset'[q] = unset[q]
      /\ ~unset'[p]
  BY <1>1 DEF records, Types
<1>8. RangeOf(IF unset'[p] THEN Pop(vstack'[p], 1) ELSE vstack'[p]) \ {Null}
        \subseteq InUse \cup {Top(p)}
  BY <1>1, <1>4, <1>7
<1>. QED BY <1>5, <1>6, <1>7, <1>8, QuietStep

(* The chain of a process with a new record: it leads to the chain C, if   *)
(* anywhere.                                                               *)
LEMMA NewChain ==
    ASSUME Types, Types', NEW p \in Proc, NEW a \in Ar, NEW C \in SUBSET Ar,
           current_ar'[p] = a, caller'[a] \in C \cup {Null},
           \A m \in C : caller'[m] = caller[m] /\ Callers[m] \subseteq C
    PROVE  CallChain(p)' \subseteq C \cup {a}
<1> DEFINE T == C \cup {a}
<1>1. ASSUME NEW m \in T PROVE Callers'[m] \subseteq T
  <2>1. m \in Ar /\ Callers'[m] = {caller'[m]} \ {Null}
    BY SuccessorsOfNext DEF SuccessorsAre
  <2>2. CASE m \in C
    BY <2>1, <2>2, SuccessorsOf DEF SuccessorsAre
  <2>3. CASE m = a
    BY <2>1, <2>3
  <2>. QED BY <2>2, <2>3
<1>2. {current_ar'[p]} \subseteq T /\ T \subseteq Node
  BY Kinds
<1>3. CallChain(p)' = Reached({current_ar'[p]}, Callers')
  BY DEF CallChain, Reached
<1>. HIDE DEF T
<1>4. CallChain(p)' \subseteq T
  BY <1>1, <1>2, <1>3, ReachedIsLeast
<1>. QED BY <1>4 DEF T

(* A record that malloc returns is not in use.                             *)
LEMMA NewIsNotInUse ==
    ASSUME HeapInv, NEW a \in HeapAr, a \notin a_head
    PROVE  a \in Ar /\ a \notin InUse
BY HeapFacts, Kinds DEF HeapInv, Types

(* The successors after a record a has been filled.                        *)
LEMMA FilledSuccessors ==
    ASSUME HeapInv, Types', NEW a \in HeapAr, a \notin a_head,
           NEW c, NEW k \in Closure, NEW x, FillRecord(a, c, k, x),
           k \in InUse, x \in InUse \cup {Null},
           elem' = elem, closure_ar' = closure_ar
    PROVE  /\ \A m \in InUse \cup {a} : InUseSuccessors'[m] \subseteq InUse \cup {a}
           /\ caller'[a] = c /\ \A m \in Ar : m # a => caller'[m] = caller[m]
<1>. USE DEF HeapInv
<1>1. a \in Ar
  BY Kinds
<1>2. /\ caller' = [caller EXCEPT ![a] = c]
      /\ enclosing' = [enclosing EXCEPT ![a] = closure_ar[k]]
      /\ slot' = [slot EXCEPT ![a] = x]
  BY DEF FillRecord
<1>3. ASSUME NEW m \in InUse \cup {a} PROVE InUseSuccessors'[m] \subseteq InUse \cup {a}
  <2>1. CASE m = a
    <3>1. InUseSuccessors'[a] = {enclosing'[a], slot'[a]} \ {Null}
      BY <1>1, SuccessorsOfNext DEF SuccessorsAre
    <3>2. enclosing'[a] = closure_ar[k] /\ slot'[a] = x
      BY <1>1, <1>2 DEF Types
    <3>3. closure_ar[k] \in InUse \cup {Null}
      BY HeapFacts, SuccessorsOf DEF SuccessorsAre
    <3>. QED BY <2>1, <3>1, <3>2, <3>3
  <2>2. CASE m # a
    <3>1. m \in InUse /\ m \in Node
      BY <2>2, InUseIsClosed
    <3>2. SuccessorsStayAt(m)
      BY <1>2, <2>2, <3>1, SuccessorsStay, Kinds DEF Types
    <3>. QED BY <3>1, <3>2, HeapFacts DEF SuccessorsStayAt
  <2>. QED BY <2>1, <2>2
<1>. QED BY <1>1, <1>2, <1>3 DEF Types

(* A call, by CALL or GOTO, with a new record on the heap between the      *)
(* routine and the caller, which is in the chain of the process.           *)
LEMMA NewRecordFreesNothing ==
    ASSUME HeapInv, Types', HeapOnly', NEW p \in Proc, NEW a \in HeapAr, MayCall(p),
           NEW c \in CallChain(p) \cup {Null},
           NewOnHeap(a, c, Top(p), Argument(p)),
           current_ar' = [current_ar EXCEPT ![p] = a],
           vstack' = [vstack EXCEPT ![p] = Pop(vstack[p], Arity + 1)],
           UNCHANGED <<values, closure_ar, state, unset>>
    PROVE  NothingInUseIsFreed'
<1>. USE DEF HeapInv
<1>1. PICK k, x :
        /\ k \in Closure
        /\ Executes(p)
        /\ k = Top(p) /\ x = Argument(p)
        /\ a \notin a_head /\ a_head' = a_head \cup {a}
        /\ FillRecord(a, c, k, x)
  BY DEF MayCall, NewOnHeap
<1>2. /\ k \in InUse /\ x \in InUse \cup {Null}
      /\ RangeOf(Pop(vstack[p], Arity + 1)) \subseteq InUse \cup {Null}
  BY <1>1, CallTakes
<1>3. a \in Ar /\ a \notin InUse
  BY <1>1, NewIsNotInUse
<1>4. /\ \A m \in InUse \cup {a} : InUseSuccessors'[m] \subseteq InUse \cup {a}
      /\ caller'[a] = c /\ \A m \in Ar : m # a => caller'[m] = caller[m]
  BY <1>1, <1>2, FilledSuccessors DEF values
<1>5. InUse \cup {a} \subseteq a_head' \cup sv_head' \cup Closure
  BY <1>1, HeapFacts DEF values
<1>6. \A q \in Proc : state[q] # "none" =>
         /\ CallChain(q) \subseteq Ar /\ CallChain(q) \subseteq InUse
         /\ \A m \in CallChain(q) : caller'[m] = caller[m]
  BY <1>3, <1>4, CallChainOf, InUseIsClosed
<1>7. ASSUME NEW q \in Proc, state'[q] # "none"
      PROVE  InUseRoots(q)' \subseteq InUse \cup {a}
  <2>1. CASE q = p
    <3>1. /\ current_ar'[p] = a /\ ~unset'[p]
          /\ vstack'[p] = Pop(vstack[p], Arity + 1) /\ state[p] # "none"
      BY <1>1, HeapFacts DEF Types
    <3>2. CallChain(p)' \subseteq CallChain(p) \cup {a}
      BY <1>3, <1>4, <1>6, <3>1, CallChainOf, NewChain
    <3>3. mailbox'[p] = <<>>
      BY DEF HeapOnly
    <3>4. RangeOf(IF unset'[p] THEN Pop(vstack'[p], 1) ELSE vstack'[p]) \ {Null}
            \subseteq InUse \cup {a}
      BY <1>2, <3>1
    <3>5. CallChain(p)' \subseteq InUse \cup {a}
      BY <1>6, <3>1, <3>2
    <3>. QED BY <2>1, <3>3, <3>4, <3>5, RootsWithin
  <2>2. CASE q # p
    <3>1. /\ current_ar'[q] = current_ar[q] /\ vstack'[q] = vstack[q]
          /\ unset'[q] = unset[q] /\ state[q] # "none"
      BY <1>1, <1>7, <2>2 DEF Types
    <3>. QED BY <1>6, <3>1, RootsStay
  <2>. QED BY <2>1, <2>2
<1>8. InUse \cup {a} \subseteq Node
  BY <1>3, InUseIsClosed, Kinds
<1>. QED BY <1>4, <1>5, <1>7, <1>8, NothingFreedAfter

(* The caller of a call is the current record, that of a tail call the     *)
(* caller of the current record.                                           *)
LEMMA CallOnHeapFreesNothing ==
    ASSUME HeapInv, Types', HeapOnly', NEW p \in Proc, NEW a \in HeapAr,
           CallOnHeap(p, a) \/ GotoOnHeap(p, a)
    PROVE  NothingInUseIsFreed'
<1>. USE DEF HeapInv
<1>1. MayCall(p) /\ Executes(p) /\ state[p] # "none"
  BY DEF CallOnHeap, GotoOnHeap, MayCall, Executes
<1>2. /\ current_ar[p] \in Ar /\ current_ar[p] \in CallChain(p)
      /\ Callers[current_ar[p]] \subseteq CallChain(p)
  BY <1>1, CallChainOf
<1>3. caller[current_ar[p]] \in CallChain(p) \cup {Null}
  BY <1>2, SuccessorsOf DEF SuccessorsAre
<1>4. CASE CallOnHeap(p, a)
  BY <1>1, <1>2, <1>4, NewRecordFreesNothing DEF CallOnHeap, procs
<1>5. CASE GotoOnHeap(p, a)
  BY <1>1, <1>3, <1>5, NewRecordFreesNothing DEF GotoOnHeap, procs
<1>. QED BY <1>4, <1>5

(* A new process has nothing but its record.                               *)
LEMMA SpawnFreesNothing ==
    ASSUME HeapInv, Types', HeapOnly', NEW p \in Proc, NEW q \in Proc, NEW a \in HeapAr,
           Spawn(p, q, a)
    PROVE  NothingInUseIsFreed'
<1>. USE DEF HeapInv
<1>1. PICK k \in Closure :
        /\ Executes(p) /\ vstack[p] # <<>> /\ k = Top(p)
        /\ state[q] = "none" /\ q # p
        /\ a \notin a_head /\ a_head' = a_head \cup {a}
        /\ FillRecord(a, Null, k, Null)
        /\ state' = [state EXCEPT ![q] = "awake"]
        /\ current_ar' = [current_ar EXCEPT ![q] = a]
        /\ vstack' = [vstack EXCEPT ![p] = Pop(vstack[p], 1), ![q] = <<>>]
        /\ UNCHANGED <<values, closure_ar, unset>>
  BY DEF Spawn, NewOnHeap, HasTop, Executes
<1>2. k \in InUse /\ RangeOf(Pop(vstack[p], 1)) \subseteq InUse \cup {Null}
  <2>1. Top(p) \in RangeOf(vstack[p]) /\ RangeOf(Pop(vstack[p], 1)) \subseteq RangeOf(vstack[p])
    BY <1>1, StackOf
  <2>. QED BY <1>1, <2>1, HeapFacts, Kinds
<1>3. a \in Ar /\ a \notin InUse
  BY <1>1, NewIsNotInUse
<1>4. /\ \A m \in InUse \cup {a} : InUseSuccessors'[m] \subseteq InUse \cup {a}
      /\ caller'[a] = Null /\ \A m \in Ar : m # a => caller'[m] = caller[m]
  BY <1>1, <1>2, FilledSuccessors DEF values
<1>5. InUse \cup {a} \subseteq a_head' \cup sv_head' \cup Closure
  BY <1>1, HeapFacts DEF values
<1>6. \A r \in Proc : state[r] # "none" =>
         /\ CallChain(r) \subseteq InUse
         /\ \A m \in CallChain(r) : caller'[m] = caller[m]
  BY <1>3, <1>4, CallChainOf, InUseIsClosed
<1>7. ASSUME NEW r \in Proc, state'[r] # "none"
      PROVE  InUseRoots(r)' \subseteq InUse \cup {a}
  <2>0. mailbox'[r] = <<>>
    BY DEF HeapOnly
  <2>1. CASE r = p
    <3>1. /\ current_ar'[p] = current_ar[p] /\ ~unset'[p]
          /\ vstack'[p] = Pop(vstack[p], 1) /\ state[p] # "none"
      BY <1>1, HeapFacts DEF Types
    <3>2. CallChain(p)' \subseteq InUse \cup {a}
      BY <1>6, <3>1, ChainStays
    <3>3. RangeOf(IF unset'[p] THEN Pop(vstack'[p], 1) ELSE vstack'[p]) \ {Null}
            \subseteq InUse \cup {a}
      BY <1>2, <3>1
    <3>. QED BY <2>0, <2>1, <3>2, <3>3, RootsWithin
  <2>2. CASE r = q
    <3>1. current_ar'[q] = a /\ vstack'[q] = <<>> /\ ~unset'[q]
      BY <1>1 DEF Types, HeapOnly
    <3>2. CallChain(q)' \subseteq {} \cup {a}
      BY <1>3, <1>4, <3>1, NewChain
    <3>3. RangeOf(vstack'[q]) = {}
      BY <3>1 DEF RangeOf
    <3>4. RangeOf(IF unset'[q] THEN Pop(vstack'[q], 1) ELSE vstack'[q]) \ {Null}
            \subseteq InUse \cup {a}
      BY <3>1, <3>3
    <3>. QED BY <2>0, <2>2, <3>2, <3>4, RootsWithin
  <2>3. CASE r # p /\ r # q
    <3>1. /\ current_ar'[r] = current_ar[r] /\ vstack'[r] = vstack[r]
          /\ unset'[r] = unset[r] /\ state[r] # "none"
      BY <1>1, <1>7, <2>3 DEF Types
    <3>. QED BY <1>6, <3>1, RootsStay
  <2>. QED BY <2>1, <2>2, <2>3
<1>8. InUse \cup {a} \subseteq Node
  BY <1>3, InUseIsClosed, Kinds
<1>. QED BY <1>4, <1>5, <1>7, <1>8, NothingFreedAfter

(* When memory does not change, the rest is about the roots.               *)
LEMMA MemoryStays ==
    ASSUME HeapInv, Types', HeapOnly', UNCHANGED <<records, values, closure_ar>>,
           \A p \in Proc : state'[p] # "none" => InUseRoots(p)' \subseteq InUse
    PROVE  NothingInUseIsFreed'
<1>. USE DEF HeapInv
<1>1. ASSUME NEW m \in InUse PROVE InUseSuccessors'[m] \subseteq InUse
  <2>1. m \in Node
    BY InUseIsClosed
  <2>2. SuccessorsStayAt(m)
    BY <2>1, SuccessorsStay, Kinds DEF records, values, Types
  <2>. QED BY <2>2, HeapFacts DEF SuccessorsStayAt
<1>2. InUse \subseteq a_head' \cup sv_head' \cup Closure
  BY HeapFacts DEF records, values
<1>3. InUse \cup {} = InUse
  OBVIOUS
<1>. QED BY <1>1, <1>2, <1>3, InUseIsClosed, NothingFreedAfter

LEMMA EndsFreesNothing ==
    ASSUME HeapInv, Types', HeapOnly', NEW p \in Proc, Ends(p),
           NEW c, current_ar' = [current_ar EXCEPT ![p] = c],
           UNCHANGED <<records, values, closure_ar, unset>>
    PROVE  NothingInUseIsFreed'
<1>. USE DEF HeapInv
<1>1. ASSUME NEW q \in Proc, state'[q] # "none" PROVE InUseRoots(q)' \subseteq InUse
  <2>1. /\ current_ar'[q] = current_ar[q] /\ vstack'[q] = vstack[q]
        /\ unset'[q] = unset[q] /\ state[q] # "none"
    BY <1>1 DEF Types, Ends
  <2>. QED BY <2>1, RootsStay DEF records
<1>. QED BY <1>1, MemoryStays

LEMMA RetFreesNothing ==
    ASSUME HeapInv, Types', HeapOnly', NEW p \in Proc, Ret(p)
    PROVE  NothingInUseIsFreed'
<1>. USE DEF HeapInv
<1>1. PICK c :
        /\ Executes(p) /\ c = caller[current_ar[p]]
        /\ current_ar' = [current_ar EXCEPT ![p] = c]
        /\ c = Null => Ends(p)
        /\ c # Null => UNCHANGED <<state, vstack>>
        /\ UNCHANGED <<records, values, closure_ar, unset>>
  BY DEF Ret, procs
<1>2. CASE c = Null
  BY <1>1, <1>2, EndsFreesNothing
<1>3. CASE c # Null
  <2>1. ASSUME NEW q \in Proc, state'[q] # "none" PROVE InUseRoots(q)' \subseteq InUse
    <3>1. vstack'[q] = vstack[q] /\ unset'[q] = unset[q] /\ state[q] # "none"
      BY <1>1, <1>3, <2>1
    <3>2. CASE q # p
      <4>1. current_ar'[q] = current_ar[q]
        BY <1>1, <3>2 DEF Types
      <4>. QED BY <1>1, <3>1, <4>1, RootsStay DEF records
    <3>3. CASE q = p
      <4>1. current_ar'[p] \in CallChain(p)
        <5>1. /\ current_ar[p] \in Ar /\ current_ar[p] \in CallChain(p)
              /\ Callers[current_ar[p]] \subseteq CallChain(p)
          BY <3>1, <3>3, CallChainOf
        <5>2. c \in CallChain(p)
          BY <1>1, <1>3, <5>1, SuccessorsOf DEF SuccessorsAre
        <5>. QED BY <1>1, <5>2 DEF Types
      <4>2. CallChain(p)' \subseteq InUse
        BY <1>1, <3>1, <3>3, <4>1, ChainStays, InUseIsClosed DEF records
      <4>3. RangeOf(IF unset'[p] THEN Pop(vstack'[p], 1) ELSE vstack'[p]) \ {Null}
              \subseteq InUse
        BY <1>1, <3>1, <3>3, HeapFacts
      <4>4. mailbox'[p] = <<>>
        BY DEF HeapOnly
      <4>. QED BY <3>3, <4>2, <4>3, <4>4, RootsWithin
    <3>. QED BY <3>2, <3>3
  <2>. QED BY <1>1, <2>1, MemoryStays
<1>. QED BY <1>2, <1>3

(* The invariant as a whole.                                               *)
LEMMA HeapNext ==
    ASSUME HeapProgram, HeapInv, [Next]_vars
    PROVE  HeapInv'
<1>. USE DEF HeapInv
<1>1. Types' /\ StringsHoldNothing' /\ HeapOnly'
  BY NextTypes, StringsStayEmpty, HeapOnlyStays
<1>2. ASSUME NEW p \in Proc
      PROVE  /\ \A v \in Sv : PushString(p, v) => NothingInUseIsFreed'
             /\ \A v \in Sv : ~PushFolded(p, v)
             /\ \A v \in Sv, k \in Containers : Wrap(p, v, k) => NothingInUseIsFreed'
             /\ \A k \in Closure : PushClosure(p, k) => NothingInUseIsFreed'
             /\ \/ Fetch(p) \/ Store(p) \/ PushLocal(p) \/ PopLocal(p)
                \/ SetActivation(p)
                => NothingInUseIsFreed'
  <2>1. \A v \in Sv : PushString(p, v) => NothingInUseIsFreed'
    BY <1>1, PushStringFreesNothing
  <2>2. \A v \in Sv : ~PushFolded(p, v)
    BY DEF PushFolded, HeapProgram
  <2>3. \A v \in Sv, k \in Containers : Wrap(p, v, k) => NothingInUseIsFreed'
    BY <1>1, WrapFreesNothing
  <2>. QED BY <1>1, <2>1, <2>2, <2>3, FetchFreesNothing, StoreFreesNothing,
              PushLocalFreesNothing, PopLocalFreesNothing, PushClosureFreesNothing,
              SetActivationFreesNothing
<1>3. ASSUME NEW p \in Proc
      PROVE  /\ \A a \in HeapAr : CallOnHeap(p, a) => NothingInUseIsFreed'
             /\ \A a \in HeapAr : GotoOnHeap(p, a) => NothingInUseIsFreed'
             /\ ~CallOnStack(p) /\ ~GotoOnStack(p)
             /\ GotoSameRecord(p) => NothingInUseIsFreed'
             /\ Ret(p) => NothingInUseIsFreed'
             /\ Halt(p) => NothingInUseIsFreed'
             /\ \A q \in Proc, a \in HeapAr : Spawn(p, q, a) => NothingInUseIsFreed'
             /\ \A q \in Proc : ~Send(p, q)
             /\ ~Recv(p)
  <2>1. \A a \in HeapAr : CallOnHeap(p, a) \/ GotoOnHeap(p, a) => NothingInUseIsFreed'
    BY <1>1, CallOnHeapFreesNothing
  <2>2. ~CallOnStack(p) /\ ~GotoOnStack(p) /\ ~Recv(p)
    BY DEF CallOnStack, GotoOnStack, OnHeap, Recv, HeapProgram
  <2>3. \A q \in Proc : ~Send(p, q)
    BY DEF Send, HeapProgram, HeapOnly
  <2>4. ASSUME Halt(p) PROVE NothingInUseIsFreed'
    BY <1>1, <2>4, EndsFreesNothing DEF Halt
  <2>5. \A q \in Proc, a \in HeapAr : Spawn(p, q, a) => NothingInUseIsFreed'
    BY <1>1, SpawnFreesNothing
  <2>. QED BY <1>1, <2>1, <2>2, <2>3, <2>4, <2>5, RetFreesNothing,
              GotoSameRecordFreesNothing
<1>4. ASSUME Collect PROVE NothingInUseIsFreed'
  <2>1. \A p \in Proc : RangeOf(mailbox[p]) = {}
    BY DEF HeapOnly, RangeOf
  <2>2. Collectable
    BY <2>1 DEF Collectable, HeapOnly
  <2>. QED BY <1>4, <2>2, InUseIsMarked, CollectKeepsMarked
<1>5. ASSUME UNCHANGED vars PROVE NothingInUseIsFreed'
  <2>1. UNCHANGED <<records, values, closure_ar, state, current_ar, vstack, unset>>
    BY <1>5 DEF vars, procs
  <2>2. \A p \in Proc : state'[p] # "none" => InUseRoots(p)' \subseteq InUse
    BY <1>1, <2>1, RootsStay DEF records
  <2>. QED BY <1>1, <2>1, <2>2, MemoryStays
<1>6. NothingInUseIsFreed'
  BY <1>2, <1>3, <1>4, <1>5 DEF Next
<1>. QED BY <1>1, <1>6

(* A program whose records are all on the heap (NO_AR_STACK), that makes   *)
(* no dictionary, sends no message and has no list computed from           *)
(* constants, never loses what it can still get at: the collector frees    *)
(* nothing of it, in any interleaving of any number of processes.          *)
THEOREM NothingInUseIsLost ==
    ASSUME HeapProgram PROVE Spec => []NothingInUseIsFreed
<1>1. Init => HeapInv
  BY HeapInit
<1>2. HeapInv /\ [Next]_vars => HeapInv'
  BY HeapNext
<1>3. HeapInv => NothingInUseIsFreed
  BY DEF HeapInv
<1>. QED BY <1>1, <1>2, <1>3, PTL DEF Spec

(***************************************************************************)
(* The frames of the activation stacks                                     *)
(***************************************************************************)

(* What a process returns to after the record in its d-th frame. *)
Below(p, d) == Reached(Callers[Frame[p][d]], Callers)

(* The frames that are taken are those of the call chain, and below each   *)
(* of them the chain goes on with the frames below it.                     *)
FramesFit(p) ==
    /\ astack[p] \in 0 .. Len(Frame[p])
    /\ state[p] = "none" => astack[p] = 0
    /\ state[p] # "none" =>
          /\ CallChain(p) \cap StackAr = FramesOf(p, astack[p])
          /\ \A d \in 1 .. astack[p] : Below(p, d) \cap StackAr = FramesOf(p, d - 1)

FrameInv == \A p \in Proc : FramesFit(p)

(* Different frames have different addresses.                              *)
LEMMA FramesDiffer ==
    ASSUME NEW p \in Proc, NEW n \in 0 .. Len(Frame[p])
    PROVE  /\ FramesOf(p, n) \subseteq StackAr
           /\ \A q \in Proc : \A d \in 1 .. Len(Frame[q]) :
                 Frame[q][d] \in FramesOf(p, n) <=> q = p /\ d <= n
<1>1. Len(Frame[p]) \in Nat /\ DOMAIN Frame[p] = 1 .. Len(Frame[p])
  BY Frames
<1>2. \A e \in 1 .. n : e \in DOMAIN Frame[p]
  BY <1>1
<1>3. FramesOf(p, n) \subseteq StackAr
  BY <1>2, Frames DEF FramesOf
<1>4. ASSUME NEW q \in Proc, NEW d \in 1 .. Len(Frame[q]), Frame[q][d] \in FramesOf(p, n)
      PROVE  q = p /\ d <= n
  <2>1. PICK e \in 1 .. n : Frame[q][d] = Frame[p][e]
    BY <1>4 DEF FramesOf
  <2>2. d \in DOMAIN Frame[q] /\ e \in DOMAIN Frame[p]
    BY <1>2, Frames
  <2>3. q = p /\ d = e
    BY <2>1, <2>2, FrameAssumption
  <2>4. e <= n
    BY <1>1
  <2>. QED BY <2>3, <2>4
<1>5. ASSUME NEW d \in 1 .. Len(Frame[p]), d <= n PROVE Frame[p][d] \in FramesOf(p, n)
  <2>1. d \in 1 .. n
    BY <1>1, <1>5
  <2>. QED BY <2>1 DEF FramesOf
<1>. QED BY <1>3, <1>4, <1>5

(* The records a process returns to are allocated.                         *)
LEMMA ChainIsAllocated ==
    ASSUME Types, FrameInv, NothingInUseIsFreed, NEW p \in Proc, state[p] # "none",
           NEW m \in CallChain(p)
    PROVE  m \in a_head \/ \E q \in Proc : m \in FramesOf(q, astack[q])
<1>1. m \in Ar /\ m \in InUse
  BY CallChainOf, InUseIsClosed
<1>2. m \notin sv_head \cup Closure
  BY <1>1, Kinds DEF Types
<1>. QED BY <1>1, <1>2, AllocatedIs DEF AllocatedAre, NothingInUseIsFreed

(* No chain holds a record before malloc or a call has given it out.       *)
LEMMA NewInNoChain ==
    ASSUME Types, FrameInv, NothingInUseIsFreed, NEW p \in Proc, state[p] # "none"
    PROVE  /\ \A a \in HeapAr : a \notin a_head => a \notin CallChain(p)
           /\ \A q \in Proc : astack[q] + 1 \in 1 .. Len(Frame[q])
                 => Frame[q][astack[q] + 1] \notin CallChain(p)
<1>1. ASSUME NEW a \in HeapAr, a \notin a_head PROVE a \notin CallChain(p)
  <2>1. \A q \in Proc : a \notin FramesOf(q, astack[q])
    <3>1. \A q \in Proc : FramesOf(q, astack[q]) \subseteq StackAr
      BY FramesDiffer DEF FrameInv, FramesFit
    <3>. QED BY <3>1, Kinds
  <2>. QED BY <1>1, <2>1, ChainIsAllocated
<1>2. ASSUME NEW q \in Proc, astack[q] + 1 \in 1 .. Len(Frame[q])
      PROVE  Frame[q][astack[q] + 1] \notin CallChain(p)
  <2> DEFINE a == Frame[q][astack[q] + 1]
  <2>1. a \in StackAr
    BY <1>2, Frames
  <2>2. a \notin a_head
    BY <2>1, Kinds DEF Types
  <2>3. \A r \in Proc : a \notin FramesOf(r, astack[r])
    <3>1. astack[q] \in Nat
      BY Frames DEF FrameInv, FramesFit
    <3>2. ~(astack[q] + 1 <= astack[q])
      BY <3>1
    <3>3. ASSUME NEW r \in Proc PROVE a \notin FramesOf(r, astack[r])
      <4>1. astack[r] \in 0 .. Len(Frame[r])
        BY DEF FrameInv, FramesFit
      <4>. QED BY <1>2, <3>2, <4>1, FramesDiffer
    <3>. QED BY <3>3
  <2>. QED BY <2>2, <2>3, ChainIsAllocated
<1>. QED BY <1>1, <1>2

(* The chains are in use and made of records, also after a step.           *)
ChainsInUse ==
    \A p \in Proc : state[p] # "none" => CallChain(p) \subseteq InUse /\ CallChain(p) \subseteq Ar

LEMMA Chains == Types => ChainsInUse
BY CallChainOf, InUseIsClosed DEF ChainsInUse

LEMMA ChainsNext == Types' => ChainsInUse'
BY Chains, PTL

(* A step that leaves the callers in a chain alone leaves what is reached  *)
(* in it alone.                                                            *)
LEMMA ChainTheSame ==
    ASSUME Types, Types', NEW p \in Proc, state[p] # "none",
           \A m \in CallChain(p) : Callers'[m] = Callers[m]
    PROVE  /\ Reached({current_ar[p]}, Callers') = CallChain(p)
           /\ \A m \in CallChain(p) :
                 Reached(Callers'[m], Callers') = Reached(Callers[m], Callers)
<1>1. /\ current_ar[p] \in Node /\ CallChain(p) \subseteq Node
      /\ \A m \in CallChain(p) : Callers[m] \subseteq CallChain(p)
      /\ CallChain(p) = Reached({current_ar[p]}, Callers)
  BY CallChainOf, Kinds DEF CallChain
<1>2. \A m \in Node : Callers[m] \subseteq Node /\ Callers'[m] \subseteq Node
  BY SuccessorsOf, SuccessorsOfNext DEF SuccessorsAre
<1>3. PICK s, t : s = Callers /\ t = Callers'
  OBVIOUS
<1>4. \A m \in Node : s[m] \subseteq Node /\ t[m] \subseteq Node
  BY <1>2, <1>3
<1>5. Reached({current_ar[p]}, t) = Reached({current_ar[p]}, s)
  <2>1. {current_ar[p]} \subseteq Node
    BY <1>1
  <2>2. \A m \in Reached({current_ar[p]}, s) : t[m] = s[m]
    BY <1>1, <1>3
  <2>. QED BY <1>4, <2>1, <2>2, ReachedTheSame
<1>6. ASSUME NEW m \in CallChain(p) PROVE Reached(t[m], t) = Reached(s[m], s)
  <2>1. s[m] \subseteq Reached({current_ar[p]}, s)
    BY <1>1, <1>3, <1>6
  <2>2. {current_ar[p]} \subseteq Node
    BY <1>1
  <2>3. Reached(s[m], s) \subseteq Reached({current_ar[p]}, s)
    BY <1>4, <2>1, <2>2, ReachedFromReached
  <2>4. \A n \in Reached(s[m], s) : t[n] = s[n]
    BY <1>1, <1>3, <2>3
  <2>5. s[m] \subseteq Node /\ t[m] = s[m]
    BY <1>1, <1>3, <1>6
  <2>6. Reached(s[m], t) = Reached(s[m], s)
    BY <1>4, <2>4, <2>5, ReachedTheSame
  <2>. QED BY <2>5, <2>6
<1>. QED BY <1>1, <1>3, <1>5, <1>6

LEMMA FramesInChain ==
    ASSUME Types, FrameInv, NEW p \in Proc, state[p] # "none"
    PROVE  \A d \in 1 .. astack[p] : Frame[p][d] \in CallChain(p)
<1>1. ASSUME NEW d \in 1 .. astack[p] PROVE Frame[p][d] \in CallChain(p)
  <2>1. Frame[p][d] \in FramesOf(p, astack[p])
    BY <1>1 DEF FramesOf
  <2>. QED BY <2>1 DEF FrameInv, FramesFit
<1>. QED BY <1>1

(* The frames of a process that a step leaves alone.                       *)
LEMMA FramesStay ==
    ASSUME Types, Types', FrameInv, NEW p \in Proc, state[p] # "none", state'[p] # "none",
           current_ar'[p] = current_ar[p], astack'[p] = astack[p],
           \A m \in CallChain(p) : Callers'[m] = Callers[m]
    PROVE  FramesFit(p)'
<1>1. CallChain(p)' = CallChain(p)
  <2>1. CallChain(p)' = Reached({current_ar'[p]}, Callers')
    BY DEF CallChain, Reached
  <2>. QED BY <2>1, ChainTheSame
<1>2. \A d \in 1 .. astack[p] : Below(p, d)' = Below(p, d)
  <2>1. \A d \in 1 .. astack[p] : Below(p, d)' = Reached(Callers'[Frame[p][d]], Callers')
    BY DEF Below, Reached
  <2>. QED BY <2>1, FramesInChain, ChainTheSame DEF Below
<1>. QED BY <1>1, <1>2 DEF FrameInv, FramesFit, FramesOf

(* A process that is put to sleep or woken keeps its frames. *)
LEMMA OnlyStatesChange ==
    ASSUME Types, Types', FrameInv,
           caller' = caller, current_ar' = current_ar, astack' = astack,
           \A p \in Proc : state'[p] = state[p] \/ (state'[p] # "none" /\ state[p] # "none")
    PROVE  FrameInv'
<1>1. Callers' = Callers
  BY DEF Callers
<1>2. ASSUME NEW p \in Proc PROVE FramesFit(p)'
  <2>1. CASE state[p] = "none"
    BY <2>1 DEF FrameInv, FramesFit
  <2>2. CASE state[p] # "none"
    BY <1>1, <2>2, FramesStay
  <2>. QED BY <2>1, <2>2
<1>. QED BY <1>2 DEF FrameInv

(* A call whose record malloc returns or that takes the next frame: the    *)
(* chain of the caller goes on below the new record.                       *)
LEMMA CallExtendsChain ==
    ASSUME Types, Types', NEW p \in Proc, state[p] # "none", NEW a \in Ar,
           current_ar'[p] = a, caller'[a] = current_ar[p],
           \A m \in CallChain(p) : Callers'[m] = Callers[m]
    PROVE  /\ Reached(Callers'[a], Callers') = CallChain(p)
           /\ CallChain(p)' = {a} \cup CallChain(p)
<1>1. Callers'[a] = {current_ar[p]}
  <2>1. Callers'[a] = {caller'[a]} \ {Null}
    BY SuccessorsOfNext DEF SuccessorsAre
  <2>. QED BY <2>1, CallChainOf, Kinds
<1>2. Reached(Callers'[a], Callers') = CallChain(p)
  BY <1>1, ChainTheSame
<1>3. CallChain(p)' = Reached({a}, Callers')
  BY DEF CallChain, Reached
<1>4. Reached({a}, Callers') = {a} \cup Reached(Callers'[a], Callers')
  <2>1. \A m \in Node : Callers'[m] \subseteq Node
    BY SuccessorsOfNext DEF SuccessorsAre
  <2>2. PICK t : t = Callers'
    OBVIOUS
  <2>3. a \in Node
    BY Kinds
  <2>. QED BY <2>1, <2>2, <2>3, ReachedFromOne
<1>. QED BY <1>2, <1>3, <1>4

(* Filling a record changes the callers of no other.                       *)
LEMMA FilledCallers ==
    ASSUME Types, Types', NEW a \in Ar, NEW c, caller' = [caller EXCEPT ![a] = c]
    PROVE  \A m \in Ar : m # a => Callers'[m] = Callers[m]
<1>1. ASSUME NEW m \in Ar, m # a PROVE Callers'[m] = Callers[m]
  <2>1. Callers[m] = {caller[m]} \ {Null}
    BY SuccessorsOf DEF SuccessorsAre
  <2>2. Callers'[m] = {caller'[m]} \ {Null}
    BY SuccessorsOfNext DEF SuccessorsAre
  <2>3. caller'[m] = caller[m]
    BY <1>1 DEF Types
  <2>. QED BY <2>1, <2>2, <2>3
<1>. QED BY <1>1

(* A tail call: the chain below the record it leaves goes on below the new *)
(* one.                                                                    *)
LEMMA GotoExtendsChain ==
    ASSUME Types, Types', NEW p \in Proc, state[p] # "none", NEW a \in Ar,
           current_ar'[p] = a, caller'[a] = caller[current_ar[p]],
           \A m \in CallChain(p) : Callers'[m] = Callers[m]
    PROVE  /\ Reached(Callers'[a], Callers') = Reached(Callers[current_ar[p]], Callers)
           /\ CallChain(p)' = {a} \cup Reached(Callers[current_ar[p]], Callers)
<1>1. current_ar[p] \in CallChain(p) /\ current_ar[p] \in Ar
  BY CallChainOf
<1>2. Callers'[a] = Callers'[current_ar[p]]
  <2>1. Callers'[a] = {caller'[a]} \ {Null}
    BY SuccessorsOfNext DEF SuccessorsAre
  <2>2. Callers[current_ar[p]] = {caller[current_ar[p]]} \ {Null}
    BY <1>1, SuccessorsOf DEF SuccessorsAre
  <2>. QED BY <1>1, <2>1, <2>2
<1>3. Reached(Callers'[current_ar[p]], Callers') = Reached(Callers[current_ar[p]], Callers)
  BY <1>1, ChainTheSame
<1>4. CallChain(p)' = Reached({a}, Callers')
  BY DEF CallChain, Reached
<1>5. Reached({a}, Callers') = {a} \cup Reached(Callers'[a], Callers')
  <2>1. \A m \in Node : Callers'[m] \subseteq Node
    BY SuccessorsOfNext DEF SuccessorsAre
  <2>2. PICK t : t = Callers'
    OBVIOUS
  <2>3. a \in Node
    BY Kinds
  <2>. QED BY <2>1, <2>2, <2>3, ReachedFromOne
<1>. QED BY <1>2, <1>3, <1>4, <1>5

(* The current record and what is below it: if it is in a frame, then in   *)
(* the top one.                                                            *)
LEMMA TopFrame ==
    ASSUME Types, FrameInv, NEW p \in Proc, state[p] # "none"
    PROVE  /\ astack[p] \in Nat /\ astack[p] \in 0 .. Len(Frame[p])
           /\ current_ar[p] \notin StackAr =>
                 Reached(Callers[current_ar[p]], Callers) \cap StackAr = FramesOf(p, astack[p])
           /\ current_ar[p] \in StackAr =>
                 /\ astack[p] \in 1 .. Len(Frame[p])
                 /\ current_ar[p] = Frame[p][astack[p]]
                 /\ Reached(Callers[current_ar[p]], Callers) \cap StackAr
                       = FramesOf(p, astack[p] - 1)
<1>0. PICK n, a, R :
        n = astack[p] /\ a = current_ar[p] /\ R = Reached(Callers[a], Callers)
  OBVIOUS
<1>1. /\ a \in Ar /\ a \in Node /\ n \in 0 .. Len(Frame[p]) /\ n \in Nat
      /\ Len(Frame[p]) \in Nat
      /\ CallChain(p) \cap StackAr = FramesOf(p, n)
  BY <1>0, CallChainOf, Frames, Kinds DEF FrameInv, FramesFit
<1>2. CallChain(p) = {a} \cup R
  <2>1. \A m \in Node : Callers[m] \subseteq Node
    BY SuccessorsOf DEF SuccessorsAre
  <2>. QED BY <1>0, <1>1, <2>1, ReachedFromOne DEF CallChain
<1>3. CASE a \notin StackAr
  BY <1>0, <1>1, <1>2, <1>3
<1>4. CASE a \in StackAr
  <2>1. PICK d \in 1 .. n : a = Frame[p][d]
    BY <1>1, <1>2, <1>4 DEF FramesOf
  <2>2. R \cap StackAr = FramesOf(p, d - 1)
    BY <1>0, <2>1 DEF FrameInv, FramesFit, Below
  <2>3. /\ n \in 1 .. Len(Frame[p]) /\ d - 1 \in 0 .. Len(Frame[p])
        /\ d \in 1 .. Len(Frame[p])
    BY <1>1, <2>1
  <2>4. Frame[p][n] \in FramesOf(p, n)
    BY <1>1, <2>3, FramesDiffer
  <2>5. Frame[p][n] \in {a} \cup FramesOf(p, d - 1)
    BY <1>1, <1>2, <2>2, <2>4
  <2>6. d = n
    <3>1. CASE Frame[p][n] \in FramesOf(p, d - 1)
      <4>1. n <= d - 1
        BY <2>3, <3>1, FramesDiffer
      <4>. QED BY <1>1, <2>1, <4>1
    <3>2. CASE Frame[p][n] = Frame[p][d]
      <4>1. n \in DOMAIN Frame[p] /\ d \in DOMAIN Frame[p]
        BY <2>3, Frames
      <4>. QED BY <3>2, <4>1, FrameAssumption
    <3>. QED BY <2>1, <2>5, <3>1, <3>2
  <2>. QED BY <1>0, <1>1, <1>4, <2>1, <2>2, <2>3, <2>6
<1>. QED BY <1>3, <1>4

(* A process that takes a record from the heap, and pops its top frame or  *)
(* does not.                                                               *)
LEMMA HeapRecordFrames ==
    ASSUME Types, Types', FrameInv, NEW p \in Proc, state[p] # "none", state' = state,
           NEW a \in HeapAr, a \notin a_head, NothingInUseIsFreed,
           caller' = [caller EXCEPT ![a] = caller'[a]],
           NEW n \in 0 .. Len(Frame[p]), n <= astack[p],
           CallChain(p)' \cap StackAr = FramesOf(p, n),
           astack' = [astack EXCEPT ![p] = n],
           \A q \in Proc : q # p => current_ar'[q] = current_ar[q]
    PROVE  FrameInv'
<1>1. a \in Ar /\ a \notin StackAr /\ astack[p] \in Nat /\ n \in Nat
  BY Frames, Kinds DEF FrameInv, FramesFit
<1>2. ASSUME NEW q \in Proc, state[q] # "none"
      PROVE  \A m \in CallChain(q) : Callers'[m] = Callers[m]
  <2>1. a \notin CallChain(q) /\ CallChain(q) \subseteq Ar
    BY <1>2, NewInNoChain, CallChainOf
  <2>. QED BY <1>1, <2>1, FilledCallers
<1>3. ASSUME NEW q \in Proc PROVE FramesFit(q)'
  <2>1. CASE q # p /\ state[q] = "none"
    BY <2>1 DEF FrameInv, FramesFit, Types
  <2>2. CASE q # p /\ state[q] # "none"
    <3>1. current_ar'[q] = current_ar[q] /\ astack'[q] = astack[q] /\ state'[q] # "none"
      BY <2>2 DEF Types
    <3>. QED BY <1>2, <2>2, <3>1, FramesStay
  <2>3. CASE q = p
    <3>1. astack'[p] = n /\ state'[p] # "none"
      BY DEF Types
    <3>3. ASSUME NEW d \in 1 .. n PROVE Below(p, d)' \cap StackAr = FramesOf(p, d - 1)
      <4>1. d \in 1 .. astack[p]
        BY <1>1
      <4>2. Below(p, d)' = Reached(Callers'[Frame[p][d]], Callers')
        BY DEF Below, Reached
      <4>3. Below(p, d)' = Below(p, d)
        BY <1>2, <4>1, <4>2, FramesInChain, ChainTheSame DEF Below
      <4>. QED BY <4>1, <4>3 DEF FrameInv, FramesFit
    <3>4. FramesOf(p, astack[p])' = FramesOf(p, n)
      BY <3>1 DEF FramesOf
    <3>5. \A d \in 1 .. astack'[p] : Below(p, d)' \cap StackAr = FramesOf(p, d - 1)
      BY <3>1, <3>3
    <3>6. astack'[p] \in 0 .. Len(Frame[p])
      BY <3>1
    <3>. QED BY <2>3, <3>1, <3>4, <3>5, <3>6 DEF FramesFit, FramesOf
  <2>. QED BY <2>1, <2>2, <2>3
<1>. QED BY <1>3 DEF FrameInv

LEMMA CallOnHeapFrames ==
    ASSUME Types, Types', FrameInv, NothingInUseIsFreed,
           NEW p \in Proc, NEW a \in HeapAr, CallOnHeap(p, a)
    PROVE  FrameInv'
<1>1. /\ state[p] # "none" /\ a \notin a_head /\ a \in Ar /\ a \notin StackAr
      /\ caller' = [caller EXCEPT ![a] = current_ar[p]]
      /\ current_ar' = [current_ar EXCEPT ![p] = a]
      /\ UNCHANGED <<state, astack>>
  BY Kinds DEF CallOnHeap, MayCall, Executes, NewOnHeap, FillRecord, procs
<1>2. \A m \in CallChain(p) : Callers'[m] = Callers[m]
  BY <1>1, NewInNoChain, CallChainOf, FilledCallers
<1>3. /\ current_ar'[p] = a /\ caller'[a] = current_ar[p]
      /\ \A q \in Proc : q # p => current_ar'[q] = current_ar[q]
      /\ astack' = [astack EXCEPT ![p] = astack[p]]
  BY <1>1 DEF Types
<1>4. CallChain(p)' = {a} \cup CallChain(p)
  BY <1>1, <1>2, <1>3, CallExtendsChain
<1>5. /\ CallChain(p) \cap StackAr = FramesOf(p, astack[p])
      /\ astack[p] \in 0 .. Len(Frame[p]) /\ astack[p] <= astack[p]
  BY <1>1, Frames DEF FrameInv, FramesFit
<1>6. CallChain(p)' \cap StackAr = FramesOf(p, astack[p])
  BY <1>1, <1>4, <1>5
<1>7. caller' = [caller EXCEPT ![a] = caller'[a]] /\ state' = state
  BY <1>1, <1>3
<1>. QED BY <1>1, <1>3, <1>5, <1>6, <1>7, HeapRecordFrames

LEMMA GotoOnHeapFrames ==
    ASSUME Types, Types', FrameInv, NothingInUseIsFreed,
           NEW p \in Proc, NEW a \in HeapAr, GotoOnHeap(p, a)
    PROVE  FrameInv'
<1>1. /\ state[p] # "none" /\ a \notin a_head /\ a \in Ar /\ a \notin StackAr
      /\ caller' = [caller EXCEPT ![a] = caller[current_ar[p]]]
      /\ current_ar' = [current_ar EXCEPT ![p] = a]
      /\ astack' = FramesAfter(p, current_ar[p]) /\ state' = state
  BY Kinds DEF GotoOnHeap, MayCall, Executes, NewOnHeap, FillRecord, procs
<1>2. \A m \in CallChain(p) : Callers'[m] = Callers[m]
  BY <1>1, NewInNoChain, CallChainOf, FilledCallers
<1>3. /\ current_ar'[p] = a /\ caller'[a] = caller[current_ar[p]]
      /\ \A q \in Proc : q # p => current_ar'[q] = current_ar[q]
  BY <1>1 DEF Types
<1>4. caller' = [caller EXCEPT ![a] = caller'[a]]
  BY <1>1, <1>3
<1>5. PICK n, R : n = astack[p] /\ R = Reached(Callers[current_ar[p]], Callers)
  OBVIOUS
<1>6. CallChain(p)' = {a} \cup R
  BY <1>1, <1>2, <1>3, <1>5, GotoExtendsChain
<1>7. CallChain(p)' \cap StackAr = R \cap StackAr
  BY <1>1, <1>6
<1>8. /\ n \in Nat /\ n \in 0 .. Len(Frame[p])
      /\ current_ar[p] \notin StackAr => R \cap StackAr = FramesOf(p, n)
      /\ current_ar[p] \in StackAr => /\ n \in 1 .. Len(Frame[p])
                                     /\ R \cap StackAr = FramesOf(p, n - 1)
  BY <1>1, <1>5, TopFrame
<1>9. CASE current_ar[p] \notin StackAr
  <2>1. astack' = [astack EXCEPT ![p] = n] /\ n <= astack[p]
    BY <1>1, <1>5, <1>8, <1>9 DEF FramesAfter, Types
  <2>2. CallChain(p)' \cap StackAr = FramesOf(p, n)
    BY <1>7, <1>8, <1>9
  <2>. QED BY <1>1, <1>3, <1>4, <1>8, <2>1, <2>2, HeapRecordFrames
<1>10. CASE current_ar[p] \in StackAr
  <2>1. astack' = [astack EXCEPT ![p] = n - 1] /\ n - 1 <= astack[p]
    BY <1>1, <1>5, <1>8, <1>10 DEF FramesAfter, Types
  <2>2. n - 1 \in 0 .. Len(Frame[p])
    BY <1>8, <1>10, Frames
  <2>3. CallChain(p)' \cap StackAr = FramesOf(p, n - 1)
    BY <1>7, <1>8, <1>10
  <2>. QED BY <1>1, <1>3, <1>4, <2>1, <2>2, <2>3, HeapRecordFrames
<1>. QED BY <1>9, <1>10

(* A process that takes the next frame.                                    *)
LEMMA NextFrameFrames ==
    ASSUME Types, Types', FrameInv, NEW p \in Proc, state[p] # "none", state' = state,
           NothingInUseIsFreed,
           NEW a \in StackAr, astack[p] + 1 \in DOMAIN Frame[p], a = Frame[p][astack[p] + 1],
           caller' = [caller EXCEPT ![a] = caller'[a]],
           CallChain(p)' = {a} \cup Reached(Callers'[a], Callers'),
           Reached(Callers'[a], Callers') \cap StackAr = FramesOf(p, astack[p]),
           astack' = [astack EXCEPT ![p] = astack[p] + 1],
           \A q \in Proc : q # p => current_ar'[q] = current_ar[q]
    PROVE  FrameInv'
<1>1. PICK n, R : n = astack[p] /\ R = Reached(Callers'[a], Callers')
  OBVIOUS
<1>2. /\ n \in Nat /\ n + 1 \in 1 .. Len(Frame[p]) /\ n \in 0 .. Len(Frame[p])
      /\ a \in StackAr /\ a \in Ar
  BY <1>1, Frames, Kinds DEF FrameInv, FramesFit
<1>3. ASSUME NEW q \in Proc, state[q] # "none"
      PROVE  \A m \in CallChain(q) : Callers'[m] = Callers[m]
  <2>1. a \notin CallChain(q)
    BY <1>1, <1>2, <1>3, NewInNoChain
  <2>2. CallChain(q) \subseteq Ar
    BY <1>3, CallChainOf
  <2>. QED BY <1>2, <2>1, <2>2, FilledCallers
<1>4. ASSUME NEW q \in Proc PROVE FramesFit(q)'
  <2>1. CASE q # p /\ state[q] = "none"
    BY <2>1 DEF FrameInv, FramesFit, Types
  <2>2. CASE q # p /\ state[q] # "none"
    <3>1. current_ar'[q] = current_ar[q] /\ astack'[q] = astack[q] /\ state'[q] # "none"
      BY <2>2 DEF Types
    <3>. QED BY <1>3, <2>2, <3>1, FramesStay
  <2>3. CASE q = p
    <3>0. astack'[p] = n + 1 /\ state'[p] # "none"
      BY <1>1 DEF Types
    <3>3. CallChain(p)' \cap StackAr = FramesOf(p, n + 1)
      <4>1. \A e : e \in 1 .. n + 1 <=> e \in 1 .. n \/ e = n + 1
        BY <1>2
      <4>2. FramesOf(p, n + 1) = FramesOf(p, n) \cup {a}
        BY <1>1, <4>1 DEF FramesOf
      <4>. QED BY <1>1, <1>2, <4>2
    <3>4. ASSUME NEW d \in 1 .. n + 1
          PROVE  Reached(Callers'[Frame[p][d]], Callers') \cap StackAr = FramesOf(p, d - 1)
      <4>1. CASE d = n + 1
        <5>1. d - 1 = n
          BY <1>2, <4>1
        <5>. QED BY <1>1, <4>1, <5>1
      <4>2. CASE d # n + 1
        <5>1. d \in 1 .. astack[p]
          BY <1>1, <1>2, <4>2
        <5>2. Frame[p][d] \in CallChain(p)
          BY <5>1, FramesInChain
        <5>3. Reached(Callers'[Frame[p][d]], Callers') = Below(p, d)
          BY <1>3, <5>2, ChainTheSame DEF Below
        <5>. QED BY <5>1, <5>3 DEF FrameInv, FramesFit
      <4>. QED BY <4>1, <4>2
    <3>5. \A d : Below(p, d)' = Reached(Callers'[Frame[p][d]], Callers')
      BY DEF Below, Reached
    <3>6. n + 1 \in 0 .. Len(Frame[p])
      BY <1>2, Frames
    <3>7. FramesOf(p, astack[p])' = FramesOf(p, n + 1)
      BY <3>0 DEF FramesOf
    <3>8. \A d \in 1 .. astack'[p] : Below(p, d)' \cap StackAr = FramesOf(p, d - 1)
      BY <3>0, <3>4, <3>5
    <3>9. astack'[p] \in 0 .. Len(Frame[p])
      BY <3>0, <3>6
    <3>. QED BY <2>3, <3>0, <3>3, <3>7, <3>8, <3>9 DEF FramesFit, FramesOf
  <2>. QED BY <2>1, <2>2, <2>3
<1>. QED BY <1>4 DEF FrameInv

(* The frame that CALL takes is the next one of its process.               *)
LEMMA CallOnStackFrames ==
    ASSUME Types, Types', FrameInv, NothingInUseIsFreed, NEW p \in Proc, CallOnStack(p)
    PROVE  FrameInv'
<1>1. PICK n, a :
        /\ n = astack[p] /\ a = Frame[p][n + 1]
        /\ state[p] # "none" /\ n + 1 \in DOMAIN Frame[p]
        /\ caller' = [caller EXCEPT ![a] = current_ar[p]]
        /\ current_ar' = [current_ar EXCEPT ![p] = a]
        /\ astack' = [astack EXCEPT ![p] = n + 1]
        /\ state' = state
  BY DEF CallOnStack, MayCall, Executes, FillRecord, procs
<1>2. a \in StackAr /\ a \in Ar /\ n + 1 \in 1 .. Len(Frame[p])
  BY <1>1, Frames, Kinds
<1>3. \A m \in CallChain(p) : Callers'[m] = Callers[m]
  <2>1. a \notin CallChain(p) /\ CallChain(p) \subseteq Ar
    BY <1>1, <1>2, NewInNoChain, CallChainOf
  <2>. QED BY <1>1, <1>2, <2>1, FilledCallers
<1>4. /\ current_ar'[p] = a /\ caller'[a] = current_ar[p]
      /\ \A q \in Proc : q # p => current_ar'[q] = current_ar[q]
  BY <1>1, <1>2 DEF Types
<1>5. /\ Reached(Callers'[a], Callers') = CallChain(p)
      /\ CallChain(p)' = {a} \cup CallChain(p)
  BY <1>1, <1>2, <1>3, <1>4, CallExtendsChain
<1>6. /\ CallChain(p)' = {a} \cup Reached(Callers'[a], Callers')
      /\ Reached(Callers'[a], Callers') \cap StackAr = FramesOf(p, astack[p])
  BY <1>1, <1>5 DEF FrameInv, FramesFit
<1>7. /\ a = Frame[p][astack[p] + 1] /\ astack[p] + 1 \in DOMAIN Frame[p]
      /\ caller' = [caller EXCEPT ![a] = caller'[a]]
      /\ astack' = [astack EXCEPT ![p] = astack[p] + 1]
  BY <1>1, <1>4
<1>. QED BY <1>1, <1>2, <1>4, <1>6, <1>7, NextFrameFrames

(* GOTO from a frame to a frame takes the same one again; from a record on *)
(* the heap, it takes the next one.                                        *)
LEMMA GotoOnStackFrames ==
    ASSUME Types, Types', FrameInv, NothingInUseIsFreed, NEW p \in Proc, GotoOnStack(p)
    PROVE  FrameInv'
<1>1. PICK popped, d, a :
        /\ popped = FramesAfter(p, current_ar[p]) /\ d = popped[p] + 1 /\ a = Frame[p][d]
        /\ state[p] # "none" /\ d \in DOMAIN Frame[p]
        /\ caller' = [caller EXCEPT ![a] = caller[current_ar[p]]]
        /\ current_ar' = [current_ar EXCEPT ![p] = a]
        /\ astack' = [popped EXCEPT ![p] = d]
        /\ state' = state
  BY DEF GotoOnStack, MayCall, Executes, FillRecord, procs
<1>2. PICK n, R : n = astack[p] /\ R = Reached(Callers[current_ar[p]], Callers)
  OBVIOUS
<1>3. /\ n \in Nat
      /\ current_ar[p] \notin StackAr => R \cap StackAr = FramesOf(p, n)
      /\ current_ar[p] \in StackAr => n \in 1 .. Len(Frame[p]) /\ current_ar[p] = Frame[p][n]
  BY <1>1, <1>2, TopFrame
<1>4. CASE current_ar[p] \in StackAr
  <2>1. d = n
    BY <1>1, <1>2, <1>3, <1>4 DEF FramesAfter, Types
  <2>2. astack' = astack
    BY <1>1, <1>2, <1>4, <2>1 DEF FramesAfter, Types
  <2>3. a = current_ar[p]
    BY <1>1, <1>3, <1>4, <2>1
  <2>4. caller' = caller /\ current_ar' = current_ar
    BY <1>1, <2>3 DEF Types
  <2>. QED BY <1>1, <2>2, <2>4, OnlyStatesChange
<1>5. CASE current_ar[p] \notin StackAr
  <2>1. d = n + 1 /\ astack' = [astack EXCEPT ![p] = n + 1]
    BY <1>1, <1>2, <1>5 DEF FramesAfter
  <2>2. /\ a \in StackAr /\ a \in Ar /\ a = Frame[p][astack[p] + 1]
        /\ astack[p] + 1 \in DOMAIN Frame[p] /\ astack[p] + 1 \in 1 .. Len(Frame[p])
    BY <1>1, <1>2, <2>1, Frames, Kinds
  <2>3. \A m \in CallChain(p) : Callers'[m] = Callers[m]
    <3>1. a \notin CallChain(p) /\ CallChain(p) \subseteq Ar
      BY <1>1, <2>2, NewInNoChain, CallChainOf
    <3>. QED BY <1>1, <2>2, <3>1, FilledCallers
  <2>4. /\ current_ar'[p] = a /\ caller'[a] = caller[current_ar[p]]
        /\ \A q \in Proc : q # p => current_ar'[q] = current_ar[q]
    BY <1>1, <2>2 DEF Types
  <2>5. /\ Reached(Callers'[a], Callers') = R
        /\ CallChain(p)' = {a} \cup R
    BY <1>1, <1>2, <2>2, <2>3, <2>4, GotoExtendsChain
  <2>6. /\ CallChain(p)' = {a} \cup Reached(Callers'[a], Callers')
        /\ Reached(Callers'[a], Callers') \cap StackAr = FramesOf(p, astack[p])
    BY <1>2, <1>3, <1>5, <2>5
  <2>7. /\ caller' = [caller EXCEPT ![a] = caller'[a]]
        /\ astack' = [astack EXCEPT ![p] = astack[p] + 1]
    BY <1>1, <1>2, <2>1, <2>4
  <2>. QED BY <1>1, <2>2, <2>4, <2>6, <2>7, NextFrameFrames
<1>. QED BY <1>4, <1>5

(* RET from a frame leaves the top one; from a record on the heap, none.   *)
LEMMA RetFrames ==
    ASSUME Types, Types', FrameInv, NEW p \in Proc, state[p] # "none",
           NEW c \in Ar, c = caller[current_ar[p]], caller' = caller, state' = state,
           current_ar' = [current_ar EXCEPT ![p] = c],
           astack' = FramesAfter(p, current_ar[p])
    PROVE  FrameInv'
<1>1. PICK a, n, R :
        a = current_ar[p] /\ n = astack[p] /\ R = Reached(Callers[a], Callers)
  OBVIOUS
<1>2. Callers' = Callers
  BY DEF Callers
<1>3. /\ n \in Nat /\ n \in 0 .. Len(Frame[p]) /\ a \in Ar
      /\ a \notin StackAr => R \cap StackAr = FramesOf(p, n)
      /\ a \in StackAr => n \in 1 .. Len(Frame[p]) /\ R \cap StackAr = FramesOf(p, n - 1)
  BY <1>1, TopFrame, CallChainOf
<1>4. CallChain(p)' = R
  <2>1. Callers[a] = {c}
    BY <1>1, <1>3, SuccessorsOf, Kinds DEF SuccessorsAre
  <2>2. CallChain(p)' = Reached({current_ar'[p]}, Callers')
    BY DEF CallChain, Reached
  <2>3. current_ar'[p] = c
    BY DEF Types
  <2>. QED BY <1>1, <1>2, <2>1, <2>2, <2>3
<1>5. \A q \in Proc : \A d : Below(q, d)' = Below(q, d)
  <2>1. \A q \in Proc : \A d : Below(q, d)' = Reached(Callers'[Frame[q][d]], Callers')
    BY DEF Below, Reached
  <2>. QED BY <1>2, <2>1 DEF Below
<1>6. PICK m : m = IF a \in StackAr THEN n - 1 ELSE n
  OBVIOUS
<1>7. /\ m \in 0 .. Len(Frame[p]) /\ m <= n /\ R \cap StackAr = FramesOf(p, m)
      /\ astack' = [astack EXCEPT ![p] = m]
  <2>1. CASE a \in StackAr
    <3>1. m = n - 1 /\ m \in 0 .. Len(Frame[p]) /\ m <= n
      BY <1>3, <1>6, <2>1, Frames
    <3>2. astack' = [astack EXCEPT ![p] = m]
      BY <1>1, <2>1, <3>1 DEF FramesAfter
    <3>. QED BY <1>3, <2>1, <3>1, <3>2
  <2>2. CASE a \notin StackAr
    <3>1. m = n
      BY <1>6, <2>2
    <3>2. astack' = [astack EXCEPT ![p] = m]
      BY <1>1, <2>2, <3>1 DEF FramesAfter, Types
    <3>. QED BY <1>3, <2>2, <3>1, <3>2
  <2>. QED BY <2>1, <2>2
<1>8. ASSUME NEW q \in Proc PROVE FramesFit(q)'
  <2>1. CASE q # p
    <3>1. astack'[q] = astack[q] /\ current_ar'[q] = current_ar[q]
      BY <1>7, <2>1 DEF Types
    <3>2. CASE state[q] = "none"
      BY <3>1, <3>2 DEF FrameInv, FramesFit
    <3>3. CASE state[q] # "none"
      BY <1>2, <3>1, <3>3, FramesStay
    <3>. QED BY <3>2, <3>3
  <2>2. CASE q = p
    <3>1. astack'[p] = m
      BY <1>7 DEF Types
    <3>2. ASSUME NEW d \in 1 .. m PROVE Below(p, d)' \cap StackAr = FramesOf(p, d - 1)
      <4>1. d \in 1 .. astack[p]
        BY <1>1, <1>3, <1>7, Frames
      <4>. QED BY <1>5, <4>1 DEF FrameInv, FramesFit
    <3>3. \A d \in 1 .. astack'[p] : Below(p, d)' \cap StackAr = FramesOf(p, d - 1)
      BY <3>1, <3>2
    <3>4. FramesOf(p, astack'[p]) = FramesOf(p, m)
      BY <3>1
    <3>. QED BY <1>4, <1>7, <2>2, <3>1, <3>3, <3>4 DEF FramesFit
  <2>. QED BY <2>1, <2>2
<1>. QED BY <1>8 DEF FrameInv

(* A process that ends leaves no frames. *)
LEMMA EndsFrames ==
    ASSUME Types, Types', FrameInv, NEW p \in Proc, Ends(p), caller' = caller,
           NEW c, current_ar' = [current_ar EXCEPT ![p] = c]
    PROVE  FrameInv'
<1>1. Callers' = Callers
  BY DEF Callers
<1>2. ASSUME NEW q \in Proc PROVE FramesFit(q)'
  <2>1. CASE q = p
    BY <2>1, Frames DEF Ends, FramesFit, Types
  <2>2. CASE q # p /\ state[q] = "none"
    BY <2>2 DEF Ends, FrameInv, FramesFit, Types
  <2>3. CASE q # p /\ state[q] # "none"
    <3>1. current_ar'[q] = current_ar[q] /\ astack'[q] = astack[q] /\ state'[q] # "none"
      BY <2>3 DEF Types, Ends
    <3>. QED BY <1>1, <2>3, <3>1, FramesStay
  <2>. QED BY <2>1, <2>2, <2>3
<1>. QED BY <1>2 DEF FrameInv

(* A process starts with a record on the heap that returns to nothing.     *)
LEMMA SpawnFrames ==
    ASSUME Types, Types', FrameInv, NothingInUseIsFreed,
           NEW p \in Proc, NEW q \in Proc, NEW a \in HeapAr, Spawn(p, q, a)
    PROVE  FrameInv'
<1>1. /\ a \notin a_head /\ a \in Ar /\ a \notin StackAr
      /\ caller' = [caller EXCEPT ![a] = Null]
      /\ current_ar' = [current_ar EXCEPT ![q] = a]
      /\ state[q] = "none"
      /\ state' = [state EXCEPT ![q] = "awake"]
      /\ astack' = [astack EXCEPT ![q] = 0]
  BY Kinds DEF Spawn, NewOnHeap, FillRecord
<1>2. ASSUME NEW r \in Proc PROVE FramesFit(r)'
  <2>1. CASE r # q /\ state[r] = "none"
    BY <1>1, <2>1 DEF FrameInv, FramesFit, Types
  <2>2. CASE r # q /\ state[r] # "none"
    <3>1. current_ar'[r] = current_ar[r] /\ astack'[r] = astack[r] /\ state'[r] # "none"
      BY <1>1, <2>2 DEF Types
    <3>2. a \notin CallChain(r) /\ CallChain(r) \subseteq Ar
      BY <1>1, <2>2, NewInNoChain, CallChainOf
    <3>3. \A m \in CallChain(r) : Callers'[m] = Callers[m]
      BY <1>1, <3>2, FilledCallers
    <3>. QED BY <2>2, <3>1, <3>3, FramesStay
  <2>3. CASE r = q
    <3>1. /\ current_ar'[q] = a /\ caller'[a] = Null /\ astack'[q] = 0
          /\ 0 \in 0 .. Len(Frame[q])
      BY <1>1, Frames DEF Types
    <3>2. CallChain(q)' \subseteq {} \cup {a}
      BY <1>1, <3>1, NewChain
    <3>3. CallChain(q)' \cap StackAr = {}
      BY <1>1, <3>2
    <3>4. 1 .. 0 = {}
      OBVIOUS
    <3>. QED BY <2>3, <3>1, <3>3, <3>4 DEF FramesFit, FramesOf
  <2>. QED BY <2>1, <2>2, <2>3
<1>. QED BY <1>2 DEF FrameInv

(* A collection after which nothing in use is free has kept the callers of *)
(* every record in a chain.                                                *)
LEMMA CollectFrames ==
    ASSUME Types, Types', FrameInv, Collect, NothingInUseIsFreed'
    PROVE  FrameInv'
<1>1. /\ UNCHANGED <<state, current_ar, astack>>
      /\ a_head' \subseteq Reached(MarkRoots, Visits)
  BY DEF Collect, Sweep, procs
<1>2. ASSUME NEW p \in Proc, state[p] # "none"
      PROVE  \A m \in CallChain(p) : Callers'[m] = Callers[m]
  <2> DEFINE C == Reached({current_ar[p]}, Callers')
  <2>1. C \subseteq InUse' /\ C \subseteq Ar
    <3>1. CallChain(p)' = C
      BY <1>1 DEF CallChain, Reached
    <3>2. CallChain(p)' \subseteq InUse' /\ CallChain(p)' \subseteq Ar
      BY <1>1, <1>2, ChainsNext DEF ChainsInUse
    <3>. QED BY <3>1, <3>2
  <2>2. ASSUME NEW m \in C PROVE Callers'[m] = Callers[m]
    <3>1. m \in Allocated' /\ m \in Ar /\ m \in Node
      BY <2>1, <2>2, Kinds DEF NothingInUseIsFreed
    <3>2. \/ m \in a_head' \cup sv_head' \cup Closure
          \/ \E q \in Proc : m \in FramesOf(q, astack'[q])
      BY <3>1, AllocatedIsNext DEF AllocatedAre, FramesOf
    <3>3. m \in a_head' \/ m \in StackAr
      <4>1. m \notin sv_head' \cup Closure
        BY <3>1, Kinds DEF Types
      <4>2. \A q \in Proc : FramesOf(q, astack'[q]) \subseteq StackAr
        BY <1>1, FramesDiffer DEF FrameInv, FramesFit
      <4>. QED BY <3>2, <4>1, <4>2
    <3>. QED BY <1>1, <3>1, <3>3, SweepCuts
  <2>3. CallChain(p) = C
    <3>1. PICK s, t : s = Callers /\ t = Callers'
      OBVIOUS
    <3>2. \A m \in Node : t[m] \subseteq Node /\ s[m] \subseteq Node
      BY <3>1, SuccessorsOf, SuccessorsOfNext DEF SuccessorsAre
    <3>3. {current_ar[p]} \subseteq Node
      BY <1>2, CallChainOf, Kinds
    <3>4. \A m \in Reached({current_ar[p]}, t) : s[m] = t[m]
      BY <2>2, <3>1
    <3>5. Reached({current_ar[p]}, s) = Reached({current_ar[p]}, t)
      BY <3>2, <3>3, <3>4, ReachedTheSame
    <3>. QED BY <3>1, <3>5 DEF CallChain
  <2>. QED BY <2>2, <2>3
<1>3. ASSUME NEW p \in Proc PROVE FramesFit(p)'
  <2>1. CASE state[p] = "none"
    BY <1>1, <2>1 DEF FrameInv, FramesFit
  <2>2. CASE state[p] # "none"
    BY <1>1, <1>2, <2>2, FramesStay
  <2>. QED BY <2>1, <2>2
<1>. QED BY <1>3 DEF FrameInv

LEMMA FramesNext ==
    ASSUME Types, FrameInv, NothingInUseIsFreed, NothingInUseIsFreed', [Next]_vars
    PROVE  FrameInv'
<1>1. Types'
  BY NextTypes
<1>2. ASSUME UNCHANGED <<caller, current_ar, astack, state>> PROVE FrameInv'
  <2>1. caller' = caller /\ current_ar' = current_ar /\ astack' = astack /\ state' = state
    BY <1>2
  <2>. QED BY <1>1, <2>1, OnlyStatesChange
<1>3. ASSUME NEW p \in Proc
      PROVE  /\ \A v \in Sv : PushString(p, v) => FrameInv'
             /\ \A v \in Sv : PushFolded(p, v) => FrameInv'
             /\ \A v \in Sv, k \in Containers : Wrap(p, v, k) => FrameInv'
             /\ \A k \in Closure : PushClosure(p, k) => FrameInv'
             /\ \/ Fetch(p) \/ Store(p) \/ PushLocal(p) \/ PopLocal(p)
                \/ SetActivation(p) \/ GotoSameRecord(p)
                => FrameInv'
  BY <1>2 DEF PushString, PushFolded, Wrap, Fetch, Store, PushLocal, PopLocal,
              PushClosure, SetActivation, GotoSameRecord, OnlyStack, records, procs
<1>4. ASSUME NEW p \in Proc, Ret(p) PROVE FrameInv'
  <2>1. PICK c : /\ Executes(p) /\ c = caller[current_ar[p]]
                 /\ current_ar' = [current_ar EXCEPT ![p] = c]
                 /\ c = Null => Ends(p)
                 /\ c # Null => astack' = FramesAfter(p, current_ar[p]) /\ state' = state
                 /\ caller' = caller
    BY <1>4 DEF Ret, procs, records
  <2>2. state[p] # "none" /\ c \in Ar \cup {Null}
    BY <2>1, ScopeIsRecords DEF Types, Executes
  <2>3. CASE c = Null
    BY <1>1, <2>1, <2>3, EndsFrames
  <2>4. CASE c # Null
    BY <1>1, <2>1, <2>2, <2>4, RetFrames
  <2>. QED BY <2>3, <2>4
<1>5. ASSUME NEW p \in Proc, Halt(p) PROVE FrameInv'
  BY <1>1, <1>5, EndsFrames DEF Halt, records
<1>6. ASSUME NEW p \in Proc, NEW q \in Proc, Send(p, q) PROVE FrameInv'
  <2>1. /\ state' = [state EXCEPT ![q] = "awake"] /\ state[q] # "none"
        /\ caller' = caller /\ current_ar' = current_ar /\ astack' = astack
    BY <1>6 DEF Send, records
  <2>2. \A r \in Proc : state'[r] = state[r] \/ (state'[r] # "none" /\ state[r] # "none")
    BY <2>1 DEF Types
  <2>. QED BY <1>1, <2>1, <2>2, OnlyStatesChange
<1>7. ASSUME NEW p \in Proc, Recv(p) PROVE FrameInv'
  <2>1. /\ state' = [state EXCEPT ![p] = "asleep"] \/ state' = state
        /\ state[p] # "none"
        /\ caller' = caller /\ current_ar' = current_ar /\ astack' = astack
    BY <1>7 DEF Recv, records, Executes
  <2>2. \A r \in Proc : state'[r] = state[r] \/ (state'[r] # "none" /\ state[r] # "none")
    BY <2>1 DEF Types
  <2>. QED BY <1>1, <2>1, <2>2, OnlyStatesChange
<1>8. ASSUME NEW p \in Proc
      PROVE  /\ \A a \in HeapAr : CallOnHeap(p, a) => FrameInv'
             /\ \A a \in HeapAr : GotoOnHeap(p, a) => FrameInv'
             /\ CallOnStack(p) \/ GotoOnStack(p) => FrameInv'
             /\ \A q \in Proc, a \in HeapAr : Spawn(p, q, a) => FrameInv'
  BY <1>1, CallOnHeapFrames, GotoOnHeapFrames, CallOnStackFrames, GotoOnStackFrames,
     SpawnFrames
<1>9. Collect => FrameInv'
  BY <1>1, CollectFrames
<1>10. UNCHANGED vars => FrameInv'
  BY <1>2 DEF vars, records, procs
<1>. QED BY <1>3, <1>4, <1>5, <1>6, <1>7, <1>8, <1>9, <1>10 DEF Next

LEMMA FramesInit == Init => FrameInv
<1> SUFFICES ASSUME Init PROVE FrameInv
  OBVIOUS
<1>1. PICK main \in Proc, global_ar \in HeapAr :
        /\ state = [p \in Proc |-> IF p = main THEN "awake" ELSE "none"]
        /\ current_ar = [p \in Proc |-> IF p = main THEN global_ar ELSE Null]
        /\ caller = [a \in Ar |-> Null] /\ astack = [p \in Proc |-> 0]
  BY DEF Init
<1>2. Types
  BY InitTypes
<1>3. ASSUME NEW p \in Proc PROVE FramesFit(p)
  <2>1. astack[p] = 0 /\ 0 \in 0 .. Len(Frame[p]) /\ 1 .. 0 = {}
    BY <1>1, Frames
  <2>2. FramesOf(p, 0) = {}
    BY <2>1 DEF FramesOf
  <2>3. ASSUME state[p] # "none" PROVE CallChain(p) \cap StackAr = {}
    <3>1. current_ar[p] = global_ar /\ global_ar \in HeapAr /\ global_ar \in Ar
      BY <1>1, <2>3, Kinds
    <3>2. \A m \in {global_ar} : Callers[m] \subseteq {global_ar}
      BY <1>1, <1>2, <3>1, SuccessorsOf DEF SuccessorsAre
    <3>3. {global_ar} \subseteq Node
      BY <3>1, Kinds
    <3>4. CallChain(p) \subseteq {global_ar}
      BY <3>1, <3>2, <3>3, ReachedIsLeast DEF CallChain
    <3>. QED BY <3>1, <3>4, Kinds
  <2>. QED BY <2>1, <2>2, <2>3 DEF FramesFit
<1>. QED BY <1>3 DEF FrameInv

(* As long as the collector has freed nothing in use, the frames of every  *)
(* activation stack are exactly the records on it that its process will    *)
(* return from, so that RET pops the frame of the call it ends.            *)
THEOREM FramesInOrder ==
    Spec /\ []NothingInUseIsFreed => []FramesAreCallChain
<1> DEFINE Inv == Types /\ FrameInv
<1>1. Init => Inv
  BY InitTypes, FramesInit
<1>2. Inv /\ NothingInUseIsFreed /\ NothingInUseIsFreed' /\ [Next]_vars => Inv'
  BY NextTypes, FramesNext
<1>3. Inv => FramesAreCallChain
  BY DEF FrameInv, FramesFit, FramesOf, FramesAreCallChain
<1>. QED BY <1>1, <1>2, <1>3, PTL DEF Spec

(* As long as the collector has freed nothing in use, everything has its   *)
(* type; in particular no activation stack is counted below 0.             *)
THEOREM TypesHold ==
    Spec /\ []NothingInUseIsFreed => []TypeOK
<1> DEFINE Inv == Types /\ FrameInv
<1>1. Init => Inv
  BY InitTypes, FramesInit
<1>2. Inv /\ NothingInUseIsFreed /\ NothingInUseIsFreed' /\ [Next]_vars => Inv'
  BY NextTypes, FramesNext
<1>3. Inv => TypeOK
  <2> SUFFICES ASSUME Inv PROVE TypeOK
    OBVIOUS
  <2>1. ASSUME NEW p \in Proc PROVE astack[p] \in Nat
    <3>1. Len(Frame[p]) \in Nat /\ astack[p] \in 0 .. Len(Frame[p])
      BY Frames DEF FrameInv, FramesFit
    <3>. QED BY <3>1
  <2>2. astack \in [Proc -> Nat]
    BY <2>1 DEF Types
  <2>. QED BY <2>2 DEF Types, TypeOK
<1>. QED BY <1>1, <1>2, <1>3, PTL DEF Spec
=============================================================================
