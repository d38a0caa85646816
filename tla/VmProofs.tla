------------------------------ MODULE VmProofs ------------------------------
(***************************************************************************)
(* Theorems about Vm, for any program and any bounds: what calls, tail     *)
(* calls and returns keep of the chain of calls, of the activation stack   *)
(* and of the scopes.                                                      *)
(***************************************************************************)
EXTENDS Vm, SequenceTheorems, TLAPS

(***************************************************************************)
(* The inductive invariant                                                 *)
(***************************************************************************)
FrameType == [code : Routine, ar : Address, scope : Nat, top : Nat]

HistoryOK ==
    /\ frames \in Seq(FrameType)
    /\ lex \in Seq(Nat)
    /\ holds \in [Address -> Nat]
    /\ sound \in BOOLEAN

(* The records lie one above the other, and none is larger than a routine. *)
Layout ==
    /\ \A i, j \in DOMAIN frames : i <= j => frames[i].top <= frames[j].top
    /\ \A i \in DOMAIN frames : /\ size[frames[i].ar] <= MaxSlots
                                /\ frames[i].top <= i * (HeaderSize + MaxSlots)

Chain == HistoryOK /\ TypeOK /\ CallChain /\ Layout /\ EachCallHasItsRecord

(* The record that a closure was made in is on the heap.                   *)
ScopesOnHeap ==
    \A k \in DOMAIN parent : closure_ar[k] \in Address => closure_ar[k] \in HeapRecord

(* Every record in use holds the variables of a call. *)
RecordsHold == \A a \in InUse : holds[a] \in Scope

Scopes == sound => ScopesOnHeap /\ RecordsHold /\ \A a \in InUse : Lexical(a)

(***************************************************************************)
(* Lemmas on the stacks                                                    *)
(***************************************************************************)

(* A call takes its arguments from the value stack, and what is left of it *)
(* is a stack of values; so are other initial parts of it.                 *)
LEMMA PopIsStack ==
    ASSUME NEW S, NEW s \in Seq(S), NEW n \in 0 .. Len(s)
    PROVE  /\ SubSeq(s, 1, n) \in Seq(S)
           /\ Len(SubSeq(s, 1, n)) = n
           /\ \A i \in 1 .. n : SubSeq(s, 1, n)[i] = s[i]
<1>1. Len(s) \in Nat /\ \A i \in 1 .. Len(s) : s[i] \in S
  BY ElementOfSeq, LenProperties
<1>2. \A i \in 1 .. n : s[i] \in S
  BY <1>1
<1> QED
  BY <1>1, <1>2, SubSeqProperties

(* An element put on a sequence comes after the others. *)
LEMMA AppendIsStack ==
    ASSUME NEW S, NEW s \in Seq(S), NEW e \in S
    PROVE  /\ Append(s, e) \in Seq(S)
           /\ Len(Append(s, e)) = Len(s) + 1
           /\ \A i \in 1 .. Len(s) : Append(s, e)[i] = s[i]
           /\ Append(s, e)[Len(s) + 1] = e
  BY AppendProperties

(* The types of the parts of a closure that can be applied. *)
LEMMA AppliedClosure ==
    ASSUME TypeOK, HistoryOK, CanApply
    PROVE  /\ Top[1] \in DOMAIN parent /\ Top[1] \in Routine \ {Main}
           /\ Top[2] \in Scope /\ Top[2] \in Nat
           /\ arity[Top[1]] \in Nat /\ locals[Top[1]] \in Nat
           /\ Slots(Top[1]) \in Nat /\ Slots(Top[1]) <= MaxSlots
           /\ Len(vstack) \in Nat /\ Len(vstack) > arity[Top[1]]
           /\ \A i \in 1 .. arity[Top[1]] : Arguments(Top[1])[i] \in Value
           /\ Pop(arity[Top[1]] + 1) \in Seq(Value)
<1>1. Top \in (DOMAIN parent) \X Scope /\ Len(vstack) > arity[Top[1]]
  BY DEF CanApply, IsClosure
<1>2. DOMAIN parent = Routine \ {Main}
  BY RoutineAssumption
<1>3. Top[1] \in DOMAIN parent /\ Top[1] \in Routine \ {Main} /\ Top[2] \in Scope
  BY <1>1, <1>2
<1>4. Top[2] \in Nat
  BY <1>3, LenProperties DEF Scope, HistoryOK
<1>5. arity[Top[1]] \in Nat /\ locals[Top[1]] \in Nat /\ MaxSlots \in Nat
      /\ arity[Top[1]] + locals[Top[1]] <= MaxSlots
  BY <1>3, RoutineAssumption
<1>6. vstack \in Seq(Value) /\ Len(vstack) \in Nat
  BY LenProperties DEF TypeOK
<1>7. \A i \in (Len(vstack) - arity[Top[1]]) .. (Len(vstack) - 1) : vstack[i] \in Value
  BY <1>1, <1>5, <1>6, ElementOfSeq
<1>8. \A i \in 1 .. arity[Top[1]] :
          Arguments(Top[1])[i] = vstack[Len(vstack) - arity[Top[1]] + i - 1]
  <2> DEFINE m == Len(vstack) - arity[Top[1]]
             n == Len(vstack) - 1
  <2>1. m \in Int /\ n \in Int /\ \A i \in m .. n : vstack[i] \in Value
    BY <1>5, <1>6, <1>7
  <2> HIDE DEF m, n
  <2>2. \A i \in 1 .. n - m + 1 : SubSeq(vstack, m, n)[i] = vstack[m + i - 1]
    BY <2>1, SubSeqProperties
  <2>3. n - m + 1 = arity[Top[1]]
    BY <1>5, <1>6 DEF m, n
  <2> QED
    BY <2>2, <2>3 DEF Arguments, m, n
<1>9. \A i \in 1 .. arity[Top[1]] : Arguments(Top[1])[i] \in Value
  <2> TAKE i \in 1 .. arity[Top[1]]
  <2>1. Len(vstack) - arity[Top[1]] + i - 1
            \in (Len(vstack) - arity[Top[1]]) .. (Len(vstack) - 1)
    BY <1>5, <1>6
  <2> QED
    BY <1>7, <1>8, <2>1
<1>10. Pop(arity[Top[1]] + 1) \in Seq(Value)
  <2>1. Len(vstack) - (arity[Top[1]] + 1) \in 0 .. Len(vstack)
    BY <1>1, <1>5, <1>6
  <2> QED
    BY <1>6, <2>1, PopIsStack DEF Pop
<1> QED
  BY <1>1, <1>3, <1>4, <1>5, <1>6, <1>9, <1>10 DEF Slots

(***************************************************************************)
(* Lemmas on a new record                                                  *)
(***************************************************************************)

(* What the two ways to make a record do to the records. *)
LEMMA RecordIsMade ==
    ASSUME TypeOK, HistoryOK, CanApply,
           NEW a \in Address, NEW top \in 0 .. AstackBound, NEW c \in Record,
           OnHeapOrStack(a, Top[1], top), NewRecord(a, Top[1], c)
    PROVE  /\ current_ar' \in Address /\ a_count' \in 1 .. CallBound
           /\ astack_ptr' \in 0 .. AstackBound
           /\ size' \in [Address -> Nat] /\ caller' \in [Address -> Record]
           /\ enclosing' \in [Address -> Record]
           /\ DOMAIN slot' = Address
           /\ \A b \in Address : slot'[b] \in [1 .. size'[b] -> Value \cup {Null}]
           /\ size'[a] = Slots(Top[1]) /\ caller'[a] = c /\ enclosing'[a] = closure_ar[Top[1]]
           /\ \A b \in Address \ {a} :
                 size'[b] = size[b] /\ caller'[b] = caller[b] /\ enclosing'[b] = enclosing[b]
<1> DEFINE k == Top[1]
<1>1. /\ k \in DOMAIN parent /\ arity[k] \in Nat /\ Slots(k) \in Nat
      /\ \A i \in 1 .. arity[k] : Arguments(k)[i] \in Value
  BY AppliedClosure
<1>2. closure_ar[k] \in Record
  BY <1>1 DEF TypeOK
<1> HIDE DEF k
<1>3. a_count' \in 1 .. CallBound /\ astack_ptr' \in 0 .. AstackBound
  <2>1. a_count \in 1 .. CallBound /\ CallBound \in Nat /\ AstackBound \in Nat
    BY BoundAssumption DEF TypeOK
  <2>2. CASE ContainsClosures(k)
    <3>1. a = -(a_count + 1) /\ a_count' = a_count + 1 /\ astack_ptr' = top
      BY <2>2 DEF OnHeapOrStack, k
    <3> QED
      BY <2>1, <3>1 DEF Address
  <2>3. CASE ~ContainsClosures(k)
    <3>1. /\ astack_ptr' = top + HeaderSize + Slots(k) /\ a_count' = a_count
          /\ astack_ptr' <= AstackBound
      BY <2>3 DEF OnHeapOrStack, k
    <3> QED
      BY <1>1, <2>1, <3>1 DEF HeaderSize
  <2> QED
    BY <2>2, <2>3
<1>4. /\ size' = [size EXCEPT ![a] = Slots(k)]
      /\ caller' = [caller EXCEPT ![a] = c]
      /\ enclosing' = [enclosing EXCEPT ![a] = closure_ar[k]]
      /\ slot' = [slot EXCEPT ![a] =
                     [i \in 1 .. Slots(k) |-> IF i <= arity[k] THEN Arguments(k)[i] ELSE Null]]
      /\ current_ar' = a
  BY DEF NewRecord, k
<1>5. /\ size' \in [Address -> Nat] /\ caller' \in [Address -> Record]
      /\ enclosing' \in [Address -> Record]
      /\ size'[a] = Slots(k) /\ caller'[a] = c /\ enclosing'[a] = closure_ar[k]
      /\ \A b \in Address \ {a} :
            size'[b] = size[b] /\ caller'[b] = caller[b] /\ enclosing'[b] = enclosing[b]
  BY <1>1, <1>2, <1>4 DEF TypeOK
<1>6. DOMAIN slot' = Address
  BY <1>4 DEF TypeOK
<1>7. ASSUME NEW b \in Address
      PROVE  slot'[b] \in [1 .. size'[b] -> Value \cup {Null}]
  <2>1. CASE b = a
    <3>1. slot'[b] = [i \in 1 .. Slots(k) |->
                         IF i <= arity[k] THEN Arguments(k)[i] ELSE Null]
      BY <1>4, <2>1 DEF TypeOK
    <3> QED
      BY <1>1, <1>5, <2>1, <3>1
  <2>2. CASE b # a
    <3>1. slot'[b] = slot[b]
      BY <1>4, <2>2 DEF TypeOK
    <3> QED
      BY <1>5, <2>2, <3>1 DEF TypeOK
  <2> QED
    BY <2>1, <2>2
<1> QED
  BY <1>3, <1>4, <1>5, <1>6, <1>7 DEF k

(* What a frame of the chain says of its record. *)
LEMMA FrameFacts ==
    ASSUME Chain, NEW i \in 1 .. Len(frames)
    PROVE  /\ Len(frames) \in Nat
           /\ frames[i] \in FrameType /\ frames[i].ar \in Address /\ frames[i].top \in Nat
           /\ size[frames[i].ar] \in Nat
           /\ OnStack(frames[i].ar) => frames[i].ar < frames[i].top
           /\ ~OnStack(frames[i].ar) => frames[i].ar \in HeapRecord
<1>1. Len(frames) \in Nat /\ frames[i] \in FrameType
  BY ElementOfSeq, LenProperties DEF Chain, HistoryOK
<1>2. frames[i].ar \in Address /\ frames[i].top \in Nat
  BY <1>1 DEF FrameType
<1>3. size[frames[i].ar] \in Nat
  BY <1>2 DEF Chain, TypeOK
<1>4. Linked(i)
  BY <1>1 DEF Chain, CallChain
<1> QED
  BY <1>1, <1>2, <1>3, <1>4, BoundAssumption DEF Linked, HeaderSize, Address

(* A new record is nobody else's. *)
LEMMA NewRecordIsFresh ==
    ASSUME Chain, NEW n \in 0 .. Len(frames), NEW k, NEW a \in Address,
           OnHeapOrStack(a, k, FrameTop(n))
    PROVE  /\ a \notin HeapRecord
           /\ \A i \in 1 .. n : frames[i].ar # a
<1>1. a_count \in Nat /\ Len(frames) \in Nat
  BY LenProperties DEF Chain, HistoryOK, TypeOK
<1>2. FrameTop(n) \in Nat
  BY <1>1, FrameFacts DEF FrameTop
<1>3. CASE ContainsClosures(k)
  <2>1. a = -(a_count + 1) /\ ~OnStack(a) /\ a \notin HeapRecord
    BY <1>1, <1>3 DEF OnHeapOrStack, OnStack, HeapRecord
  <2> QED
    BY <1>1, <2>1, FrameFacts
<1>4. CASE ~ContainsClosures(k)
  <2>1. a = FrameTop(n)
    BY <1>4 DEF OnHeapOrStack
  <2>2. a \notin HeapRecord
    BY <1>1, <1>2, <2>1 DEF HeapRecord
  <2>3. ASSUME NEW i \in 1 .. n, frames[i].ar = a
        PROVE  FALSE
    <3>1. i \in 1 .. Len(frames) /\ n \in DOMAIN frames /\ i \in DOMAIN frames /\ n # 0
      BY <1>1, LenProperties DEF Chain, HistoryOK
    <3>2. frames[i].top <= FrameTop(n)
      BY <3>1 DEF Chain, Layout, FrameTop
    <3>3. OnStack(frames[i].ar)
      BY <1>2, <2>1, <2>3 DEF OnStack
    <3>4. frames[i].ar < frames[i].top /\ frames[i].top \in Nat
      BY <3>1, <3>3, FrameFacts
    <3> QED
      BY <1>2, <2>1, <2>3, <3>2, <3>4
  <2> QED
    BY <2>2, <2>3
<1> QED
  BY <1>3, <1>4

(***************************************************************************)
(* The chain of calls                                                      *)
(***************************************************************************)

(* A call, or a tail call with a new record, puts a frame on the first n   *)
(* frames of the chain.                                                    *)
LEMMA ChainGrows ==
    ASSUME Chain, CanApply, NEW n \in 0 .. Len(frames), NEW a \in Address, NEW below,
           below \in Seq(FrameType), Len(below) = n,
           \A i \in 1 .. n : below[i] = frames[i],
           NEW c \in Record, c = IF n = 0 THEN Null ELSE frames[n].ar,
           OnHeapOrStack(a, Top[1], FrameTop(n)), FrameTop(n) \in 0 .. AstackBound,
           NewRecord(a, Top[1], c), Enter(below, Top[1], Top[2], a),
           code' = Top[1], Len(cstack') = n, \A i \in 1 .. n : cstack'[i] = frames[i].code,
           sound' \in BOOLEAN
    PROVE  HistoryOK' /\ CallChain' /\ Layout' /\ EachCallHasItsRecord'
<1> DEFINE k == Top[1]
           f == Frame(k, a, Len(lex) + 1, astack_ptr')
<1>1. /\ k \in DOMAIN parent /\ k \in Routine /\ Slots(k) \in Nat /\ Slots(k) <= MaxSlots
      /\ Top[2] \in Nat
  BY AppliedClosure DEF Chain
<1>2. /\ astack_ptr' \in Nat
      /\ size' \in [Address -> Nat]
      /\ size'[a] = Slots(k) /\ caller'[a] = c
      /\ \A b \in Address \ {a} : size'[b] = size[b] /\ caller'[b] = caller[b]
  BY RecordIsMade, BoundAssumption DEF Chain
<1>3. Len(lex) \in Nat /\ Len(frames) \in Nat /\ a_count \in Nat /\ MaxSlots \in Nat
  BY LenProperties, RoutineAssumption DEF Chain, HistoryOK, TypeOK
<1>4. f \in FrameType
  BY <1>1, <1>2, <1>3 DEF Frame, FrameType
<1>5. /\ frames' = Append(below, f) /\ lex' = Append(lex, Top[2])
      /\ holds' = [holds EXCEPT ![a] = Len(lex) + 1]
      /\ current_ar' = a
  BY DEF Enter, NewRecord, k
<1> HIDE DEF k, f
<1>6. /\ frames' \in Seq(FrameType) /\ Len(frames') = n + 1
      /\ frames'[n + 1] = f
      /\ \A i \in 1 .. n : frames'[i] = frames[i]
      /\ DOMAIN frames' = 1 .. n + 1
  BY <1>4, <1>5, AppendIsStack, LenProperties
<1>7. f.code = k /\ f.ar = a /\ f.scope = Len(lex) + 1 /\ f.top = astack_ptr'
  BY DEF f, Frame
<1>8. a \notin HeapRecord /\ \A i \in 1 .. n : frames[i].ar # a
  BY NewRecordIsFresh
<1>9. HistoryOK'
  <2>1. lex' \in Seq(Nat)
    BY <1>1, <1>5, AppendIsStack DEF Chain, HistoryOK
  <2>2. holds' \in [Address -> Nat]
    BY <1>3, <1>5 DEF Chain, HistoryOK
  <2> QED
    BY <1>6, <2>1, <2>2 DEF HistoryOK
<1>10. \A i \in 0 .. n : FrameTop(i)' = FrameTop(i)
  BY <1>3, <1>6 DEF FrameTop
<1>11. /\ a_count' \in {a_count, a_count + 1}
       /\ OnStack(a) => a = FrameTop(n) /\ astack_ptr' = a + HeaderSize + Slots(k)
       /\ ~OnStack(a) => a \in HeapRecord' /\ astack_ptr' = FrameTop(n)
  <2>1. FrameTop(n) \in Nat
    BY BoundAssumption
  <2>2. CASE ContainsClosures(k)
    <3>1. a = -(a_count + 1) /\ a_count' = a_count + 1 /\ astack_ptr' = FrameTop(n)
      BY <2>2 DEF OnHeapOrStack, k
    <3> QED
      BY <1>3, <3>1 DEF OnStack, HeapRecord
  <2>3. CASE ~ContainsClosures(k)
    <3>1. /\ a = FrameTop(n) /\ astack_ptr' = FrameTop(n) + HeaderSize + Slots(k)
          /\ a_count' = a_count
      BY <2>3 DEF OnHeapOrStack, k
    <3> QED
      BY <2>1, <3>1 DEF OnStack
  <2> QED
    BY <2>2, <2>3
<1>12. ASSUME NEW i \in 1 .. n
       PROVE  Linked(i)'
  <2>1. i \in 1 .. Len(frames) /\ i - 1 \in 0 .. n /\ i < Len(frames')
    BY <1>3, <1>6
  <2>2. /\ frames'[i] = frames[i] /\ frames[i].ar \in Address \ {a}
        /\ i # 1 => frames'[i - 1] = frames[i - 1]
    BY <1>6, <1>8, <2>1, FrameFacts
  <2>3. Linked(i) /\ cstack'[i] = frames[i].code
    BY <2>1 DEF Chain, CallChain
  <2>4. HeapRecord \subseteq HeapRecord'
    <3>1. a_count' \in Nat /\ a_count' >= a_count
      BY <1>3, <1>11
    <3>2. ASSUME NEW b \in HeapRecord
          PROVE  b \in HeapRecord'
      BY <1>3, <3>1, <3>2 DEF HeapRecord
    <3> QED
      BY <3>2
  <2>5. FrameTop(i - 1)' = FrameTop(i - 1)
    BY <1>10, <2>1
  <2> QED
    BY <1>2, <2>1, <2>2, <2>3, <2>4, <2>5 DEF Linked, OnStack
<1>13. Linked(n + 1)'
  <2>1. FrameTop(n)' = FrameTop(n) /\ ~(n + 1 < Len(frames'))
    BY <1>6, <1>10
  <2>2. caller'[a] = IF n + 1 = 1 THEN Null ELSE frames'[n].ar
    BY <1>2, <1>6
  <2>3. n + 1 - 1 = n
    OBVIOUS
  <2>4. frames'[n + 1].ar = a /\ frames'[n + 1].top = astack_ptr'
    BY <1>6, <1>7
  <2> QED
    BY <1>2, <1>11, <2>1, <2>2, <2>3, <2>4 DEF Linked, OnStack
<1>14. CallChain'
  <2>1. \A i \in 1 .. n + 1 : Linked(i)'
    BY <1>12, <1>13
  <2>2. /\ Len(frames') >= 1 /\ Len(cstack') = Len(frames') - 1
        /\ current_ar' = frames'[Len(frames')].ar /\ code' = frames'[Len(frames')].code
        /\ astack_ptr' = frames'[Len(frames')].top
    BY <1>5, <1>6, <1>7 DEF k
  <2> QED
    BY <1>6, <2>1, <2>2 DEF CallChain
<1>15. astack_ptr' >= FrameTop(n) /\ astack_ptr' <= FrameTop(n) + HeaderSize + MaxSlots
  BY <1>1, <1>3, <1>11, BoundAssumption DEF HeaderSize
<1>16. Layout'
  <2>1. \A i \in 1 .. n : i \in DOMAIN frames /\ n \in DOMAIN frames
    BY <1>3, LenProperties DEF Chain, HistoryOK
  <2>2. \A i \in 1 .. n : frames[i].top <= FrameTop(n) /\ frames[i].top \in Nat
    BY <1>3, <2>1, FrameFacts DEF Chain, Layout, FrameTop
  <2>3. \A i, j \in 1 .. n + 1 : i <= j => frames'[i].top <= frames'[j].top
    <3> TAKE i, j \in 1 .. n + 1
    <3> HAVE i <= j
    <3>1. CASE j = n + 1 /\ i = n + 1
      BY <1>2, <1>6, <1>7, <3>1
    <3>2. CASE j = n + 1 /\ i # n + 1
      <4>1. i \in 1 .. n
        BY <3>2
      <4> QED
        BY <1>2, <1>6, <1>7, <1>15, <2>2, <3>2, <4>1, BoundAssumption
    <3>3. CASE j # n + 1
      <4>1. i \in 1 .. n /\ j \in 1 .. n
        BY <3>3
      <4> QED
        BY <1>6, <2>1, <4>1 DEF Chain, Layout
    <3> QED
      BY <3>1, <3>2, <3>3
  <2>4. ASSUME NEW i \in 1 .. n + 1
        PROVE  /\ size'[frames'[i].ar] <= MaxSlots
               /\ frames'[i].top <= i * (HeaderSize + MaxSlots)
    <3>1. CASE i \in 1 .. n
      <4>1. frames'[i] = frames[i] /\ frames[i].ar \in Address \ {a}
        BY <1>3, <1>6, <1>8, <3>1, FrameFacts
      <4>2. size'[frames[i].ar] = size[frames[i].ar]
        BY <1>2, <4>1
      <4> QED
        BY <2>1, <3>1, <4>1, <4>2 DEF Chain, Layout
    <3>2. CASE i = n + 1
      <4>1. FrameTop(n) <= n * (HeaderSize + MaxSlots)
        BY <1>3, <2>1 DEF Chain, Layout, FrameTop, HeaderSize
      <4>2. i * (HeaderSize + MaxSlots) = n * (HeaderSize + MaxSlots) + (HeaderSize + MaxSlots)
        BY <1>3, <3>2 DEF HeaderSize
      <4>3. n * (HeaderSize + MaxSlots) \in Int
        BY <1>3 DEF HeaderSize
      <4>4. frames'[i].top = astack_ptr' /\ frames'[i].ar = a
        BY <1>6, <1>7, <3>2
      <4>5. FrameTop(n) \in Nat /\ HeaderSize \in Nat
        BY BoundAssumption DEF HeaderSize
      <4> HIDE DEF HeaderSize
      <4>6. astack_ptr' <= i * (HeaderSize + MaxSlots)
        <5> DEFINE p == n * (HeaderSize + MaxSlots)
                   q == i * (HeaderSize + MaxSlots)
        <5>1. FrameTop(n) <= p /\ q = p + (HeaderSize + MaxSlots) /\ p \in Int
          BY <4>1, <4>2, <4>3
        <5> HIDE DEF p, q
        <5>2. astack_ptr' <= q
          BY <1>2, <1>3, <1>15, <4>5, <5>1
        <5> QED
          BY <5>2 DEF q
      <4> QED
        BY <1>1, <1>2, <4>4, <4>6
    <3> QED
      BY <3>1, <3>2
  <2> QED
    BY <1>6, <2>3, <2>4 DEF Layout
<1>17. EachCallHasItsRecord'
  <2>1. ASSUME NEW i \in 1 .. n + 1
        PROVE  holds'[frames'[i].ar] = frames'[i].scope
    <3>1. CASE i \in 1 .. n
      <4>1. /\ frames'[i] = frames[i] /\ frames[i].ar \in Address \ {a}
            /\ i \in DOMAIN frames
        BY <1>3, <1>6, <1>8, <3>1, FrameFacts, LenProperties DEF Chain, HistoryOK
      <4> QED
        BY <1>5, <4>1 DEF Chain, EachCallHasItsRecord, HistoryOK
    <3>2. CASE i = n + 1
      BY <1>5, <1>6, <1>7, <3>2 DEF Chain, HistoryOK
    <3> QED
      BY <3>1, <3>2
  <2>2. ASSUME NEW i \in 1 .. n + 1, NEW j \in 1 .. n + 1, frames'[i].ar = frames'[j].ar
        PROVE  i = j
    <3>1. CASE i \in 1 .. n /\ j \in 1 .. n
      <4>1. i \in DOMAIN frames /\ j \in DOMAIN frames
        BY <1>3, <3>1, LenProperties DEF Chain, HistoryOK
      <4> QED
        BY <1>6, <2>2, <3>1, <4>1 DEF Chain, EachCallHasItsRecord
    <3>2. CASE i = n + 1 \/ j = n + 1
      BY SMTT(30), <1>6, <1>7, <1>8, <2>2, <3>2
    <3> QED
      BY <3>1, <3>2
  <2> QED
    BY <1>6, <2>1, <2>2 DEF EachCallHasItsRecord
<1> QED
  BY <1>9, <1>14, <1>16, <1>17

(* A tail call in the record of its caller.                                *)
LEMMA ChainStaysInRecord ==
    ASSUME Chain, CanApply, Enter(Callers, Top[1], Top[2], current_ar),
           code' = Top[1],
           UNCHANGED <<cstack, astack_ptr, current_ar, a_count, size, caller>>,
           sound' \in BOOLEAN
    PROVE  HistoryOK' /\ CallChain' /\ Layout' /\ EachCallHasItsRecord'
<1> DEFINE k == Top[1]
           n == Len(frames)
           a == current_ar
           f == Frame(k, a, Len(lex) + 1, astack_ptr')
<1>1. k \in Routine /\ Top[2] \in Nat
  BY AppliedClosure DEF Chain
<1>2. n \in Nat /\ n >= 1 /\ Len(lex) \in Nat /\ DOMAIN frames = 1 .. n
  BY LenProperties DEF Chain, HistoryOK, CallChain
<1>3. a \in Address /\ a = frames[n].ar /\ astack_ptr = frames[n].top /\ astack_ptr \in Nat
  BY BoundAssumption DEF Chain, CallChain, TypeOK
<1>4. f \in FrameType
  BY <1>1, <1>2, <1>3 DEF Frame, FrameType
<1>5. f.code = k /\ f.ar = a /\ f.scope = Len(lex) + 1 /\ f.top = astack_ptr
  BY DEF f, Frame
<1>6. /\ frames' = Append(Callers, f) /\ lex' = Append(lex, Top[2])
      /\ holds' = [holds EXCEPT ![a] = Len(lex) + 1]
  BY DEF Enter, k
<1>7. /\ Callers \in Seq(FrameType) /\ Len(Callers) = n - 1
      /\ \A i \in 1 .. n - 1 : Callers[i] = frames[i]
  BY <1>2, PopIsStack DEF Callers, Chain, HistoryOK
<1> HIDE DEF k, f
<1>8. /\ frames' \in Seq(FrameType) /\ Len(frames') = n
      /\ frames'[n] = f
      /\ \A i \in 1 .. n - 1 : frames'[i] = frames[i]
      /\ DOMAIN frames' = 1 .. n
  <2>1. /\ frames' \in Seq(FrameType) /\ Len(frames') = Len(Callers) + 1
        /\ frames'[Len(Callers) + 1] = f
        /\ \A i \in 1 .. Len(Callers) : frames'[i] = Callers[i]
    BY <1>4, <1>6, <1>7, AppendIsStack
  <2>2. Len(Callers) + 1 = n
    BY <1>2, <1>7
  <2>3. DOMAIN frames' = 1 .. Len(frames')
    BY <2>1, LenProperties
  <2> QED
    BY <1>7, <2>1, <2>2, <2>3
<1>9. /\ \A i \in 1 .. n : frames'[i].ar = frames[i].ar /\ frames'[i].top = frames[i].top
      /\ \A i \in 1 .. n - 1 : frames'[i].code = frames[i].code
  BY <1>2, <1>3, <1>5, <1>8
<1>10. HistoryOK'
  <2>1. lex' \in Seq(Nat)
    BY <1>1, <1>6, AppendIsStack DEF Chain, HistoryOK
  <2>2. holds' \in [Address -> Nat]
    <3>1. holds \in [Address -> Nat] /\ Len(lex) + 1 \in Nat
      BY <1>2 DEF Chain, HistoryOK
    <3> QED
      BY <1>6, <3>1
  <2> QED
    BY <1>8, <2>1, <2>2 DEF HistoryOK
<1>11. \A i \in 0 .. n : FrameTop(i)' = FrameTop(i)
  BY <1>2, <1>9 DEF FrameTop
<1>12. ASSUME NEW i \in 1 .. n
       PROVE  Linked(i)'
  <2>1. Linked(i)
    BY DEF Chain, CallChain
  <2>2. FrameTop(i - 1)' = FrameTop(i - 1)
    BY <1>2, <1>11
  <2>3. i # 1 => i - 1 \in 1 .. n - 1
    BY <1>2
  <2>4. i < n => i \in 1 .. n - 1
    BY <1>2
  <2> QED
    BY <1>8, <1>9, <2>1, <2>2, <2>3, <2>4 DEF Linked, OnStack, HeapRecord
<1>13. CallChain'
  <2>1. Len(cstack') = n - 1
    BY DEF Chain, CallChain
  <2>2. \A i \in 1 .. n : Linked(i)'
    BY <1>12
  <2> QED
    BY <1>2, <1>3, <1>5, <1>8, <2>1, <2>2 DEF CallChain, k
<1>14. Layout'
  BY <1>2, <1>8, <1>9 DEF Chain, Layout
<1>15. EachCallHasItsRecord'
  <2>1. ASSUME NEW i \in 1 .. n
        PROVE  holds'[frames'[i].ar] = frames'[i].scope
    <3>1. CASE i = n
      BY <1>3, <1>5, <1>6, <1>8, <3>1 DEF Chain, HistoryOK
    <3>2. CASE i # n
      <4>1. i \in 1 .. n - 1 /\ n \in DOMAIN frames /\ i \in DOMAIN frames
        <5>1. n \in 1 .. n /\ i \in 1 .. n - 1
          <6>1. n \in Nat /\ n >= 1
            BY <1>2
          <6> HIDE DEF n
          <6> QED
            BY <3>2, <6>1
        <5> QED
          BY <1>2, <5>1
      <4>2. frames[i].ar # a /\ frames[i].ar \in Address
        BY <1>2, <1>3, <3>2, <4>1, FrameFacts DEF Chain, EachCallHasItsRecord
      <4> QED
        BY <1>6, <1>8, <4>1, <4>2 DEF Chain, EachCallHasItsRecord, HistoryOK
    <3> QED
      BY <3>1, <3>2
  <2>2. \A i, j \in 1 .. n : frames'[i].ar = frames'[j].ar => i = j
    BY <1>2, <1>9 DEF Chain, EachCallHasItsRecord
  <2> QED
    BY <1>8, <2>1, <2>2 DEF EachCallHasItsRecord
<1> QED
  BY <1>10, <1>13, <1>14, <1>15

(* A return takes the last frame off, and goes on where its call was made. *)
LEMMA ChainShrinks ==
    ASSUME Chain, Ret
    PROVE  HistoryOK' /\ CallChain' /\ Layout' /\ EachCallHasItsRecord' /\ TypeOK'
<1> DEFINE n == Len(frames)
           a == current_ar
<1>1. n \in Nat /\ n >= 1 /\ DOMAIN frames = 1 .. n
  BY LenProperties DEF Chain, HistoryOK, CallChain
<1>2. /\ a \in Address /\ a = frames[n].ar /\ astack_ptr = frames[n].top
      /\ Linked(n) /\ Len(cstack) = n - 1
  BY <1>1 DEF Chain, CallChain, TypeOK
<1>3. UNCHANGED <<vstack, records, closure_ar, lex, holds, sound>>
  BY DEF Ret
<1>4. CASE caller[a] = Null
  <2>1. UNCHANGED <<code, cstack, astack_ptr, current_ar, frames>> /\ returned' = TRUE
    BY <1>4 DEF Ret
  <2>2. \A i : Linked(i)' <=> Linked(i)
    BY <1>3, <2>1 DEF Linked, FrameTop, OnStack, HeapRecord, records
  <2>3. CallChain'
    BY <1>3, <2>1, <2>2 DEF Chain, CallChain
  <2> QED
    BY <1>3, <2>1, <2>3
       DEF Chain, HistoryOK, Layout, EachCallHasItsRecord, TypeOK, records
<1>5. CASE caller[a] # Null
  <2>1. n # 1 /\ n - 1 \in 1 .. n
    BY <1>1, <1>2, <1>5 DEF Linked
  <2>2. /\ code' = cstack[Len(cstack)] /\ cstack' = SubSeq(cstack, 1, Len(cstack) - 1)
        /\ astack_ptr' = TopWithout(a) /\ current_ar' = caller[a]
        /\ frames' = Callers /\ returned' = returned
    BY <1>5 DEF Ret
  <2>3. /\ frames' \in Seq(FrameType) /\ Len(frames') = n - 1
        /\ \A i \in 1 .. n - 1 : frames'[i] = frames[i]
        /\ DOMAIN frames' = 1 .. n - 1
    BY <1>1, <2>2, PopIsStack, LenProperties DEF Callers, Chain, HistoryOK
  <2>4. /\ cstack' \in Seq(Routine) /\ Len(cstack') = n - 2
        /\ \A i \in 1 .. n - 2 : cstack'[i] = cstack[i]
    <3>1. cstack \in Seq(Routine) /\ Len(cstack) - 1 \in 0 .. Len(cstack)
      BY <1>1, <1>2, <2>1 DEF Chain, TypeOK
    <3> QED
      BY <1>1, <1>2, <2>1, <2>2, <3>1, PopIsStack
  <2>5. Linked(n - 1)
    BY <2>1 DEF Chain, CallChain
  <2>6. code' = frames[n - 1].code /\ current_ar' = frames[n - 1].ar
    BY <1>1, <1>2, <2>1, <2>2, <2>5 DEF Linked
  <2>7. astack_ptr' = frames[n - 1].top
    <3>1. n \in 1 .. Len(frames)
      BY <1>1
    <3>2. frames[n].top \in Nat /\ frames[n - 1].top \in Nat
      BY <2>1, <3>1, FrameFacts
    <3>3. size[a] \in Nat /\ a \in Int
      BY <1>2, <3>1, FrameFacts, BoundAssumption DEF Address
    <3>4. FrameTop(n - 1) = frames[n - 1].top
      BY <1>1, <2>1 DEF FrameTop
    <3>5. CASE OnStack(a)
      <4>1. a = frames[n - 1].top /\ frames[n].top = a + HeaderSize + size[a]
        BY <1>2, <3>4, <3>5 DEF Linked
      <4>2. astack_ptr' = frames[n].top - (HeaderSize + size[a])
        BY <1>2, <2>2, <3>5 DEF TopWithout
      <4> QED
        BY SMTT(30), <3>2, <3>3, <4>1, <4>2 DEF HeaderSize
    <3>6. CASE ~OnStack(a)
      BY <1>2, <2>2, <3>4, <3>6 DEF TopWithout, Linked
    <3> QED
      BY <3>5, <3>6
  <2>8. \A i \in 0 .. n - 1 : FrameTop(i)' = FrameTop(i)
    BY <2>3 DEF FrameTop
  <2>9. ASSUME NEW i \in 1 .. n - 1
        PROVE  Linked(i)'
    <3>1. Linked(i) /\ i \in 1 .. n
      BY <1>1 DEF Chain, CallChain
    <3>2. FrameTop(i - 1)' = FrameTop(i - 1)
      BY <1>1, <2>8
    <3>3. i # 1 => i - 1 \in 1 .. n - 1
      BY <1>1
    <3>4. i < n - 1 => i \in 1 .. n - 2 /\ i < n
      BY <1>1
    <3>5. UNCHANGED <<size, caller, a_count>>
      BY <1>3 DEF records
    <3> QED
      BY <2>3, <2>4, <3>1, <3>2, <3>3, <3>4, <3>5 DEF Linked, OnStack, HeapRecord
  <2>10. CallChain'
    <3>1. \A i \in 1 .. n - 1 : Linked(i)'
      BY <2>9
    <3> QED
      BY <1>1, <2>1, <2>3, <2>4, <2>6, <2>7, <3>1 DEF CallChain
  <2>11. Layout' /\ EachCallHasItsRecord'
    BY <1>1, <1>3, <2>3 DEF Chain, Layout, EachCallHasItsRecord, records
  <2>12. HistoryOK'
    BY <1>3, <2>3 DEF Chain, HistoryOK
  <2>13. TypeOK'
    <3>1. /\ frames[n - 1] \in FrameType /\ frames[n - 1].top \in Nat
          /\ frames[n - 1].top <= frames[n].top
      BY <1>1, <2>1, FrameFacts DEF Chain, Layout
    <3>2. code' \in Routine /\ current_ar' \in Address /\ astack_ptr' \in 0 .. AstackBound
      BY <1>2, <2>6, <2>7, <3>1, BoundAssumption DEF FrameType, Chain, TypeOK
    <3> QED
      BY <1>3, <2>2, <2>4, <3>2 DEF Chain, TypeOK, records
  <2> QED
    BY <2>10, <2>11, <2>12, <2>13
<1> QED
  BY <1>4, <1>5

(***************************************************************************)
(* The steps                                                               *)
(***************************************************************************)

(* A step that leaves the calls alone keeps the chain.                     *)
LEMMA ChainIsLeftAlone ==
    ASSUME Chain,
           UNCHANGED <<code, cstack, astack_ptr, current_ar, a_count, size, caller>>,
           UNCHANGED <<frames, lex, holds>>, sound' \in BOOLEAN
    PROVE  HistoryOK' /\ CallChain' /\ Layout' /\ EachCallHasItsRecord'
<1>1. UNCHANGED <<frames, lex, holds>>
  OBVIOUS
<1>2. \A i : Linked(i)' <=> Linked(i)
  BY <1>1 DEF Linked, FrameTop, OnStack, HeapRecord
<1>3. CallChain'
  BY <1>1, <1>2 DEF Chain, CallChain
<1> QED
  BY <1>1, <1>3 DEF Chain, HistoryOK, Layout, EachCallHasItsRecord

LEMMA HistoryIsLeftAlone ==
    ASSUME Chain,
           UNCHANGED <<code, cstack, astack_ptr, current_ar, a_count, size, caller, history>>
    PROVE  HistoryOK' /\ CallChain' /\ Layout' /\ EachCallHasItsRecord'
<1>1. UNCHANGED <<frames, lex, holds>> /\ sound' = sound
  BY DEF history
<1>2. sound' \in BOOLEAN
  BY <1>1 DEF Chain, HistoryOK
<1>3. UNCHANGED <<code, cstack, astack_ptr, current_ar, a_count, size, caller>>
  OBVIOUS
<1> QED
  BY <1>1, <1>2, <1>3, ChainIsLeftAlone

(* What is on the value stack.                                             *)
LEMMA StackTypes ==
    ASSUME TypeOK
    PROVE  /\ Len(vstack) \in Nat
           /\ vstack # <<>> => Top \in Value
           /\ \A n \in 0 .. Len(vstack) : Pop(n) \in Seq(Value)
           /\ \A v \in Value : Append(vstack, v) \in Seq(Value)
<1>1. vstack \in Seq(Value) /\ Len(vstack) \in Nat
  BY LenProperties DEF TypeOK
<1>2. vstack # <<>> => Top \in Value
  BY <1>1, ElementOfSeq, EmptySeq DEF Top
<1>3. ASSUME NEW n \in 0 .. Len(vstack)
      PROVE  Pop(n) \in Seq(Value)
  <2>1. Len(vstack) - n \in 0 .. Len(vstack)
    BY <1>1
  <2> QED
    BY <1>1, <2>1, PopIsStack DEF Pop
<1> QED
  BY <1>1, <1>2, <1>3, AppendIsStack

(* A value put into a variable leaves every record what it is.             *)
LEMMA VariableIsSet ==
    ASSUME TypeOK, NEW a \in Address, NEW i \in 1 .. size[a], NEW v \in Value,
           slot' = [slot EXCEPT ![a][i] = v], size' = size
    PROVE  /\ DOMAIN slot' = Address
           /\ \A b \in Address : slot'[b] \in [1 .. size'[b] -> Value \cup {Null}]
<1>1. DOMAIN slot = Address
      /\ \A b \in Address : slot[b] \in [1 .. size[b] -> Value \cup {Null}]
  BY DEF TypeOK
<1>2. DOMAIN slot' = Address
  BY <1>1
<1>3. ASSUME NEW b \in Address
      PROVE  slot'[b] \in [1 .. size'[b] -> Value \cup {Null}]
  <2>1. CASE b = a
    <3>1. slot'[b] = [slot[a] EXCEPT ![i] = v]
      BY <1>1, <2>1
    <3> QED
      BY <1>1, <2>1, <3>1
  <2>2. CASE b # a
    BY <1>1, <2>2
  <2> QED
    BY <2>1, <2>2
<1> QED
  BY <1>2, <1>3

(* Without the current record the activation stack is that of the caller.  *)
LEMMA TopOfTheCaller ==
    ASSUME Chain
    PROVE  /\ Len(frames) - 1 \in 0 .. Len(frames)
           /\ FrameTop(Len(frames) - 1) = TopWithout(current_ar)
           /\ FrameTop(Len(frames) - 1) \in 0 .. AstackBound
<1> DEFINE n == Len(frames) - 1
<1>1. n \in 0 .. Len(frames) /\ n + 1 = Len(frames) /\ n + 1 \in 1 .. Len(frames)
  BY LenProperties DEF Chain, HistoryOK, CallChain
<1>2. /\ current_ar = frames[n + 1].ar /\ astack_ptr = frames[n + 1].top
      /\ Linked(n + 1)
  BY <1>1 DEF Chain, CallChain
<1>3. FrameTop(n) = TopWithout(current_ar)
  <2>1. frames[n + 1].top \in Nat /\ size[current_ar] \in Nat /\ current_ar \in Int
    BY <1>1, <1>2, FrameFacts, BoundAssumption DEF Address
  <2>2. n + 1 - 1 = n
    BY <1>1
  <2>3. CASE OnStack(current_ar)
    <3>1. current_ar = FrameTop(n)
          /\ frames[n + 1].top = current_ar + HeaderSize + size[current_ar]
      BY <1>2, <2>2, <2>3 DEF Linked
    <3> QED
      BY <1>2, <2>1, <2>3, <3>1 DEF TopWithout, HeaderSize
  <2>4. CASE ~OnStack(current_ar)
    BY <1>2, <2>2, <2>4 DEF TopWithout, Linked
  <2> QED
    BY <2>3, <2>4
<1>4. FrameTop(n) \in 0 .. AstackBound
  <2>1. n = 0 \/ n \in 1 .. Len(frames)
    BY <1>1
  <2>2. CASE n = 0
    BY <2>2, BoundAssumption DEF FrameTop
  <2>3. CASE n # 0
    <3>1. n \in 1 .. Len(frames)
      BY <2>1, <2>3
    <3>2. FrameTop(n) = frames[n].top /\ frames[n].top \in Nat
      BY <2>3, <3>1, FrameFacts DEF FrameTop
    <3>3. n \in DOMAIN frames /\ n + 1 \in DOMAIN frames /\ n <= n + 1
      BY <1>1, <3>1, LenProperties DEF Chain, HistoryOK
    <3>4. frames[n].top <= astack_ptr
      BY <1>2, <3>3 DEF Chain, Layout
    <3> QED
      BY <3>2, <3>4, BoundAssumption DEF Chain, TypeOK
  <2> QED
    BY <2>2, <2>3
<1> QED
  BY <1>1, <1>3, <1>4

(* Every step keeps the chain.                                             *)
LEMMA ChainStep ==
    ASSUME Chain, [Next]_vars
    PROVE  Chain'
<1>1. TypeOK
  BY DEF Chain
<1> DEFINE Rest == HistoryOK' /\ CallChain' /\ Layout' /\ EachCallHasItsRecord'
<1> SUFFICES TypeOK' /\ Rest
  BY DEF Chain
<1> HIDE DEF Rest
<1>2. ASSUME OnlyValues, vstack' \in Seq(Value)
      PROVE  TypeOK' /\ Rest
  <2>1. Rest
    BY <1>2, HistoryIsLeftAlone DEF OnlyValues, records, history, Rest
  <2>2. TypeOK'
    BY <1>1, <1>2 DEF OnlyValues, TypeOK, records
  <2> QED
    BY <2>1, <2>2
<1>3. ASSUME NEW x \in Data, PushValue(x)
      PROVE  TypeOK' /\ Rest
  <2>1. Append(vstack, x) \in Seq(Value)
    BY <1>1, StackTypes DEF Value
  <2> QED
    BY <1>2, <1>3, <2>1 DEF PushValue, Push
<1>4. ASSUME NEW n \in 0 .. 2, NEW x \in Seq(Value), Builtin(n, x)
      PROVE  TypeOK' /\ Rest
  <2>1. n \in 0 .. Len(vstack)
    BY <1>1, <1>4, StackTypes DEF Builtin
  <2>2. Pop(n) \o x \in Seq(Value)
    BY <1>1, <2>1, StackTypes, ConcatProperties
  <2> QED
    BY <1>2, <1>4, <2>2 DEF Builtin
<1>5. ASSUME NEW u \in 0 .. 2, NEW i \in 1 .. MaxSlots, PushLocal(u, i)
      PROVE  TypeOK' /\ Rest
  <2> DEFINE v == slot[RecordUp(u)][i]
  <2>1. IsVariable(RecordUp(u), i) /\ v # Null /\ vstack' = Append(vstack, v) /\ OnlyValues
    BY <1>5 DEF PushLocal, Push
  <2>2. v \in Value
    BY <1>1, <2>1 DEF IsVariable, TypeOK
  <2>3. Append(vstack, v) \in Seq(Value)
    BY <1>1, <2>2, StackTypes
  <2> QED
    BY <1>2, <2>1, <2>3
<1>6. ASSUME OnlyVariables, vstack # <<>>, vstack' = Pop(1),
             NEW a, NEW i, IsVariable(a, i), slot' = [slot EXCEPT ![a][i] = Top]
      PROVE  TypeOK' /\ Rest
  <2>1. Rest
    BY <1>6, HistoryIsLeftAlone DEF OnlyVariables, history, Rest
  <2>2. Top \in Value /\ Pop(1) \in Seq(Value)
    <3>1. Len(vstack) \in Nat /\ Len(vstack) # 0
      BY <1>1, <1>6, EmptySeq DEF TypeOK
    <3> QED
      BY <1>1, <1>6, <3>1, StackTypes
  <2>3. /\ DOMAIN slot' = Address
        /\ \A b \in Address : slot'[b] \in [1 .. size'[b] -> Value \cup {Null}]
    BY <1>1, <1>6, <2>2, VariableIsSet DEF IsVariable, OnlyVariables
  <2>4. TypeOK'
    BY <1>1, <1>6, <2>2, <2>3 DEF OnlyVariables, TypeOK
  <2> QED
    BY <2>1, <2>4
<1>7. ASSUME NEW u \in 0 .. 2, NEW i \in 1 .. MaxSlots, PopLocal(u, i)
      PROVE  TypeOK' /\ Rest
  BY <1>6, <1>7 DEF PopLocal
<1>8. ASSUME NEW i \in 1 .. MaxSlots, InitLocal(i)
      PROVE  TypeOK' /\ Rest
  BY <1>6, <1>8 DEF InitLocal
<1>9. ASSUME NEW k \in Routine \ {Main}, PushClosure(k)
      PROVE  TypeOK' /\ Rest
  <2>1. Rest
    <3>1. /\ UNCHANGED <<code, cstack, astack_ptr, current_ar, a_count, size, caller>>
          /\ UNCHANGED <<frames, lex, holds>> /\ sound' \in BOOLEAN
      BY <1>9 DEF PushClosure, records
    <3> QED
      BY <3>1, ChainIsLeftAlone DEF Rest
  <2>2. k \in DOMAIN parent
    BY RoutineAssumption
  <2>3. ThisFrame.scope \in Nat
    <3>1. Len(frames) \in 1 .. Len(frames)
      BY LenProperties DEF Chain, HistoryOK, CallChain
    <3> QED
      BY <3>1, FrameFacts DEF ThisFrame, FrameType
  <2>4. Append(vstack, Closure(k, ThisFrame.scope)) \in Seq(Value)
    BY <1>1, <2>2, <2>3, StackTypes DEF Closure, Value
  <2>5. current_ar \in Record /\ closure_ar' \in [DOMAIN parent -> Record]
    BY <1>1, <1>9 DEF TypeOK, Record, PushClosure
  <2>6. TypeOK'
    BY <1>1, <1>9, <2>4, <2>5 DEF PushClosure, Push, TypeOK, records
  <2> QED
    BY <2>1, <2>6
<1>10. ASSUME NEW k \in Routine \ {Main}, ForeignSetActivation(k)
      PROVE  TypeOK' /\ Rest
  <2>1. Rest
    BY <1>10, HistoryIsLeftAlone DEF ForeignSetActivation, machine, records, Rest
  <2>2. closure_ar' \in [DOMAIN parent -> Record]
    BY <1>1, <1>10 DEF TypeOK, Record, ForeignSetActivation
  <2>3. TypeOK'
    BY <1>1, <1>10, <2>2 DEF ForeignSetActivation, TypeOK, records, machine
  <2> QED
    BY <2>1, <2>3
<1>11. CASE Call
  <2> DEFINE k == Top[1]
             n == Len(frames)
  <2>1. CanApply
    BY <1>11 DEF Call
  <2>2. n \in 0 .. Len(frames) /\ n # 0 /\ n \in Nat /\ n \in 1 .. Len(frames)
    BY LenProperties DEF Chain, HistoryOK, CallChain
  <2>3. FrameTop(n) = astack_ptr /\ FrameTop(n) \in 0 .. AstackBound
    BY <1>1, <2>2 DEF FrameTop, Chain, CallChain, TypeOK
  <2>4. current_ar = frames[n].ar /\ current_ar \in Record /\ code \in Routine
        /\ cstack \in Seq(Routine) /\ Len(cstack) = n - 1 /\ code = frames[n].code
    BY <1>1, <2>2 DEF Chain, CallChain, TypeOK, Record
  <2>5. PICK a \in Address : /\ OnHeapOrStack(a, k, FrameTop(n))
                             /\ NewRecord(a, k, current_ar)
                             /\ Enter(frames, k, Top[2], a)
    BY <1>11, <2>3 DEF Call
  <2>6. /\ vstack' = Pop(arity[k] + 1) /\ cstack' = Append(cstack, code) /\ code' = k
        /\ sound' \in BOOLEAN /\ UNCHANGED <<closure_ar, returned>>
    BY <1>11 DEF Call
  <2>7. /\ cstack' \in Seq(Routine) /\ Len(cstack') = n
        /\ \A i \in 1 .. n : cstack'[i] = frames[i].code
    <3>1. /\ cstack' \in Seq(Routine) /\ Len(cstack') = Len(cstack) + 1
          /\ \A i \in 1 .. Len(cstack) : cstack'[i] = cstack[i]
          /\ cstack'[Len(cstack) + 1] = code
      BY <2>4, <2>6, AppendIsStack
    <3>2. \A i \in 1 .. n - 1 : cstack[i] = frames[i].code
      BY <2>2 DEF Chain, CallChain, Linked
    <3> QED
      BY <2>2, <2>4, <3>1, <3>2
  <2>8. frames \in Seq(FrameType)
    BY DEF Chain, HistoryOK
  <2>9. Rest
    BY <2>1, <2>2, <2>3, <2>4, <2>5, <2>6, <2>7, <2>8, ChainGrows DEF Rest
  <2>10. TypeOK'
    BY <1>1, <2>1, <2>3, <2>4, <2>5, <2>6, <2>7, RecordIsMade, AppliedClosure
       DEF TypeOK, Chain
  <2> QED
    BY <2>9, <2>10
<1>12. CASE GotoNewRecord
  <2> DEFINE k == Top[1]
             n == Len(frames) - 1
             c == caller[current_ar]
  <2>1. CanApply
    BY <1>12 DEF GotoNewRecord
  <2>2. n \in 0 .. Len(frames) /\ n + 1 = Len(frames) /\ n + 1 \in 1 .. Len(frames)
    BY LenProperties DEF Chain, HistoryOK, CallChain
  <2>3. /\ current_ar = frames[n + 1].ar /\ astack_ptr = frames[n + 1].top
        /\ Linked(n + 1) /\ Len(cstack) = n
    BY <2>2 DEF Chain, CallChain
  <2>4. c \in Record /\ c = IF n = 0 THEN Null ELSE frames[n].ar
    <3>1. n + 1 - 1 = n /\ (n + 1 = 1 <=> n = 0)
      BY <2>2
    <3>2. c = IF n = 0 THEN Null ELSE frames[n].ar
      BY <2>3, <3>1 DEF Linked
    <3> QED
      BY <1>1, <3>2 DEF TypeOK
  <2>5. TopWithout(current_ar) = FrameTop(n)
    BY TopOfTheCaller
  <2>6. FrameTop(n) \in 0 .. AstackBound
    BY TopOfTheCaller
  <2>7. PICK a \in Address : /\ OnHeapOrStack(a, k, FrameTop(n))
                             /\ NewRecord(a, k, c)
                             /\ Enter(Callers, k, Top[2], a)
    BY <1>12, <2>5 DEF GotoNewRecord
  <2>8. /\ vstack' = Pop(arity[k] + 1) /\ code' = k /\ sound' \in BOOLEAN
        /\ UNCHANGED <<cstack, closure_ar, returned>>
    BY <1>12 DEF GotoNewRecord
  <2>9. /\ Callers \in Seq(FrameType) /\ Len(Callers) = n
        /\ \A i \in 1 .. n : Callers[i] = frames[i]
    BY <2>2, PopIsStack DEF Callers, Chain, HistoryOK
  <2>10. Len(cstack') = n /\ \A i \in 1 .. n : cstack'[i] = frames[i].code
    <3>1. \A i \in 1 .. n : i \in 1 .. Len(frames) /\ i < Len(frames)
      BY <2>2
    <3> QED
      BY <2>3, <2>8, <3>1 DEF Chain, CallChain, Linked
  <2>11. Rest
    <3> HIDE DEF c, n, k
    <3> QED
      BY <2>1, <2>2, <2>4, <2>6, <2>7, <2>8, <2>9, <2>10, ChainGrows DEF Rest, k
  <2>12. TypeOK'
    <3> HIDE DEF c, n
    <3> QED
      BY <1>1, <2>1, <2>4, <2>6, <2>7, <2>8, RecordIsMade, AppliedClosure
         DEF TypeOK, Chain
  <2> QED
    BY <2>11, <2>12
<1>13. CASE GotoSameRecord
  <2> DEFINE k == Top[1]
             a == current_ar
  <2>1. /\ CanApply /\ size[a] >= Slots(k)
        /\ slot' = [slot EXCEPT ![a] = [i \in 1 .. size[a] |->
                       IF i <= arity[k] THEN Arguments(k)[i] ELSE slot[a][i]]]
        /\ Enter(Callers, k, Top[2], a)
        /\ vstack' = Pop(arity[k] + 1) /\ code' = k /\ sound' \in BOOLEAN
        /\ UNCHANGED <<cstack, astack_ptr, current_ar, returned, a_count, size, caller,
                       enclosing, closure_ar>>
    BY <1>13 DEF GotoSameRecord
  <2>2. Rest
    BY <2>1, ChainStaysInRecord DEF Rest
  <2>3. /\ k \in Routine /\ Pop(arity[k] + 1) \in Seq(Value)
        /\ arity[k] \in Nat /\ \A i \in 1 .. arity[k] : Arguments(k)[i] \in Value
    BY <1>1, <2>1, AppliedClosure DEF Chain
  <2>4. a \in Address /\ size[a] \in Nat /\ DOMAIN slot = Address
        /\ \A b \in Address : slot[b] \in [1 .. size[b] -> Value \cup {Null}]
    BY <1>1 DEF TypeOK
  <2>5. DOMAIN slot' = Address
    BY <2>1, <2>4
  <2>6. ASSUME NEW b \in Address
        PROVE  slot'[b] \in [1 .. size'[b] -> Value \cup {Null}]
    <3>1. CASE b = a
      <4>1. slot'[b] = [i \in 1 .. size[a] |->
                           IF i <= arity[k] THEN Arguments(k)[i] ELSE slot[a][i]]
        BY <2>1, <2>4, <3>1
      <4>2. \A i \in 1 .. size[a] : slot[a][i] \in Value \cup {Null}
        BY <2>4
      <4>3. \A i \in 1 .. size[a] : i <= arity[k] => i \in 1 .. arity[k]
        BY <2>3, <2>4
      <4> HIDE DEF k, a
      <4> QED
        BY <2>1, <2>3, <3>1, <4>1, <4>2, <4>3
    <3>2. CASE b # a
      <4>1. slot'[b] = slot[b] /\ size'[b] = size[b]
        BY <2>1, <2>4, <3>2
      <4> QED
        BY <2>4, <4>1
    <3> QED
      BY <3>1, <3>2
  <2>7. TypeOK'
    BY <1>1, <2>1, <2>3, <2>5, <2>6 DEF TypeOK
  <2> QED
    BY <2>2, <2>7
<1>14. CASE Ret
  BY <1>14, ChainShrinks DEF Rest
<1>15. CASE Halt
  <2>1. Rest
    BY <1>15, HistoryIsLeftAlone DEF Halt, records, Rest
  <2>2. TypeOK'
    BY <1>1, <1>15 DEF Halt, TypeOK, records
  <2> QED
    BY <2>1, <2>2
<1>16. CASE UNCHANGED vars
  <2>1. Rest
    BY <1>16, HistoryIsLeftAlone DEF vars, machine, records, Rest
  <2>2. TypeOK'
    BY <1>1, <1>16 DEF vars, TypeOK, machine, records
  <2> QED
    BY <2>1, <2>2
<1>17. \A x \in Data : <<x>> \in Seq(Value)
  BY DEF Value
<1>18. <<>> \in Seq(Value)
  BY EmptySeq
<1> QED
  <2>1. ASSUME NEW n \in 0 .. 2, NEW x \in Data, Builtin(n, <<x>>)
        PROVE  TypeOK' /\ Rest
    BY <1>4, <1>17, <2>1
  <2>2. ASSUME NEW n \in 1 .. 2, Builtin(n, <<>>)
        PROVE  TypeOK' /\ Rest
    <3>1. n \in 0 .. 2
      OBVIOUS
    <3> QED
      BY <1>4, <1>18, <2>2, <3>1
  <2> QED
    BY <1>3, <1>5, <1>7, <1>8, <1>9, <1>10, <1>11, <1>12, <1>13, <1>14, <1>15, <1>16,
       <2>1, <2>2 DEF Next

(* The program starts in the record of its globals.                        *)
LEMMA ChainInit ==
    ASSUME Init
    PROVE  Chain
<1>1. /\ -1 \in Address /\ 1 \in 1 .. CallBound /\ 0 \in 0 .. AstackBound
      /\ Slots(Main) \in Nat /\ Slots(Main) <= MaxSlots /\ MaxSlots \in Nat
      /\ Main \in Routine
  BY BoundAssumption, RoutineAssumption DEF Address, Slots
<1>2. Frame(Main, -1, 1, 0) \in FrameType
  BY <1>1 DEF Frame, FrameType
<1>3. /\ frames \in Seq(FrameType) /\ Len(frames) = 1 /\ frames[1] = Frame(Main, -1, 1, 0)
      /\ DOMAIN frames = {1}
  BY <1>2 DEF Init
<1>4. HistoryOK
  <2>1. lex \in Seq(Nat)
    BY DEF Init
  <2> QED
    BY <1>3, <2>1 DEF Init, HistoryOK
<1>5. TypeOK
  <2>1. vstack \in Seq(Value) /\ cstack \in Seq(Routine)
    BY EmptySeq DEF Init
  <2>2. size \in [Address -> Nat] /\ caller \in [Address -> Record]
        /\ enclosing \in [Address -> Record] /\ closure_ar \in [DOMAIN parent -> Record]
    BY <1>1, RoutineAssumption DEF Init, Record
  <2>3. DOMAIN slot = Address
    BY DEF Init
  <2>4. \A a \in Address : slot[a] \in [1 .. size[a] -> Value \cup {Null}]
    <3> TAKE a \in Address
    <3>1. CASE a = -1
      BY <1>1, <3>1 DEF Init
    <3>2. CASE a # -1
      <4>1. slot[a] = <<>> /\ size[a] = 0
        BY <3>2 DEF Init
      <4>2. 1 .. 0 = {}
        OBVIOUS
      <4>3. <<>> \in [{} -> Value \cup {Null}]
        BY SMT
      <4> QED
        BY <4>1, <4>2, <4>3
    <3> QED
      BY <3>1, <3>2
  <2> QED
    BY <1>1, <2>1, <2>2, <2>3, <2>4 DEF Init, TypeOK
<1>6. CallChain
  <2>1. Linked(1)
    BY <1>1, <1>3 DEF Init, Linked, Frame, FrameTop, OnStack, HeapRecord
  <2> QED
    BY <1>3, <2>1 DEF Init, CallChain, Frame
<1>7. Layout
  <2>1. 1 * (HeaderSize + MaxSlots) >= 0
    BY <1>1 DEF HeaderSize
  <2> QED
    BY <1>1, <1>3, <2>1 DEF Init, Layout, Frame
<1>8. EachCallHasItsRecord
  BY <1>1, <1>3 DEF Init, EachCallHasItsRecord, Frame
<1> QED
  BY <1>4, <1>5, <1>6, <1>7, <1>8 DEF Chain

(***************************************************************************)
(* The scopes                                                              *)
(***************************************************************************)

(* The records of the chain and those on the heap.                         *)
LEMMA RecordsInUse ==
    ASSUME Chain
    PROVE  /\ InUse \subseteq Address
           /\ current_ar \in InUse
           /\ \A a \in InUse : ~OnStack(a) => a \in HeapRecord
           /\ DOMAIN frames = 1 .. Len(frames) /\ Len(frames) \in 1 .. Len(frames)
           /\ ThisFrame.ar = current_ar /\ ThisFrame.code = code
<1>1. /\ DOMAIN frames = 1 .. Len(frames) /\ Len(frames) \in 1 .. Len(frames)
      /\ current_ar = frames[Len(frames)].ar /\ code = frames[Len(frames)].code
  BY LenProperties DEF Chain, HistoryOK, CallChain
<1>2. HeapRecord \subseteq Address
  BY BoundAssumption DEF Chain, TypeOK, HeapRecord, Address
<1>3. InUse \subseteq Address
  BY <1>1, <1>2, FrameFacts DEF InUse
<1>4. \A a \in InUse : ~OnStack(a) => a \in HeapRecord
  BY <1>1, FrameFacts DEF InUse
<1> QED
  BY <1>1, <1>3, <1>4 DEF InUse, ThisFrame, Chain, EachCallHasItsRecord

(* A step that leaves calls, records and scopes alone keeps the scopes.    *)
LEMMA ScopesAreLeftAlone ==
    ASSUME Chain, Scopes, UNCHANGED <<a_count, enclosing, history>>,
           UNCHANGED closure_ar
    PROVE  Scopes'
<1>1. UNCHANGED <<frames, lex, holds, sound>>
  BY DEF history
<1> QED
  BY <1>1 DEF Scopes, ScopesOnHeap, RecordsHold, InUse, HeapRecord, Lexical, Scope,
              ThisFrame, OnStack

(* The scope of a closure that is called where it was made.                *)
LEMMA ScopeOfTheCalled ==
    ASSUME Chain, Scopes, sound, CanApply, InItsScope(Top[1], Top[2])
    PROVE  /\ closure_ar[Top[1]] \in HeapRecord /\ holds[closure_ar[Top[1]]] = Top[2]
           /\ Top[2] \in Scope
<1>1. Top[1] \in DOMAIN parent /\ Top[2] \in Scope
  BY AppliedClosure DEF Chain
<1>2. closure_ar[Top[1]] \in Address /\ holds[closure_ar[Top[1]]] = Top[2]
  BY DEF InItsScope, Chain, HistoryOK
<1> QED
  BY <1>1, <1>2 DEF Scopes, ScopesOnHeap

(* A new record, for a closure that is called where it was made.           *)
LEMMA ScopesGrow ==
    ASSUME Chain, Chain', Scopes, CanApply, NEW n \in 0 .. Len(frames), NEW a \in Address,
           NEW below, NEW c \in Record,
           \A i \in 1 .. n : below[i] = frames[i], Len(below) = n,
           below \in Seq(FrameType),
           OnHeapOrStack(a, Top[1], FrameTop(n)), FrameTop(n) \in 0 .. AstackBound,
           NewRecord(a, Top[1], c), Enter(below, Top[1], Top[2], a),
           sound' = (sound /\ InItsScope(Top[1], Top[2])),
           UNCHANGED closure_ar
    PROVE  Scopes'
<1> SUFFICES ASSUME sound'
             PROVE  ScopesOnHeap' /\ RecordsHold' /\ \A b \in InUse' : Lexical(b)'
  BY DEF Scopes
<1> DEFINE k == Top[1]
           s == Top[2]
           f == Frame(k, a, Len(lex) + 1, astack_ptr')
<1>1. /\ sound /\ InItsScope(k, s) /\ ScopesOnHeap /\ RecordsHold
      /\ \A b \in InUse : Lexical(b)
  BY DEF Scopes, Chain, HistoryOK
<1>2. closure_ar[k] \in HeapRecord /\ holds[closure_ar[k]] = s /\ s \in Scope
  BY <1>1, ScopeOfTheCalled
<1>3. a \notin HeapRecord /\ \A i \in 1 .. n : frames[i].ar # a
  BY NewRecordIsFresh
<1>4. Len(lex) \in Nat /\ Len(frames) \in Nat /\ a_count \in Nat /\ lex \in Seq(Nat)
  BY LenProperties DEF Chain, HistoryOK, TypeOK
<1>5. /\ enclosing'[a] = closure_ar[k]
      /\ \A b \in Address \ {a} : enclosing'[b] = enclosing[b]
  BY RecordIsMade DEF Chain
<1>6. /\ frames' = Append(below, f) /\ lex' = Append(lex, s)
      /\ holds' = [holds EXCEPT ![a] = Len(lex) + 1]
  BY DEF Enter
<1>7. /\ Len(lex') = Len(lex) + 1 /\ lex'[Len(lex) + 1] = s
      /\ \A i \in Scope : lex'[i] = lex[i] /\ i \in Scope'
      /\ Len(lex) + 1 \in Scope'
  BY <1>2, <1>4, <1>6, AppendIsStack DEF Scope
<1>8. holds'[a] = Len(lex) + 1 /\ \A b \in Address \ {a} : holds'[b] = holds[b]
  BY <1>6 DEF Chain, HistoryOK
<1>9. /\ Len(frames') = n + 1 /\ DOMAIN frames' = 1 .. n + 1
      /\ \A i \in 1 .. n : frames'[i] = frames[i]
      /\ frames'[n + 1] = f
  <2>1. f \in FrameType
    <3>1. astack_ptr' \in Nat
      BY RecordIsMade, BoundAssumption DEF Chain
    <3>2. k \in Routine
      BY AppliedClosure DEF Chain
    <3> QED
      BY <1>4, <3>1, <3>2 DEF Frame, FrameType
  <2> HIDE DEF f
  <2> QED
    BY <1>6, <2>1, AppendIsStack, LenProperties
<1>10. f.code = k /\ f.ar = a /\ f.scope = Len(lex) + 1
  BY DEF Frame
<1> HIDE DEF f, k, s
<1>11. /\ HeapRecord \subseteq HeapRecord'
       /\ \A b \in HeapRecord' : b # a => b \in HeapRecord
  <2>1. CASE ContainsClosures(k)
    <3>1. a = -(a_count + 1) /\ a_count' = a_count + 1
      BY <2>1 DEF OnHeapOrStack, k
    <3>2. \A b : b \in HeapRecord' <=> b \in HeapRecord \/ b = a
      BY <1>4, <3>1 DEF HeapRecord
    <3> QED
      BY <3>2
  <2>2. CASE ~ContainsClosures(k)
    <3>1. a_count' = a_count
      BY <2>2 DEF OnHeapOrStack, k
    <3> QED
      BY <2>2, <3>1 DEF HeapRecord
  <2> QED
    BY <2>1, <2>2
<1>12. \A b \in InUse' : b # a => b \in InUse /\ b \in Address
  <2>1. \A b \in InUse' : b # a => b \in InUse
    <3> TAKE b \in InUse'
    <3> HAVE b # a
    <3>1. CASE b \in HeapRecord'
      BY <1>11, <3>1 DEF InUse
    <3>2. CASE b \notin HeapRecord'
      <4>1. PICK i \in DOMAIN frames' : b = frames'[i].ar
        BY <3>2 DEF InUse
      <4>2. i \in 1 .. n
        BY <1>9, <1>10, <4>1
      <4>3. i \in DOMAIN frames
        BY <1>4, <4>2, RecordsInUse
      <4> QED
        BY <1>9, <4>1, <4>2, <4>3 DEF InUse
    <3> QED
      BY <3>1, <3>2
  <2> QED
    BY <2>1, RecordsInUse
<1>13. ScopesOnHeap'
  BY <1>1, <1>11 DEF ScopesOnHeap
<1>14. RecordsHold'
  <2>1. ASSUME NEW b \in InUse'
        PROVE  holds'[b] \in Scope'
    <3>1. CASE b = a
      BY <1>7, <1>8, <3>1
    <3>2. CASE b # a
      BY <1>1, <1>7, <1>8, <1>12, <2>1, <3>2 DEF RecordsHold
    <3> QED
      BY <3>1, <3>2
  <2> QED
    BY <2>1 DEF RecordsHold
<1>15. ASSUME NEW b \in InUse'
       PROVE  Lexical(b)'
  <2>1. CASE b = a
    <3>1. closure_ar[k] \in HeapRecord' /\ closure_ar[k] \in Address \ {a}
      <4>1. HeapRecord \subseteq Address
        BY RecordsInUse DEF InUse
      <4> QED
        BY <1>2, <1>3, <1>11, <4>1
    <3>2. lex'[holds'[a]] = s /\ holds'[closure_ar[k]] = s
      BY <1>2, <1>7, <1>8, <3>1
    <3>3. s # 0
      BY <1>2, <1>4 DEF Scope
    <3> QED
      BY <1>5, <2>1, <3>1, <3>2, <3>3 DEF Lexical
  <2>2. CASE b # a
    <3>1. b \in InUse /\ b \in Address \ {a}
      BY <1>12, <2>2
    <3>2. Lexical(b) /\ holds[b] \in Scope
      BY <1>1, <3>1 DEF RecordsHold
    <3>3. holds'[b] = holds[b] /\ lex'[holds[b]] = lex[holds[b]] /\ enclosing'[b] = enclosing[b]
      BY <1>5, <1>7, <1>8, <3>1, <3>2
    <3>4. enclosing[b] \in HeapRecord =>
              enclosing[b] \in HeapRecord' /\ holds'[enclosing[b]] = holds[enclosing[b]]
      <4>1. HeapRecord \subseteq Address
        BY RecordsInUse DEF InUse
      <4> QED
        BY <1>3, <1>8, <1>11, <4>1
    <3> QED
      BY <3>2, <3>3, <3>4 DEF Lexical
  <2> QED
    BY <2>1, <2>2
<1> QED
  BY <1>13, <1>14, <1>15

(* A tail call in the record of its caller, where nothing else belongs to  *)
(* the record.                                                             *)
LEMMA ScopesStayInRecord ==
    ASSUME Chain, Chain', Scopes, GotoSameRecord
    PROVE  Scopes'
<1> SUFFICES ASSUME sound'
             PROVE  ScopesOnHeap' /\ RecordsHold' /\ \A b \in InUse' : Lexical(b)'
  BY DEF Scopes
<1> DEFINE k == Top[1]
           s == Top[2]
           a == current_ar
           n == Len(frames)
           f == Frame(k, a, Len(lex) + 1, astack_ptr')
<1>1. /\ CanApply /\ Enter(Callers, k, s, a)
      /\ sound' = (sound /\ InItsScope(k, s) /\ MayReuse(a, k))
      /\ UNCHANGED <<a_count, enclosing, closure_ar, current_ar>>
  BY DEF GotoSameRecord
<1>2. /\ sound /\ InItsScope(k, s) /\ MayReuse(a, k) /\ ScopesOnHeap /\ RecordsHold
      /\ \A b \in InUse : Lexical(b)
  BY <1>1 DEF Scopes, Chain, HistoryOK
<1>3. closure_ar[k] \in HeapRecord /\ holds[closure_ar[k]] = s /\ s \in Scope /\ k \in DOMAIN parent
  BY <1>1, <1>2, ScopeOfTheCalled, AppliedClosure DEF Chain
<1>4. /\ Len(lex) \in Nat /\ lex \in Seq(Nat) /\ n \in Nat /\ n >= 1
      /\ a \in Address /\ a \in InUse /\ a = frames[n].ar /\ n \in DOMAIN frames
      /\ DOMAIN frames = 1 .. n
  BY LenProperties, RecordsInUse DEF Chain, HistoryOK, CallChain
<1>5. /\ frames' = Append(Callers, f) /\ lex' = Append(lex, s)
      /\ holds' = [holds EXCEPT ![a] = Len(lex) + 1]
  BY <1>1 DEF Enter
<1>6. /\ Len(lex') = Len(lex) + 1 /\ lex'[Len(lex) + 1] = s
      /\ \A i \in Scope : lex'[i] = lex[i] /\ i \in Scope'
      /\ Len(lex) + 1 \in Scope'
  BY <1>3, <1>4, <1>5, AppendIsStack DEF Scope
<1>7. holds'[a] = Len(lex) + 1 /\ \A b \in Address \ {a} : holds'[b] = holds[b]
  BY <1>4, <1>5 DEF Chain, HistoryOK
<1>8. /\ Callers \in Seq(FrameType) /\ Len(Callers) = n - 1
      /\ \A i \in 1 .. n - 1 : Callers[i] = frames[i]
  BY <1>4, PopIsStack DEF Callers, Chain, HistoryOK
<1>9. f.code = k /\ f.ar = a
  BY DEF Frame
<1>10. f \in FrameType
  <2>1. k \in Routine
    BY <1>1, AppliedClosure DEF Chain
  <2>2. astack_ptr' \in Nat
    BY BoundAssumption DEF Chain, TypeOK
  <2> QED
    BY <1>4, <2>1, <2>2 DEF Frame, FrameType
<1> HIDE DEF f, k, s, a, n
<1>11. DOMAIN frames' = 1 .. n /\ \A i \in 1 .. n - 1 : frames'[i] = frames[i]
  <2>1. /\ frames' \in Seq(FrameType) /\ Len(frames') = Len(Callers) + 1
        /\ \A i \in 1 .. Len(Callers) : frames'[i] = Callers[i]
    BY <1>5, <1>8, <1>10, AppendIsStack
  <2>2. Len(Callers) + 1 = n
    BY <1>4, <1>8
  <2> QED
    BY <1>8, <2>1, <2>2, LenProperties
<1>12. frames'[n] = f
  <2>1. frames'[Len(Callers) + 1] = f /\ Len(Callers) + 1 = n
    BY <1>4, <1>5, <1>8, <1>10, AppendIsStack
  <2> QED
    BY <2>1
<1>13. HeapRecord' = HeapRecord
  BY <1>1 DEF HeapRecord
<1>14. InUse' \subseteq InUse
  <2>1. \A i \in 1 .. n : frames'[i].ar = frames[i].ar
    <3>1. \A i \in 1 .. n : i # n => i \in 1 .. n - 1
      BY <1>4
    <3> QED
      BY <1>4, <1>9, <1>11, <1>12, <3>1
  <2> QED
    BY <1>4, <1>11, <1>13, <2>1 DEF InUse
<1>15. ScopesOnHeap'
  BY <1>1, <1>2, <1>13 DEF ScopesOnHeap
<1>16. RecordsHold'
  <2>1. InUse \subseteq Address
    BY RecordsInUse
  <2> QED
    BY <1>2, <1>6, <1>7, <1>14, <2>1 DEF RecordsHold
<1>17. /\ enclosing[a] = closure_ar[k] /\ closure_ar[k] # a
       /\ \A b \in InUse : enclosing[b] # a
  BY <1>2, <1>3, <1>4 DEF MayReuse, IsScope, Chain, TypeOK
<1>18. HeapRecord \subseteq Address
  BY RecordsInUse DEF InUse
<1>19. ASSUME NEW b \in InUse'
       PROVE  Lexical(b)'
  <2>1. CASE b = a
    <3>1. lex'[holds'[a]] = s /\ holds'[closure_ar[k]] = s /\ s # 0
      BY <1>3, <1>4, <1>6, <1>7, <1>17, <1>18 DEF Scope
    <3> QED
      BY <1>1, <1>3, <1>13, <1>17, <2>1, <3>1 DEF Lexical
  <2>2. CASE b # a
    <3>1. b \in InUse /\ b \in Address \ {a}
      BY <1>14, <2>2, RecordsInUse
    <3>2. Lexical(b) /\ holds[b] \in Scope /\ enclosing[b] # a
      BY <1>2, <1>17, <3>1 DEF RecordsHold
    <3>3. holds'[b] = holds[b] /\ lex'[holds[b]] = lex[holds[b]] /\ enclosing'[b] = enclosing[b]
      BY <1>1, <1>6, <1>7, <3>1, <3>2
    <3>4. enclosing[b] \in HeapRecord => holds'[enclosing[b]] = holds[enclosing[b]]
      BY <1>7, <1>18, <3>2
    <3> QED
      BY <1>13, <3>2, <3>3, <3>4 DEF Lexical
  <2> QED
    BY <2>1, <2>2
<1> QED
  BY <1>15, <1>16, <1>19

(* Every step keeps the scopes.                                            *)
LEMMA ScopesStep ==
    ASSUME Chain, Chain', Scopes, [Next]_vars
    PROVE  Scopes'
<1>1. ASSUME OnlyValues
      PROVE  Scopes'
  BY <1>1, ScopesAreLeftAlone DEF OnlyValues, records
<1>2. ASSUME OnlyVariables
      PROVE  Scopes'
  BY <1>2, ScopesAreLeftAlone DEF OnlyVariables
<1>3. ASSUME NEW k \in Routine \ {Main}, PushClosure(k)
      PROVE  Scopes'
  <2>1. /\ UNCHANGED <<a_count, enclosing, frames, lex, holds>>
        /\ closure_ar' = [closure_ar EXCEPT ![k] = current_ar]
        /\ sound' = (sound /\ ~OnStack(current_ar))
    BY <1>3 DEF PushClosure, records
  <2>2. sound' => sound /\ ~OnStack(current_ar)
    BY <2>1 DEF Chain, HistoryOK
  <2>3. sound' => current_ar \in HeapRecord
    BY <2>2, RecordsInUse
  <2>4. sound' => ScopesOnHeap'
    BY <2>1, <2>2, <2>3 DEF Scopes, ScopesOnHeap, Chain, TypeOK, HeapRecord
  <2> QED
    BY <2>1, <2>2, <2>4 DEF Scopes, RecordsHold, InUse, HeapRecord, Lexical, Scope
<1>4. ASSUME NEW k \in Routine \ {Main}, ForeignSetActivation(k)
      PROVE  Scopes'
  <2>1. /\ UNCHANGED <<a_count, enclosing, frames, lex, holds, sound>>
        /\ closure_ar' = [closure_ar EXCEPT ![k] = Foreign]
    BY <1>4 DEF ForeignSetActivation, records, history
  <2>2. Foreign \notin Address
    BY NullAssumption, BoundAssumption DEF Address
  <2>3. sound => ScopesOnHeap'
    BY <2>1, <2>2
       DEF Scopes, ScopesOnHeap, Chain, TypeOK, HeapRecord
  <2> QED
    BY ZenonT(60), <2>1, <2>3 DEF Scopes, RecordsHold, InUse, HeapRecord, Lexical, Scope
<1>5. CASE Call
  <2> DEFINE n == Len(frames)
  <2>1. /\ n \in 0 .. Len(frames) /\ n # 0 /\ FrameTop(n) = astack_ptr
        /\ FrameTop(n) \in 0 .. AstackBound /\ frames \in Seq(FrameType)
    BY LenProperties DEF Chain, HistoryOK, CallChain, FrameTop, TypeOK
  <2>2. current_ar \in Record
    BY DEF Chain, TypeOK, Record
  <2>3. PICK a \in Address : /\ OnHeapOrStack(a, Top[1], FrameTop(n))
                             /\ NewRecord(a, Top[1], current_ar)
                             /\ Enter(frames, Top[1], Top[2], a)
    BY <1>5, <2>1 DEF Call
  <2>4. CanApply /\ UNCHANGED closure_ar /\ sound' = (sound /\ InItsScope(Top[1], Top[2]))
    BY <1>5 DEF Call
  <2> QED
    BY <2>1, <2>2, <2>3, <2>4, ScopesGrow
<1>6. CASE GotoNewRecord
  <2>1. PICK a \in Address :
            /\ OnHeapOrStack(a, Top[1], TopWithout(current_ar))
            /\ NewRecord(a, Top[1], caller[current_ar])
            /\ Enter(Callers, Top[1], Top[2], a)
    BY <1>6 DEF GotoNewRecord
  <2>2. CanApply /\ UNCHANGED closure_ar /\ sound' = (sound /\ InItsScope(Top[1], Top[2]))
    BY <1>6 DEF GotoNewRecord
  <2> DEFINE n == Len(frames) - 1
  <2>3. /\ n \in 0 .. Len(frames) /\ FrameTop(n) = TopWithout(current_ar)
        /\ FrameTop(n) \in 0 .. AstackBound
    BY TopOfTheCaller
  <2>4. /\ Callers \in Seq(FrameType) /\ Len(Callers) = n
        /\ \A i \in 1 .. n : Callers[i] = frames[i]
    BY <2>3, PopIsStack DEF Callers, Chain, HistoryOK
  <2>5. caller[current_ar] \in Record
    BY DEF Chain, TypeOK
  <2> QED
    BY <2>1, <2>2, <2>3, <2>4, <2>5, ScopesGrow
<1>7. CASE GotoSameRecord
  BY <1>7, ScopesStayInRecord
<1>8. CASE Ret
  <2>1. UNCHANGED <<a_count, enclosing, closure_ar, lex, holds, sound>>
    BY <1>8 DEF Ret, records
  <2>2. frames' \in {frames, Callers}
    BY <1>8 DEF Ret
  <2>3. /\ DOMAIN frames' \subseteq DOMAIN frames
        /\ \A i \in DOMAIN frames' : frames'[i] = frames[i]
    <3>1. /\ Len(frames) - 1 \in 0 .. Len(frames) /\ frames \in Seq(FrameType)
          /\ DOMAIN frames = 1 .. Len(frames) /\ Len(frames) \in Nat
      BY LenProperties DEF Chain, HistoryOK, CallChain
    <3>2. /\ Callers \in Seq(FrameType) /\ Len(Callers) = Len(frames) - 1
          /\ \A i \in 1 .. Len(frames) - 1 : Callers[i] = frames[i]
      BY <3>1, PopIsStack DEF Callers
    <3>3. DOMAIN Callers = 1 .. Len(frames) - 1
      BY <3>2, LenProperties
    <3> QED
      BY <2>2, <3>1, <3>2, <3>3
  <2>4. InUse' \subseteq InUse /\ HeapRecord' = HeapRecord
    BY <2>1, <2>3 DEF InUse, HeapRecord
  <2>5. sound => ScopesOnHeap'
    BY <2>1, <2>3, <2>4 DEF Scopes, ScopesOnHeap
  <2> QED
    BY <2>1, <2>4, <2>5 DEF Scopes, RecordsHold, Lexical, Scope
<1>9. CASE Halt
  BY <1>9, ScopesAreLeftAlone DEF Halt, records
<1>10. CASE UNCHANGED vars
  BY <1>10, ScopesAreLeftAlone DEF vars, records
<1> QED
  BY <1>1, <1>2, <1>3, <1>4, <1>5, <1>6, <1>7, <1>8, <1>9, <1>10
     DEF Next, PushValue, Builtin, PushLocal, PopLocal, InitLocal

(* The record of the globals is in no scope.                               *)
LEMMA ScopesInit ==
    ASSUME Init
    PROVE  Scopes
<1>1. -1 \in Address
  BY BoundAssumption DEF Address
<1>2. /\ DOMAIN frames = {1} /\ frames[1].ar = -1 /\ InUse = {-1}
      /\ Len(lex) = 1 /\ lex[1] = 0
  BY DEF Init, Frame, InUse, HeapRecord
<1>3. holds[-1] = 1 /\ enclosing[-1] = Null
  BY <1>1 DEF Init
<1>4. ScopesOnHeap
  BY <1>2, NullAssumption, RoutineAssumption, BoundAssumption
     DEF Init, ScopesOnHeap, OnStack, Address
<1> QED
  BY <1>2, <1>3, <1>4 DEF Scopes, RecordsHold, Lexical, Scope

(***************************************************************************)
(* The theorems                                                            *)
(***************************************************************************)

(* The chain of calls holds in every state, for every program.             *)
LEMMA ChainHolds == Spec => []Chain
<1>1. Init => Chain
  BY ChainInit
<1>2. Chain /\ [Next]_vars => Chain'
  BY ChainStep
<1> QED
  BY <1>1, <1>2, PTL DEF Spec

(* The variables of the machine have their types.                          *)
THEOREM MachineTypes == Spec => []TypeOK
<1>1. Chain => TypeOK
  BY DEF Chain
<1> QED
  BY <1>1, ChainHolds, PTL

(* Every return finds the routine, the record and the stack of its call.   *)
THEOREM ReturnsGoBack == Spec => []CallChain
<1>1. Chain => CallChain
  BY DEF Chain
<1> QED
  BY <1>1, ChainHolds, PTL

(* No call runs in the record of another that has not returned.            *)
THEOREM RecordsAreOwn == Spec => []EachCallHasItsRecord
<1>1. Chain => EachCallHasItsRecord
  BY DEF Chain
<1> QED
  BY <1>1, ChainHolds, PTL

(* Tail calls take no room: the height of the activation stack depends on  *)
(* the calls that have not returned alone.                                 *)
THEOREM TailCallsTakeNoRoom == Spec => []StackIsBoundedByDepth
<1>1. Chain => StackIsBoundedByDepth
  <2> SUFFICES ASSUME Chain PROVE StackIsBoundedByDepth
    OBVIOUS
  <2>1. Len(frames) \in DOMAIN frames /\ Len(frames) = Len(cstack) + 1
    BY LenProperties DEF Chain, HistoryOK, CallChain, TypeOK
  <2> QED
    BY <2>1 DEF Chain, CallChain, Layout, StackIsBoundedByDepth
<1> QED
  BY <1>1, ChainHolds, PTL

(* While no closure is called outside its scope and no record is reused    *)
(* that something else belongs to, the links that variables are found by   *)
(* are those of the program text, and lead to records on the heap.         *)
THEOREM ScopesAreLexical == Spec => []LexicalScope
<1>1. Init => Scopes
  BY ScopesInit
<1>2. Chain /\ Chain' /\ Scopes /\ [Next]_vars => Scopes'
  BY ScopesStep
<1>3. Scopes => LexicalScope
  BY DEF Scopes, LexicalScope
<1> QED
  BY <1>1, <1>2, <1>3, ChainHolds, PTL DEF Spec
=============================================================================
