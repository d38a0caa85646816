------------------------------- MODULE MCGc -------------------------------
(***************************************************************************)
(* Gc for TLC: addresses are interchangeable.                              *)
(***************************************************************************)
EXTENDS Gc, FiniteSets, TLC

NoFrames == [p \in Proc |-> <<>>]

(* Room for one frame or for two; the first has the name of its process. *)
CONSTANT Second
OneFrame  == [p \in Proc |-> <<p>>]
TwoFrames == [p \in Proc |-> <<p, Second>>]

(* Where routines are written: all in main, or each in the one before. *)
InMain == [k \in 1 .. Routines |-> 0]
Nested == [k \in 1 .. Routines |-> k - 1]

(* The record of the globals is larger than any other (main.c:154).  The   *)
(* others are of one size, or each is larger than the one before, so that  *)
(* a tail call finds its record large enough one way only.                 *)
Small      == [k \in 0 .. Routines |-> IF k = 0 THEN 100 ELSE 1]
Increasing == [k \in 0 .. Routines |-> IF k = 0 THEN 100 ELSE k]

(* The bounds of gc_heap: two processes and three records with nothing but *)
(* closures, or one process and two records with values as well.           *)
LessOnTheHeap ==
    \/ sv_head = {} /\ \A p \in Proc : Len(vstack[p]) < 2
    \/ /\ Cardinality({p \in Proc : state[p] # "none"}) < 2
       /\ Cardinality(a_head) < 3
       /\ \A k \in Closure : k > 1 => closure_ar[k] = Null

(* The bounds of gc_default: routines other than the first are used while  *)
(* the program has no values and no messages.  Once something in use has   *)
(* been freed, a program may do anything.                                  *)
LessByDefault ==
    /\ NothingInUseIsFreed
    /\ (\E k \in Closure : k > 1 /\ closure_ar[k] # Null) =>
          sv_head = {} /\ \A p \in Proc : mailbox[p] = <<>>

Symmetry == Permutations(HeapAr) \cup Permutations(Sv) \cup Permutations(Proc)
============================================================================
