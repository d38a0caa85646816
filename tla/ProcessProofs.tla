--------------------------- MODULE ProcessProofs ---------------------------
(***************************************************************************)
(* Proofs about Process, for any set of addresses, any messages and any    *)
(* mailbox bound.                                                          *)
(*                                                                         *)
(* ProcessInv is inductive: the two lists are doubly linked lists of the   *)
(* processes that are awake and asleep, what the scheduler saved is the    *)
(* successor of its process, and who sleeps has an empty mailbox.          *)
(***************************************************************************)
EXTENDS Process, TLAPS

(***************************************************************************)
(* The doubly linked lists: what putting a process in front of a list and  *)
(* taking one out of it do to that list and to any other.  A list is given *)
(* by its pointers nx and pv, its head h and the set A of its members.     *)
(***************************************************************************)

(* A list that is not empty has a head, and a list with a head is not     *)
(* empty.                                                                 *)
LEMMA HeadOfList ==
    ASSUME NEW nx, NEW h, NEW A, IsList(nx, h, A)
    PROVE  h = Null <=> A = {}
<1>1. CASE h = Null
    <2>1. {} \in SUBSET A /\ Closed(nx, {})
        BY DEF Closed
    <2> QED BY <1>1, <2>1 DEF IsList
<1>2. CASE h # Null
    BY <1>2 DEF IsList
<1> QED BY <1>1, <1>2

(* No member of a doubly linked list is its own successor. *)
LEMMA NoSelfLoop ==
    ASSUME NEW nx, NEW pv, NEW h, NEW A, DList(nx, pv, h, A),
           Null \notin A, NEW p \in A
    PROVE  nx[p] # p
<1> SUFFICES ASSUME nx[p] = p PROVE FALSE
    OBVIOUS
<1>1. p # Null /\ pv[p] = p
    BY DEF DList, BackLinked
<1>2. h # p
    BY <1>1 DEF DList, BackLinked
<1> DEFINE S == A \ {p}
<1>3. h # Null => h \in S
    BY <1>2 DEF DList, IsList
<1>4. Closed(nx, S)
    <2> SUFFICES ASSUME NEW q \in S, nx[q] # Null PROVE nx[q] \in S
        BY DEF Closed
    <2>1. nx[q] \in A /\ pv[nx[q]] = q
        BY DEF DList, IsList, BackLinked, Closed
    <2>2. nx[q] # p
        BY <1>1, <2>1
    <2> QED BY <2>1, <2>2
<1>5. S = A
    BY <1>3, <1>4 DEF DList, IsList
<1> QED BY <1>5

(* Only the pointers of its members matter to a list. *)
LEMMA ListFrame ==
    ASSUME NEW nx, NEW pv, NEW nx2, NEW pv2, NEW h, NEW A,
           DList(nx, pv, h, A),
           \A p \in A : nx2[p] = nx[p] /\ pv2[p] = pv[p]
    PROVE  DList(nx2, pv2, h, A)
<1>1. \A S \in SUBSET A : Closed(nx2, S) <=> Closed(nx, S)
    BY DEF Closed
<1>2. IsList(nx2, h, A)
    <2>1. Closed(nx2, A)
        BY <1>1 DEF DList, IsList
    <2> QED BY <1>1, <2>1 DEF DList, IsList
<1>3. \A p \in A : nx[p] # Null => nx[p] \in A
    BY DEF DList, IsList, Closed
<1>4. BackLinked(nx2, pv2, h, A)
    <2>1. h # Null => pv2[h] = Null
        BY DEF DList, IsList, BackLinked
    <2>2. ASSUME NEW p \in A
          PROVE  /\ pv2[p] = Null => p = h
                 /\ pv2[p] # Null => pv2[p] \in A /\ nx2[pv2[p]] = p
                 /\ nx2[p] # Null => pv2[nx2[p]] = p
        BY <1>3 DEF DList, BackLinked
    <2> QED BY <2>1, <2>2 DEF BackLinked
<1> QED BY <1>2, <1>4 DEF DList

(* Putting a new member in front of a list. *)
LEMMA ListInFront ==
    ASSUME NEW nx \in [Proc -> Pointer], NEW pv \in [Proc -> Pointer],
           NEW h \in Pointer, NEW A \in SUBSET Proc, NEW p \in Proc,
           p \notin A, DList(nx, pv, h, A)
    PROVE  DList(NextInFront(nx, p, h), PrevInFront(pv, p, h), p, A \cup {p})
<1> DEFINE nx2 == NextInFront(nx, p, h)
           pv2 == PrevInFront(pv, p, h)
           B   == A \cup {p}
<1>0. /\ Null \notin Proc /\ p # Null /\ Null \notin A
      /\ h # Null => h \in A
      /\ h # p
    BY NullAssumption DEF DList, IsList
<1>1. /\ nx2[p] = h
      /\ \A q \in A : nx2[q] = nx[q]
      /\ pv2[p] = Null
      /\ \A q \in A : q # h => pv2[q] = pv[q]
      /\ h # Null => pv2[h] = p
    BY <1>0 DEF NextInFront, PrevInFront
<1>2. \A q \in A : nx[q] # Null => nx[q] \in A /\ nx[q] # h
    <2> SUFFICES ASSUME NEW q \in A, nx[q] # Null PROVE nx[q] \in A /\ nx[q] # h
        OBVIOUS
    <2>1. nx[q] \in A /\ pv[nx[q]] = q /\ q # Null
        BY <1>0 DEF DList, IsList, BackLinked, Closed
    <2> QED BY <2>1, <1>0 DEF DList, BackLinked
<1>3. IsList(nx2, p, B)
    <2>1. Closed(nx2, B)
        BY <1>0, <1>1, <1>2 DEF Closed
    <2>2. ASSUME NEW S \in SUBSET B, p \in S, Closed(nx2, S)
          PROVE  S = B
        <3>1. Closed(nx, S \cap A)
            BY <1>0, <1>1, <1>2, <2>2 DEF Closed
        <3>2. h # Null => h \in S \cap A
            BY <1>0, <1>1, <2>2 DEF Closed
        <3>3. S \cap A = A
            BY <3>1, <3>2 DEF DList, IsList
        <3> QED BY <3>3, <2>2
    <2> QED BY <1>0, <2>1, <2>2 DEF IsList
<1>4. BackLinked(nx2, pv2, p, B)
    <2>1. ASSUME NEW q \in A
          PROVE  /\ pv2[q] # Null
                 /\ pv2[q] \in B /\ nx2[pv2[q]] = q
                 /\ nx2[q] # Null => pv2[nx2[q]] = q
        <3>1. CASE q = h
            BY <3>1, <2>1, <1>0, <1>1, <1>2 DEF DList, BackLinked
        <3>2. CASE q # h
            BY <3>2, <2>1, <1>0, <1>1, <1>2 DEF DList, BackLinked
        <3> QED BY <3>1, <3>2
    <2>2. nx2[p] # Null => pv2[nx2[p]] = p
        BY <1>0, <1>1
    <2> HIDE DEF nx2, pv2
    <2> QED BY <1>0, <1>1, <2>1, <2>2 DEF BackLinked
<1> QED BY <1>3, <1>4 DEF DList

(* Taking a member out of its list. *)
LEMMA ListWithout ==
    ASSUME NEW nx \in [Proc -> Pointer], NEW pv \in [Proc -> Pointer],
           NEW h \in Pointer, NEW A \in SUBSET Proc, NEW p \in A,
           DList(nx, pv, h, A)
    PROVE  DList(NextWithout(nx, pv, p), PrevWithout(nx, pv, p),
                 HeadWithout(nx, pv, p, h), A \ {p})
<1> DEFINE nx2 == NextWithout(nx, pv, p)
           pv2 == PrevWithout(nx, pv, p)
           h2  == HeadWithout(nx, pv, p, h)
           B   == A \ {p}
<1>0. /\ Null \notin Proc /\ p # Null /\ Null \notin A
      /\ h # Null => h \in A /\ pv[h] = Null
      /\ pv[p] = Null <=> p = h
      /\ pv[p] # Null => pv[p] \in A /\ nx[pv[p]] = p
      /\ nx[p] # p
      /\ \A q \in A : nx[q] # Null => nx[q] \in A /\ pv[nx[q]] = q
      /\ \A q \in A : pv[q] # Null => pv[q] \in A /\ nx[pv[q]] = q
      /\ \A q \in A : pv[q] = Null => q = h
    <2>1. Null \notin A
        BY NullAssumption
    <2>2. nx[p] # p
        BY <2>1, NoSelfLoop
    <2> QED BY <2>1, <2>2, NullAssumption DEF DList, IsList, BackLinked, Closed
<1>1. /\ \A q \in B : nx2[q] = IF nx[q] = p THEN nx[p] ELSE nx[q]
      /\ \A q \in B : pv2[q] = IF pv[q] = p THEN pv[p] ELSE pv[q]
      /\ h2 = IF p = h THEN nx[p] ELSE h
    <2>1. \A q \in B : nx2[q] = IF nx[q] = p THEN nx[p] ELSE nx[q]
        BY <1>0 DEF NextWithout
    <2>2. \A q \in B : pv2[q] = IF pv[q] = p THEN pv[p] ELSE pv[q]
        BY <1>0 DEF PrevWithout
    <2>3. h2 = IF p = h THEN nx[p] ELSE h
        BY <1>0 DEF HeadWithout
    <2> QED BY <2>1, <2>2, <2>3
<1> HIDE DEF nx2, pv2, h2
<1>2. IsList(nx2, h2, B)
    <2>1. h2 # Null => h2 \in B
        BY <1>0, <1>1
    <2>2. Closed(nx2, B)
        BY <1>0, <1>1 DEF Closed
    <2>3. ASSUME NEW S \in SUBSET B, h2 # Null => h2 \in S, Closed(nx2, S)
          PROVE  S = B
        <3>1. \A q \in S : nx[q] # p => nx[q] = nx2[q]
            BY <1>1
        <3>2. CASE nx[p] = Null \/ nx[p] \in S
            <4>1. Closed(nx, S \cup {p})
                BY <3>1, <3>2, <2>3 DEF Closed
            <4>2. h # Null => h \in S \cup {p}
                BY <1>1, <2>3
            <4>3. S \cup {p} = A
                BY <4>1, <4>2 DEF DList, IsList
            <4> QED BY <4>3
        <3>3. CASE nx[p] # Null /\ nx[p] \notin S
            <4>1. \A q \in S : nx[q] # p
                BY <3>3, <1>1, <2>3 DEF Closed
            <4>2. Closed(nx, S)
                BY <4>1, <3>1, <2>3 DEF Closed
            <4>3. h # Null => h \in S
                BY <3>3, <1>1, <2>3
            <4>4. S = A
                BY <4>2, <4>3 DEF DList, IsList
            <4> QED BY <4>4
        <3> QED BY <3>2, <3>3
    <2> QED BY <2>1, <2>2, <2>3 DEF IsList
<1>3. BackLinked(nx2, pv2, h2, B)
    <2>1. h2 # Null => pv2[h2] = Null
        BY <1>0, <1>1
    <2>2. ASSUME NEW q \in B
          PROVE  /\ pv2[q] = Null => q = h2
                 /\ pv2[q] # Null => pv2[q] \in B /\ nx2[pv2[q]] = q
                 /\ nx2[q] # Null => pv2[nx2[q]] = q
        <3>1. pv2[q] = Null => q = h2
            BY <1>0, <1>1
        <3>2. pv2[q] # Null => pv2[q] \in B /\ nx2[pv2[q]] = q
            BY <1>0, <1>1
        <3>3. nx2[q] # Null => pv2[nx2[q]] = q
            BY <1>0, <1>1
        <3> QED BY <3>1, <3>2, <3>3
    <2> QED BY <2>1, <2>2 DEF BackLinked
<1> QED BY <1>2, <1>3 DEF DList, nx2, pv2, h2

(* Taking a member out of its list does not touch the members of another. *)
LEMMA WithoutFrame ==
    ASSUME NEW nx \in [Proc -> Pointer], NEW pv \in [Proc -> Pointer],
           NEW h, NEW A \in SUBSET Proc, NEW p \in A, DList(nx, pv, h, A),
           NEW q \in Proc, q \notin A
    PROVE  NextWithout(nx, pv, p)[q] = nx[q] /\ PrevWithout(nx, pv, p)[q] = pv[q]
<1>1. /\ pv[p] # Null => pv[p] \in A
      /\ nx[p] # Null => nx[p] \in A
    BY DEF DList, IsList, BackLinked, Closed
<1> QED BY <1>1 DEF NextWithout, PrevWithout

(***************************************************************************)
(* The inductive invariant                                                 *)
(***************************************************************************)

LEMMA NullFacts == Null \notin Proc /\ Pointer = Proc \cup {Null}
BY NullAssumption DEF Pointer

(* The initial states satisfy the invariant. *)
LEMMA InitInv == Init => ProcessInv
<1> SUFFICES ASSUME Init PROVE ProcessInv
    OBVIOUS
<1> USE NullFacts
<1>1. PICK main \in Proc :
        /\ live = {main} /\ known = {main}
        /\ asleep = [p \in Proc |-> FALSE]
        /\ next = [p \in Proc |-> Null]
        /\ prev = [p \in Proc |-> Null]
        /\ msg_head = [p \in Proc |-> <<>>]
        /\ run_head = main /\ wait_head = Null /\ current_process = main
        /\ saved_next = Null /\ control = "switch" /\ undefined = FALSE
    BY DEF Init
<1>2. Awake = {main} /\ Sleeping = {}
    BY <1>1 DEF Awake, Sleeping
<1>3. TypeOK
    <2>1. msg_head \in [Proc -> Seq(Msg)]
        BY <1>1
    <2> QED BY <1>1, <2>1 DEF TypeOK
<1>4. DList(next, prev, run_head, Awake)
    BY <1>1, <1>2 DEF DList, IsList, BackLinked, Closed
<1>5. DList(next, prev, wait_head, Sleeping)
    BY <1>1, <1>2 DEF DList, IsList, BackLinked, Closed
<1>6. SchedulerInv
    BY <1>1, <1>2 DEF SchedulerInv
<1>7. NoLostWakeup
    BY <1>2 DEF NoLostWakeup
<1> QED BY <1>3, <1>4, <1>5, <1>6, <1>7 DEF ProcessInv

(* Pointers stay pointers under the list operations. *)
LEMMA PointerTypes ==
    ASSUME NEW nx \in [Proc -> Pointer], NEW pv \in [Proc -> Pointer],
           NEW p \in Proc, NEW h \in Pointer
    PROVE  /\ NextWithout(nx, pv, p) \in [Proc -> Pointer]
           /\ PrevWithout(nx, pv, p) \in [Proc -> Pointer]
           /\ HeadWithout(nx, pv, p, h) \in Pointer
           /\ NextInFront(nx, p, h) \in [Proc -> Pointer]
           /\ PrevInFront(pv, p, h) \in [Proc -> Pointer]
<1> USE NullFacts
<1>1. NextWithout(nx, pv, p) \in [Proc -> Pointer]
    BY DEF NextWithout
<1>2. PrevWithout(nx, pv, p) \in [Proc -> Pointer]
    BY DEF PrevWithout
<1>3. HeadWithout(nx, pv, p, h) \in Pointer
    BY DEF HeadWithout
<1>4. NextInFront(nx, p, h) \in [Proc -> Pointer]
    BY DEF NextInFront
<1>5. PrevInFront(pv, p, h) \in [Proc -> Pointer]
    BY DEF PrevInFront
<1> QED BY <1>1, <1>2, <1>3, <1>4, <1>5

(* A step that changes neither the lists nor who is allocated keeps both  *)
(* lists.                                                                 *)
LEMMA ListsUnchanged ==
    ASSUME ProcessInv, UNCHANGED lists, live' = live
    PROVE  /\ Awake' = Awake /\ Sleeping' = Sleeping
           /\ DList(next, prev, run_head, Awake)'
           /\ DList(next, prev, wait_head, Sleeping)'
<1>1. Awake' = Awake /\ Sleeping' = Sleeping
    BY DEF lists, Awake, Sleeping
<1>2. DList(next', prev', run_head', Awake)
    BY DEF lists, ProcessInv
<1>3. DList(next', prev', wait_head', Sleeping)
    BY DEF lists, ProcessInv
<1> QED BY <1>1, <1>2, <1>3

(* Moving a process to the front of the other list: out of the list at h, *)
(* whose members are A, into the list at g, whose members are B.          *)
LEMMA ListMove ==
    ASSUME NEW nx \in [Proc -> Pointer], NEW pv \in [Proc -> Pointer],
           NEW h \in Pointer, NEW g \in Pointer,
           NEW A \in SUBSET Proc, NEW B \in SUBSET Proc, A \cap B = {},
           DList(nx, pv, h, A), DList(nx, pv, g, B), NEW p \in A
    PROVE  LET nx1 == NextWithout(nx, pv, p)
               pv1 == PrevWithout(nx, pv, p)
               nx2 == NextInFront(nx1, p, g)
               pv2 == PrevInFront(pv1, p, g)
           IN  /\ DList(nx2, pv2, HeadWithout(nx, pv, p, h), A \ {p})
               /\ DList(nx2, pv2, p, B \cup {p})
<1> DEFINE nx1 == NextWithout(nx, pv, p)
           pv1 == PrevWithout(nx, pv, p)
           nx2 == NextInFront(nx1, p, g)
           pv2 == PrevInFront(pv1, p, g)
           h1  == HeadWithout(nx, pv, p, h)
<1>1. nx1 \in [Proc -> Pointer] /\ pv1 \in [Proc -> Pointer]
    BY PointerTypes
<1>2. DList(nx1, pv1, h1, A \ {p})
    BY ListWithout
<1>3. \A q \in B : nx1[q] = nx[q] /\ pv1[q] = pv[q]
    BY WithoutFrame
<1>4. DList(nx1, pv1, g, B)
    BY <1>3, ListFrame
<1>5. p \notin B /\ (g # Null => g \in B)
    BY <1>4 DEF DList, IsList
<1> HIDE DEF nx1, pv1, h1
<1>6. DList(nx2, pv2, p, B \cup {p})
    BY <1>1, <1>4, <1>5, ListInFront
<1>7. \A q \in A \ {p} : nx2[q] = nx1[q] /\ pv2[q] = pv1[q]
    BY <1>1, <1>5, NullFacts DEF NextInFront, PrevInFront
<1>8. DList(nx2, pv2, h1, A \ {p})
    BY <1>2, <1>7, ListFrame
<1> QED BY <1>6, <1>8 DEF nx1, pv1, h1

(* The foot of the scheduler's loop finds a process of the run list: the  *)
(* saved successor cannot have left it, since only the process of the     *)
(* slice does.                                                            *)
LEMMA AdvanceInv ==
    ASSUME ProcessInv, Running, Advance(run_head'),
           Awake \ {current_process} \subseteq Awake',
           run_head' # Null => run_head' \in Awake'
    PROVE  /\ SchedulerInv'
           /\ control' \in {"switch", "run", "returned"}
           /\ saved_next' \in Pointer
<1> DEFINE p == current_process
<1>1. p \in Awake /\ saved_next = next[p] /\ Null \notin Awake
    BY NullFacts DEF ProcessInv, SchedulerInv, Running, TypeOK, Awake
<1>2. DList(next, prev, run_head, Awake)
    BY DEF ProcessInv
<1>3. next[p] # p
    BY <1>1, <1>2, NoSelfLoop
<1>4. next[p] # Null => next[p] \in Awake
    BY <1>1, <1>2 DEF DList, IsList, Closed
<1>5. Following(run_head') # Null => Following(run_head') \in Awake'
    BY <1>1, <1>3, <1>4 DEF Following
<1>6. Following(run_head') = Null => run_head' = Null
    BY DEF Following
<1> QED BY <1>5, <1>6, NullFacts DEF Advance, SchedulerInv

(* The parts of the invariant that speak of the current state only. *)
LEMMA InvParts ==
    ASSUME ProcessInv
    PROVE  /\ live \in SUBSET Proc /\ known \in SUBSET Proc
           /\ asleep \in [Proc -> BOOLEAN]
           /\ next \in [Proc -> Pointer] /\ prev \in [Proc -> Pointer]
           /\ run_head \in Pointer /\ wait_head \in Pointer
           /\ Awake \in SUBSET Proc /\ Sleeping \in SUBSET Proc
           /\ Awake \cap Sleeping = {}
           /\ DList(next, prev, run_head, Awake)
           /\ DList(next, prev, wait_head, Sleeping)
BY DEF ProcessInv, TypeOK, Awake, Sleeping

LEMMA SpawnInv == ASSUME ProcessInv, NEW p \in Proc, Spawn(p) PROVE ProcessInv'
<1> USE NullFacts
<1>1. /\ p \notin Awake /\ p \notin Sleeping /\ p # Null
      /\ Awake' = Awake \cup {p} /\ Sleeping' = Sleeping
    BY InvParts DEF Spawn, Awake, Sleeping
<1>2. next' \in [Proc -> Pointer] /\ prev' \in [Proc -> Pointer]
    BY InvParts, PointerTypes DEF Spawn
<1>3. TypeOK'
    <2>1. msg_head' \in [Proc -> Seq(Msg)]
        BY DEF Spawn, ProcessInv, TypeOK
    <2>2. live' \subseteq known' /\ known' \subseteq Proc /\ asleep' \in [Proc -> BOOLEAN]
        BY DEF Spawn, ProcessInv, TypeOK
    <2> QED BY <1>2, <2>1, <2>2 DEF Spawn, ProcessInv, TypeOK, schedule
<1>4. DList(next, prev, run_head, Awake)'
    BY <1>1, InvParts, ListInFront DEF Spawn
<1>5. DList(next, prev, wait_head, Sleeping)'
    <2>1. \A q \in Sleeping : next'[q] = next[q] /\ prev'[q] = prev[q]
        BY <1>1, InvParts DEF Spawn, NextInFront, PrevInFront, DList, IsList
    <2>2. DList(next', prev', wait_head, Sleeping)
        BY <2>1, InvParts, ListFrame
    <2> QED BY <1>1, <2>2 DEF Spawn
<1>6. SchedulerInv'
    BY <1>1, InvParts DEF Spawn, Running, ProcessInv, SchedulerInv, schedule, NextInFront
<1>7. NoLostWakeup'
    BY <1>1, InvParts DEF Spawn, ProcessInv, NoLostWakeup, TypeOK
<1> QED BY <1>3, <1>4, <1>5, <1>6, <1>7 DEF ProcessInv

(* process_awaken of a process that sleeps. *)
LEMMA AwakenLists ==
    ASSUME ProcessInv, NEW q \in live, Awaken(q), live' = live
    PROVE  /\ Awake' = Awake \cup {q}
           /\ Sleeping' = Sleeping \ {q}
           /\ next' \in [Proc -> Pointer] /\ prev' \in [Proc -> Pointer]
           /\ run_head' \in Pointer /\ wait_head' \in Pointer
           /\ asleep' \in [Proc -> BOOLEAN]
           /\ DList(next, prev, run_head, Awake)'
           /\ DList(next, prev, wait_head, Sleeping)'
           /\ \A p \in Awake : next'[p] = next[p]
<1> USE NullFacts
<1>1. CASE ~asleep[q]
    <2>1. UNCHANGED lists
        BY <1>1 DEF Awaken
    <2>2. /\ Awake' = Awake /\ Sleeping' = Sleeping
          /\ DList(next, prev, run_head, Awake)'
          /\ DList(next, prev, wait_head, Sleeping)'
        BY <2>1, ListsUnchanged
    <2>3. q \in Awake /\ q \notin Sleeping
        BY <1>1 DEF Awake, Sleeping
    <2> QED BY <2>1, <2>2, <2>3, InvParts DEF lists
<1>2. CASE asleep[q]
    <2>1. q \in Sleeping /\ q \notin Awake /\ q \in Proc
        BY <1>2, InvParts DEF Sleeping, Awake
    <2>2. /\ wait_head' = HeadWithout(next, prev, q, wait_head)
          /\ next' = NextInFront(NextWithout(next, prev, q), q, run_head)
          /\ prev' = PrevInFront(PrevWithout(next, prev, q), q, run_head)
          /\ run_head' = q
          /\ asleep' = [asleep EXCEPT ![q] = FALSE]
        BY <1>2 DEF Awaken
    <2>3. Awake' = Awake \cup {q} /\ Sleeping' = Sleeping \ {q}
        BY <2>1, <2>2, InvParts DEF Awake, Sleeping
    <2>4. /\ DList(next', prev', wait_head', Sleeping \ {q})
          /\ DList(next', prev', run_head', Awake \cup {q})
        <3>1. Sleeping \cap Awake = {}
            BY InvParts
        <3> QED BY <2>1, <2>2, <3>1, InvParts, ListMove
    <2>5. /\ next' \in [Proc -> Pointer] /\ prev' \in [Proc -> Pointer]
          /\ run_head' \in Pointer /\ wait_head' \in Pointer
        BY <2>1, <2>2, InvParts, PointerTypes
    <2>6. \A p \in Awake : next'[p] = next[p]
        <3>1. \A p \in Awake : NextWithout(next, prev, q)[p] = next[p]
            BY <2>1, InvParts, WithoutFrame
        <3>2. NextWithout(next, prev, q) \in [Proc -> Pointer]
            BY <2>1, InvParts, PointerTypes
        <3> QED BY <2>1, <2>2, <3>1, <3>2, InvParts DEF NextInFront
    <2> QED BY <2>2, <2>3, <2>4, <2>5, <2>6, InvParts
<1> QED BY <1>1, <1>2

LEMMA SendInv ==
    ASSUME ProcessInv, NEW q \in Proc, NEW m \in Msg, Send(q, m)
    PROVE  ProcessInv'
<1> USE NullFacts
<1>1. q \in live /\ live' = live /\ Awaken(q) /\ Running
    BY DEF Send, heap
<1>2. /\ Awake' = Awake \cup {q} /\ Sleeping' = Sleeping \ {q}
      /\ next' \in [Proc -> Pointer] /\ prev' \in [Proc -> Pointer]
      /\ run_head' \in Pointer /\ wait_head' \in Pointer
      /\ asleep' \in [Proc -> BOOLEAN]
      /\ DList(next, prev, run_head, Awake)'
      /\ DList(next, prev, wait_head, Sleeping)'
      /\ \A p \in Awake : next'[p] = next[p]
    BY <1>1, AwakenLists
<1>3. TypeOK'
    <2>1. msg_head' \in [Proc -> Seq(Msg)]
        <3>1. msg_head \in [Proc -> Seq(Msg)]
            BY DEF ProcessInv, TypeOK
        <3>2. <<m>> \o msg_head[q] \in Seq(Msg)
            BY <3>1
        <3> QED BY <3>1, <3>2 DEF Send
    <2> QED BY <1>2, <2>1 DEF Send, ProcessInv, TypeOK, heap, schedule
<1>4. SchedulerInv'
    BY <1>1, <1>2 DEF Send, Running, schedule, ProcessInv, SchedulerInv
<1>5. NoLostWakeup'
    <2>1. \A p \in Sleeping \ {q} : msg_head'[p] = msg_head[p]
        BY InvParts DEF Send, ProcessInv, TypeOK
    <2> QED BY <1>2, <2>1 DEF ProcessInv, NoLostWakeup
<1> QED BY <1>2, <1>3, <1>4, <1>5 DEF ProcessInv

LEMMA ReceiveInv == ASSUME ProcessInv, Receive PROVE ProcessInv'
<1>1. UNCHANGED lists /\ live' = live
    BY DEF Receive, heap
<1>2. /\ Awake' = Awake /\ Sleeping' = Sleeping
      /\ DList(next, prev, run_head, Awake)'
      /\ DList(next, prev, wait_head, Sleeping)'
    BY <1>1, ListsUnchanged
<1>3. TypeOK'
    <2>1. msg_head' \in [Proc -> Seq(Msg)]
        BY DEF Receive, Running, ProcessInv, TypeOK
    <2> QED BY <2>1 DEF Receive, ProcessInv, TypeOK, heap, lists, schedule
<1>4. SchedulerInv'
    BY <1>1, <1>2 DEF Receive, ProcessInv, SchedulerInv, schedule, lists
<1>5. NoLostWakeup'
    <2>1. current_process \in Awake
        BY DEF Receive, Running, ProcessInv, SchedulerInv
    <2>2. \A p \in Sleeping : msg_head'[p] = msg_head[p]
        BY <2>1, InvParts DEF Receive, ProcessInv, TypeOK
    <2> QED BY <1>2, <2>2 DEF ProcessInv, NoLostWakeup
<1> QED BY <1>2, <1>3, <1>4, <1>5 DEF ProcessInv

LEMMA DispatchInv == ASSUME ProcessInv, Dispatch PROVE ProcessInv'
<1> USE NullFacts
<1>1. UNCHANGED lists /\ live' = live /\ msg_head' = msg_head
    BY DEF Dispatch, heap, fields, lists
<1>2. /\ Awake' = Awake /\ Sleeping' = Sleeping
      /\ DList(next, prev, run_head, Awake)'
      /\ DList(next, prev, wait_head, Sleeping)'
    BY <1>1, ListsUnchanged
<1>3. current_process \in Awake
    BY DEF Dispatch, ProcessInv, SchedulerInv
<1>4. TypeOK'
    <2>1. saved_next' \in Pointer
        BY <1>3, InvParts DEF Dispatch, SavedSuccessor
    <2> QED BY <1>3, <2>1, InvParts DEF Dispatch, ProcessInv, TypeOK, heap, fields
<1>5. SchedulerInv'
    BY <1>1, <1>2, <1>3 DEF Dispatch, SavedSuccessor, SchedulerInv, lists
<1>6. NoLostWakeup'
    BY <1>1, <1>2 DEF ProcessInv, NoLostWakeup
<1> QED BY <1>2, <1>4, <1>5, <1>6 DEF ProcessInv

(* What a step that ends the slice leaves of the scheduler's types. *)
LEMMA AdvanceTypes ==
    ASSUME ProcessInv, SchedulerInv', Advance(run_head'), run_head' \in Pointer,
           live' \subseteq Proc
    PROVE  /\ current_process' \in Pointer
           /\ control' # "returned" => current_process' \in Proc
<1>1. Following(run_head') \in Pointer
    BY DEF Following, ProcessInv, TypeOK
<1> QED BY <1>1 DEF Advance, SchedulerInv, Awake

LEMMA ExpireInv == ASSUME ProcessInv, Expire PROVE ProcessInv'
<1>1. UNCHANGED lists /\ live' = live /\ msg_head' = msg_head /\ Running
    BY DEF Expire, heap, fields, lists
<1>2. /\ Awake' = Awake /\ Sleeping' = Sleeping
      /\ DList(next, prev, run_head, Awake)'
      /\ DList(next, prev, wait_head, Sleeping)'
    BY <1>1, ListsUnchanged
<1>3. Advance(run_head')
    BY DEF Expire
<1>4. /\ SchedulerInv'
      /\ control' \in {"switch", "run", "returned"}
      /\ saved_next' \in Pointer
    BY <1>1, <1>2, <1>3, AdvanceInv DEF DList, IsList
<1>5. TypeOK'
    <2>1. /\ current_process' \in Pointer
          /\ control' # "returned" => current_process' \in Proc
        BY <1>1, <1>3, <1>4, InvParts, AdvanceTypes DEF lists
    <2> QED BY <1>4, <2>1 DEF Expire, ProcessInv, TypeOK, heap, fields
<1>6. NoLostWakeup'
    BY <1>1, <1>2 DEF ProcessInv, NoLostWakeup
<1> QED BY <1>2, <1>4, <1>5, <1>6 DEF ProcessInv

LEMMA WaitInv == ASSUME ProcessInv, Wait PROVE ProcessInv'
<1> DEFINE p == current_process
<1> USE NullFacts
<1>1. p \in Awake /\ p \notin Sleeping /\ p \in Proc
    BY InvParts DEF Wait, Running, ProcessInv, SchedulerInv, Awake, Sleeping
<1>2. /\ run_head' = HeadWithout(next, prev, p, run_head)
      /\ next' = NextInFront(NextWithout(next, prev, p), p, wait_head)
      /\ prev' = PrevInFront(PrevWithout(next, prev, p), p, wait_head)
      /\ wait_head' = p
      /\ asleep' = [asleep EXCEPT ![p] = TRUE]
      /\ Advance(run_head') /\ Running /\ msg_head[p] = <<>>
      /\ UNCHANGED <<live, known, msg_head, undefined>>
    BY DEF Wait, heap, MustSleep
<1>3. Awake' = Awake \ {p} /\ Sleeping' = Sleeping \cup {p}
    BY <1>1, <1>2, InvParts DEF Awake, Sleeping
<1>4. /\ DList(next', prev', run_head', Awake \ {p})
      /\ DList(next', prev', wait_head', Sleeping \cup {p})
    BY <1>1, <1>2, InvParts, ListMove
<1>5. /\ next' \in [Proc -> Pointer] /\ prev' \in [Proc -> Pointer]
      /\ run_head' \in Pointer /\ wait_head' \in Pointer
    BY <1>1, <1>2, InvParts, PointerTypes
<1>6. /\ SchedulerInv'
      /\ control' \in {"switch", "run", "returned"}
      /\ saved_next' \in Pointer
    BY <1>2, <1>3, <1>4, AdvanceInv DEF DList, IsList
<1>7. TypeOK'
    <2>1. /\ current_process' \in Pointer
          /\ control' # "returned" => current_process' \in Proc
        BY <1>2, <1>5, <1>6, InvParts, AdvanceTypes
    <2>2. asleep' \in [Proc -> BOOLEAN]
        BY <1>2, InvParts
    <2> QED BY <1>2, <1>5, <1>6, <2>1, <2>2 DEF ProcessInv, TypeOK
<1>8. NoLostWakeup'
    BY <1>2, <1>3 DEF ProcessInv, NoLostWakeup
<1> QED BY <1>3, <1>4, <1>6, <1>7, <1>8 DEF ProcessInv

LEMMA FinishInv == ASSUME ProcessInv, Finish PROVE ProcessInv'
<1> DEFINE p == current_process
<1> USE NullFacts
<1>1. p \in Awake /\ p \notin Sleeping /\ p \in Proc
    BY InvParts DEF Finish, Running, ProcessInv, SchedulerInv, Awake, Sleeping
<1>2. /\ next' = NextWithout(next, prev, p)
      /\ prev' = PrevWithout(next, prev, p)
      /\ run_head' = HeadWithout(next, prev, p, run_head)
      /\ live' = live \ {p}
      /\ Advance(run_head') /\ Running
      /\ UNCHANGED <<known, asleep, msg_head, undefined>>
    BY DEF Finish
<1>3. wait_head' = wait_head
    BY <1>1, InvParts DEF Finish, HeadWithout, DList, IsList
<1>4. Awake' = Awake \ {p} /\ Sleeping' = Sleeping
    BY <1>1, <1>2, InvParts DEF Awake, Sleeping
<1>5. DList(next', prev', run_head', Awake \ {p})
    BY <1>1, <1>2, InvParts, ListWithout
<1>6. DList(next', prev', wait_head', Sleeping)
    <2>1. \A q \in Sleeping : next'[q] = next[q] /\ prev'[q] = prev[q]
        BY <1>1, <1>2, InvParts, WithoutFrame
    <2>2. DList(next', prev', wait_head, Sleeping)
        BY <2>1, InvParts, ListFrame
    <2> QED BY <1>3, <2>2
<1>7. /\ next' \in [Proc -> Pointer] /\ prev' \in [Proc -> Pointer]
      /\ run_head' \in Pointer
    BY <1>1, <1>2, InvParts, PointerTypes
<1>8. /\ SchedulerInv'
      /\ control' \in {"switch", "run", "returned"}
      /\ saved_next' \in Pointer
    BY <1>2, <1>4, <1>5, AdvanceInv DEF DList, IsList
<1>9. TypeOK'
    <2>1. /\ current_process' \in Pointer
          /\ control' # "returned" => current_process' \in Proc
        BY <1>2, <1>7, <1>8, InvParts, AdvanceTypes
    <2> QED BY <1>2, <1>3, <1>7, <1>8, <2>1 DEF ProcessInv, TypeOK
<1>10. NoLostWakeup'
    BY <1>2, <1>4 DEF ProcessInv, NoLostWakeup
<1> QED BY <1>4, <1>5, <1>6, <1>8, <1>9, <1>10 DEF ProcessInv

(* A step that changes no variable but `undefined' keeps the invariant. *)
LEMMA StutterInv ==
    ASSUME ProcessInv, undefined' \in BOOLEAN,
           UNCHANGED <<heap, fields, run_head, wait_head, schedule>>
    PROVE  ProcessInv'
<1>1. /\ UNCHANGED <<live, known, asleep, next, prev, msg_head, run_head, wait_head,
                     current_process, saved_next, control>>
      /\ UNCHANGED lists
    BY DEF heap, fields, schedule, lists
<1>2. /\ Awake' = Awake /\ Sleeping' = Sleeping
      /\ DList(next, prev, run_head, Awake)'
      /\ DList(next, prev, wait_head, Sleeping)'
    BY <1>1, ListsUnchanged
<1> QED BY <1>1, <1>2 DEF ProcessInv, TypeOK, SchedulerInv, NoLostWakeup

(* ProcessInv holds in every reachable state. *)
THEOREM ProcessInvariant == Spec => []ProcessInv
<1>1. ProcessInv /\ [Next]_vars => ProcessInv'
    <2> SUFFICES ASSUME ProcessInv, [Next]_vars PROVE ProcessInv'
        OBVIOUS
    <2>1. CASE \E p \in Proc : Spawn(p)
        BY <2>1, SpawnInv
    <2>2. CASE \E q \in Proc, m \in Msg : Send(q, m)
        BY <2>2, SendInv
    <2>3. CASE \E q \in Proc : SendToFreed(q)
        BY <2>3, StutterInv DEF SendToFreed
    <2>4. CASE Receive
        BY <2>4, ReceiveInv
    <2>5. CASE Dispatch
        BY <2>5, DispatchInv
    <2>6. CASE Expire
        BY <2>6, ExpireInv
    <2>7. CASE Wait
        BY <2>7, WaitInv
    <2>8. CASE Finish
        BY <2>8, FinishInv
    <2>9. CASE UNCHANGED vars
        BY <2>9, StutterInv DEF vars, ProcessInv, TypeOK
    <2> QED BY <2>1, <2>2, <2>3, <2>4, <2>5, <2>6, <2>7, <2>8, <2>9 DEF Next
<1> QED BY InitInv, <1>1, PTL DEF Spec

(* The set reached from the head of a list is the set of its members. *)
LEMMA ReachOfListIn ==
    ASSUME NEW nx, NEW h, NEW A \in SUBSET Proc, IsList(nx, h, A)
    PROVE  ReachIn(nx, h) = A
<1>1. ASSUME NEW p \in ReachIn(nx, h) PROVE p \in A
    BY <1>1 DEF ReachIn, IsList
<1>2. ASSUME NEW p \in A PROVE p \in ReachIn(nx, h)
    <2> SUFFICES ASSUME NEW S \in SUBSET Proc, h # Null => h \in S, Closed(nx, S)
                 PROVE  p \in S
        BY DEF ReachIn
    <2>1. h # Null => h \in S \cap A
        BY DEF IsList
    <2>2. Closed(nx, S \cap A)
        BY DEF IsList, Closed
    <2>3. S \cap A = A
        BY <2>1, <2>2 DEF IsList
    <2> QED BY <2>3
<1> QED BY <1>1, <1>2

(* Both lists are always well formed: each holds exactly the processes    *)
(* whose flag says so, and its back links mirror its forward links.       *)
THEOREM ListsAlwaysWellFormed == Spec => []ListsWellFormed
<1>1. ASSUME ProcessInv PROVE ListsWellFormed
    <2>1. Reach(run_head) = Awake /\ Reach(wait_head) = Sleeping
        BY <1>1, InvParts, ReachOfListIn DEF DList, Reach
    <2>2. ASSUME NEW p \in live
          PROVE  /\ next[p] # Null => prev[next[p]] = p
                 /\ prev[p] = Null <=> p \in {run_head, wait_head}
        <3>1. p \in Awake \/ p \in Sleeping
            BY DEF Awake, Sleeping
        <3>2. p # Null /\ p \in Proc
            BY <1>1, InvParts, NullFacts
        <3> QED BY <1>1, <3>1, <3>2, InvParts DEF DList, IsList, BackLinked
    <2> QED BY <2>1, <2>2 DEF ListsWellFormed
<1> QED BY <1>1, ProcessInvariant, PTL

(* No process ever sleeps on a message it has been sent. *)
THEOREM NoWakeupIsLost == Spec => []NoLostWakeup
<1>1. ProcessInv => NoLostWakeup
    BY DEF ProcessInv
<1> QED BY <1>1, ProcessInvariant, PTL

(* The scheduler never returns while a process could run. *)
THEOREM SchedulerReturnsOnlyWhenIdle == Spec => []ReturnsOnlyWhenIdle
<1>1. ASSUME ProcessInv PROVE ReturnsOnlyWhenIdle
    <2> SUFFICES ASSUME control = "returned"
                 PROVE  Awake = {} /\ \A p \in live : msg_head[p] = <<>>
        BY DEF ReturnsOnlyWhenIdle
    <2>1. Awake = {}
        BY <1>1, InvParts, HeadOfList DEF ProcessInv, SchedulerInv, DList
    <2>2. live = Sleeping
        BY <2>1 DEF Awake, Sleeping
    <2> QED BY <1>1, <2>1, <2>2 DEF ProcessInv, NoLostWakeup
<1> QED BY <1>1, ProcessInvariant, PTL

(* The pointers of the lists are processes or NULL, and everything else    *)
(* has its type.                                                           *)
THEOREM TypesHold == Spec => []TypeOK
<1>1. ProcessInv => TypeOK
    BY DEF ProcessInv
<1> QED BY <1>1, ProcessInvariant, PTL

(***************************************************************************)
(* Process implements Scheduling, for any set of addresses.                *)
(*                                                                         *)
(* The processes that are due are those reached from the pointer the       *)
(* scheduler has saved.  Taking the process of the slice out of the list   *)
(* does not change them, because a list has no cycle: its successors do    *)
(* not lead back to it, nor to its predecessor.                            *)
(***************************************************************************)

(* What is reached from h is closed and is the least closed set with h. *)
LEMMA ReachClosed ==
    ASSUME NEW nx \in [Proc -> Pointer], NEW h \in Pointer
    PROVE  /\ ReachIn(nx, h) \in SUBSET Proc
           /\ Closed(nx, ReachIn(nx, h))
           /\ h # Null => h \in ReachIn(nx, h)
           /\ \A S \in SUBSET Proc :
                (h # Null => h \in S) /\ Closed(nx, S) => ReachIn(nx, h) \subseteq S
<1> USE NullFacts
<1>1. Closed(nx, ReachIn(nx, h))
    BY DEF Closed, ReachIn
<1> QED BY <1>1 DEF ReachIn

LEMMA ReachNull ==
    ASSUME NEW nx PROVE ReachIn(nx, Null) = {}
<1>1. {} \in SUBSET Proc /\ Closed(nx, {})
    BY DEF Closed
<1> QED BY <1>1 DEF ReachIn

(* What is reached from x is x and what is reached from its successor. *)
LEMMA ReachStep ==
    ASSUME NEW nx \in [Proc -> Pointer], NEW x \in Proc
    PROVE  ReachIn(nx, x) = {x} \cup ReachIn(nx, nx[x])
<1> USE NullFacts
<1> DEFINE C == ReachIn(nx, nx[x])
<1>1. /\ C \in SUBSET Proc /\ Closed(nx, C)
      /\ nx[x] # Null => nx[x] \in C
      /\ \A S \in SUBSET Proc :
            (nx[x] # Null => nx[x] \in S) /\ Closed(nx, S) => C \subseteq S
    BY ReachClosed
<1>2. /\ ReachIn(nx, x) \in SUBSET Proc /\ Closed(nx, ReachIn(nx, x))
      /\ x \in ReachIn(nx, x)
      /\ \A S \in SUBSET Proc : x \in S /\ Closed(nx, S) => ReachIn(nx, x) \subseteq S
    BY ReachClosed
<1> HIDE DEF C
<1>3. ReachIn(nx, x) \subseteq {x} \cup C
    <2>1. Closed(nx, {x} \cup C)
        BY <1>1 DEF Closed
    <2> QED BY <1>1, <1>2, <2>1
<1>4. {x} \cup C \subseteq ReachIn(nx, x)
    <2>1. nx[x] # Null => nx[x] \in ReachIn(nx, x)
        BY <1>2 DEF Closed
    <2> QED BY <1>1, <1>2, <2>1
<1> QED BY <1>3, <1>4 DEF C

(* The pointers of what is reached are all that matters. *)
LEMMA ReachFrame ==
    ASSUME NEW nx \in [Proc -> Pointer], NEW nx2 \in [Proc -> Pointer],
           NEW h \in Pointer,
           \A q \in ReachIn(nx, h) : nx2[q] = nx[q]
    PROVE  ReachIn(nx2, h) = ReachIn(nx, h)
<1> DEFINE C == ReachIn(nx, h)
           D == ReachIn(nx2, h)
<1>1. /\ C \in SUBSET Proc /\ Closed(nx, C)
      /\ h # Null => h \in C
      /\ \A S \in SUBSET Proc : (h # Null => h \in S) /\ Closed(nx, S) => C \subseteq S
    BY ReachClosed
<1>2. /\ D \in SUBSET Proc /\ Closed(nx2, D)
      /\ h # Null => h \in D
      /\ \A S \in SUBSET Proc : (h # Null => h \in S) /\ Closed(nx2, S) => D \subseteq S
    BY ReachClosed
<1>3. \A q \in C : nx2[q] = nx[q]
    OBVIOUS
<1> HIDE DEF C, D
<1>4. D \subseteq C
    BY <1>1, <1>2, <1>3 DEF Closed
<1>5. C \subseteq D
    <2>1. Closed(nx, C \cap D)
        BY <1>1, <1>2, <1>3 DEF Closed
    <2>2. C \subseteq C \cap D
        BY <1>1, <1>2, <2>1
    <2> QED BY <2>2
<1> QED BY <1>4, <1>5 DEF C, D

(* A doubly linked list has no cycle: the successors of x never lead back *)
(* to x.  Otherwise the cycle would hold the predecessor of each of its   *)
(* members, so that the list's head could not lead into it.               *)
LEMMA ListAcyclic ==
    ASSUME NEW nx \in [Proc -> Pointer], NEW pv, NEW h, NEW A \in SUBSET Proc,
           DList(nx, pv, h, A), NEW x \in A
    PROVE  x \notin ReachIn(nx, nx[x]) /\ ReachIn(nx, nx[x]) \subseteq A
<1> USE NullFacts
<1> DEFINE C == ReachIn(nx, nx[x])
<1>0. /\ \A q \in A : nx[q] # Null => nx[q] \in A /\ pv[nx[q]] = q
      /\ h # Null => h \in A /\ pv[h] = Null
      /\ \A S \in SUBSET A : (h # Null => h \in S) /\ Closed(nx, S) => S = A
      /\ Closed(nx, A) /\ Null \notin A
    BY DEF DList, IsList, BackLinked, Closed
<1>1. /\ C \in SUBSET Proc /\ Closed(nx, C)
      /\ nx[x] # Null => nx[x] \in C
      /\ \A S \in SUBSET Proc :
            (nx[x] # Null => nx[x] \in S) /\ Closed(nx, S) => C \subseteq S
    BY ReachClosed
<1>2. C \subseteq A
    BY <1>0, <1>1
<1>3. x \notin C
    <2> SUFFICES ASSUME x \in C PROVE FALSE
        OBVIOUS
    <2> HIDE DEF C
    <2>1. nx[x] # Null /\ nx[x] \in C /\ pv[nx[x]] = x
        <3>1. CASE nx[x] = Null
            <4>1. C = {}
                BY <3>1, ReachNull DEF C
            <4> QED BY <4>1
        <3> QED BY <3>1, <1>0, <1>1
    <2>2. ASSUME NEW r \in C PROVE pv[r] \in C
        <3>1. CASE r = nx[x]
            BY <2>1, <3>1
        <3>2. CASE r # nx[x] /\ pv[r] \notin C
            <4>1. Closed(nx, C \ {r})
                BY <3>2, <1>0, <1>1, <1>2 DEF Closed
            <4>2. C \subseteq C \ {r}
                BY <3>2, <4>1, <1>1, <2>1
            <4> QED BY <4>2
        <3> QED BY <3>1, <3>2
    <2>3. Closed(nx, A \ C)
        BY <2>2, <1>0, <1>2 DEF Closed
    <2>4. h # Null => h \in A \ C
        BY <2>2, <1>0, <1>2
    <2>5. A \ C = A
        BY <2>3, <2>4, <1>0
    <2> QED BY <2>5, <1>2
<1> QED BY <1>2, <1>3

(* The pointer the scheduler saves stays valid over a slice: it is in the *)
(* run list and does not lead back to the process of the slice.           *)
THEOREM SavedNextStaysValid == Spec => []SavedNextValid
<1>1. ASSUME ProcessInv PROVE SavedNextValid
    <2> SUFFICES ASSUME control = "run"
                 PROVE  /\ current_process \in Awake
                        /\ saved_next # Null => saved_next \in Awake
                        /\ current_process \notin Reach(saved_next)
        BY DEF SavedNextValid
    <2>1. current_process \in Awake /\ saved_next = next[current_process]
        BY <1>1 DEF ProcessInv, SchedulerInv
    <2>2. DList(next, prev, run_head, Awake)
        BY <1>1 DEF ProcessInv
    <2>3. saved_next # Null => saved_next \in Awake
        BY <2>1, <2>2 DEF DList, IsList, Closed
    <2>4. current_process \notin Reach(saved_next)
        BY <1>1, <2>1, <2>2, InvParts, ListAcyclic DEF Reach
    <2> QED BY <2>1, <2>3, <2>4
<1> QED BY <1>1, ProcessInvariant, PTL

(***************************************************************************)
(* The simulation, one lemma per action                                    *)
(***************************************************************************)

(* While a process has the CPU, the rest of the pass is what its          *)
(* successor leads to.                                                    *)
LEMMA RunningFacts ==
    ASSUME ProcessInv, Running
    PROVE  /\ current_process \in Awake /\ current_process # Null
           /\ RunningProcess = current_process
           /\ Due = ReachIn(next, next[current_process])
           /\ current_process \notin Due
           /\ Due \subseteq Awake
           /\ next[current_process] \in Pointer
           /\ saved_next = next[current_process]
           /\ saved_next = Null => Due = {}
           /\ saved_next # Null => saved_next \in Due
<1>1. current_process \in Awake /\ saved_next = next[current_process] /\ control = "run"
    BY DEF Running, ProcessInv, SchedulerInv
<1>2. Due = ReachIn(next, next[current_process])
    BY <1>1 DEF Due, Reach
<1>3. current_process \notin Due /\ Due \subseteq Awake
    BY <1>1, <1>2, InvParts, ListAcyclic
<1>4. next[current_process] \in Pointer /\ current_process # Null
    BY <1>1, InvParts, NullFacts
<1>5. saved_next = Null => Due = {}
    BY <1>1, <1>2, ReachNull
<1>6. saved_next # Null => saved_next \in Due
    BY <1>1, <1>2, <1>4, InvParts, ReachClosed
<1> QED BY <1>1, <1>2, <1>3, <1>4, <1>5, <1>6 DEF RunningProcess

(* A step within a slice that leaves the pointers of the run list's       *)
(* members alone leaves the pass alone.                                   *)
LEMMA DueUnchanged ==
    ASSUME ProcessInv, Running, UNCHANGED schedule,
           next' \in [Proc -> Pointer], \A q \in Awake : next'[q] = next[q]
    PROVE  Due' = Due /\ RunningProcess' = RunningProcess
<1>1. /\ control = "run" /\ control' = "run"
      /\ saved_next' = saved_next /\ current_process' = current_process
    BY DEF Running, schedule
<1>2. /\ Due = ReachIn(next, saved_next) /\ saved_next \in Pointer
      /\ Due \subseteq Awake
    BY RunningFacts
<1>3. ReachIn(next', saved_next) = ReachIn(next, saved_next)
    BY <1>2, InvParts, ReachFrame
<1> QED BY <1>1, <1>2, <1>3 DEF Due, Reach, RunningProcess

LEMMA SpawnSimulated ==
    ASSUME ProcessInv, NEW p \in Proc, Spawn(p) PROVE Promise!ASpawn
<1>1. Running /\ RunningProcess # Null
    BY RunningFacts DEF Spawn
<1>2. p \notin Awake /\ p \notin Sleeping /\ Awake' = Awake \cup {p} /\ Sleeping' = Sleeping
    BY InvParts DEF Spawn, Awake, Sleeping
<1>3. Mailboxes' = [Mailboxes EXCEPT ![p] = <<>>]
    BY DEF Spawn, Mailboxes, ProcessInv, TypeOK
<1>4. Due' = Due /\ RunningProcess' = RunningProcess
    <2>1. next' \in [Proc -> Pointer]
        BY InvParts, PointerTypes DEF Spawn
    <2>2. \A q \in Awake : next'[q] = next[q]
        BY <1>2, InvParts DEF Spawn, NextInFront
    <2> QED BY <1>1, <2>1, <2>2, DueUnchanged DEF Spawn
<1> QED BY <1>1, <1>2, <1>3, <1>4 DEF Promise!ASpawn

LEMMA SendSimulated ==
    ASSUME ProcessInv, NEW q \in Proc, NEW m \in Msg, Send(q, m)
    PROVE  Promise!ASend
<1>1. /\ Running /\ RunningProcess # Null /\ q \in live /\ live' = live
      /\ Awaken(q) /\ UNCHANGED schedule
    BY RunningFacts DEF Send, heap
<1>2. /\ Awake' = Awake \cup {q} /\ Sleeping' = Sleeping \ {q}
      /\ next' \in [Proc -> Pointer]
      /\ \A p \in Awake : next'[p] = next[p]
    BY <1>1, AwakenLists
<1>3. Due' = Due /\ RunningProcess' = RunningProcess
    BY <1>1, <1>2, DueUnchanged
<1>4. Mailboxes' = [Mailboxes EXCEPT ![q] = <<m>> \o @]
    BY <1>1 DEF Send, Mailboxes, ProcessInv, TypeOK
<1>5. q \in Awake \cup Sleeping
    BY <1>1 DEF Awake, Sleeping
<1> QED BY <1>1, <1>2, <1>3, <1>4, <1>5 DEF Promise!ASend

LEMMA ReceiveSimulated == ASSUME ProcessInv, Receive PROVE Promise!AReceive
<1> DEFINE p == current_process
<1>1. Running /\ UNCHANGED lists /\ UNCHANGED schedule /\ live' = live
    BY DEF Receive, heap
<1>2. RunningProcess = p /\ p # Null /\ p \in live /\ p \in Proc
    BY <1>1, RunningFacts, InvParts DEF Awake
<1>3. Awake' = Awake /\ Sleeping' = Sleeping
    BY <1>1, ListsUnchanged
<1>4. Due' = Due /\ RunningProcess' = RunningProcess
    BY <1>1, InvParts, DueUnchanged DEF lists
<1>5. Mailboxes[p] # <<>> /\ Mailboxes' = [Mailboxes EXCEPT ![p] = Tail(@)]
    BY <1>1, <1>2 DEF Receive, Mailboxes, ProcessInv, TypeOK
<1> QED BY <1>2, <1>3, <1>4, <1>5 DEF Promise!AReceive

LEMMA DispatchSimulated == ASSUME ProcessInv, Dispatch PROVE Promise!ADispatch
<1> DEFINE p == current_process
<1>1. /\ UNCHANGED lists /\ live' = live /\ msg_head' = msg_head
      /\ control = "switch" /\ control' = "run"
      /\ saved_next' = next[p] /\ current_process' = p
    BY DEF Dispatch, heap, fields, lists, SavedSuccessor
<1>2. p \in Awake /\ p \in Proc
    BY <1>1, InvParts DEF ProcessInv, SchedulerInv
<1>3. Awake' = Awake /\ Sleeping' = Sleeping
    BY <1>1, ListsUnchanged
<1>4. Mailboxes' = Mailboxes
    BY <1>1 DEF Mailboxes
<1>5. RunningProcess = Null /\ RunningProcess' = p
    BY <1>1 DEF RunningProcess
<1>6. Due = {p} \cup ReachIn(next, next[p])
    BY <1>1, <1>2, InvParts, ReachStep DEF Due, Reach
<1>7. Due' = ReachIn(next, next[p])
    BY <1>1 DEF Due, Reach, lists
<1>8. p \notin ReachIn(next, next[p])
    BY <1>2, InvParts, ListAcyclic
<1> QED BY <1>3, <1>4, <1>5, <1>6, <1>7, <1>8 DEF Promise!ADispatch

(* The foot of the loop: the rest of the pass, or a new pass over all of  *)
(* the run list.                                                          *)
LEMMA AdvanceSimulated ==
    ASSUME ProcessInv, ProcessInv', Running, Advance(run_head'),
           \A q \in Awake \ {current_process} :
                next'[q] = next[q] \/ next[q] = current_process
    PROVE  Promise!AYield
<1> DEFINE p == current_process
<1>1. RunningProcess' = Null
    BY DEF Advance, RunningProcess
<1>2. Due' = ReachIn(next', Following(run_head'))
    BY DEF Advance, Due, Reach
<1>3. next' \in [Proc -> Pointer] /\ run_head' \in Pointer
    BY DEF ProcessInv, TypeOK
<1>4. CASE saved_next = Null
    <2>1. Due = {}
        BY <1>4, RunningFacts
    <2>2. Due' = Reach(run_head)'
        BY <1>2, <1>4 DEF Following, Reach
    <2>3. IsList(next', run_head', Awake') /\ Awake' \in SUBSET Proc
        BY DEF ProcessInv, TypeOK, DList, Awake
    <2>4. ReachIn(next', run_head') = Awake'
        BY <2>3, ReachOfListIn
    <2> QED BY <1>1, <2>1, <2>2, <2>4 DEF Promise!AYield, Reach
<1>5. CASE saved_next # Null
    <2>1. Due # {} /\ p \notin Due /\ Due \subseteq Awake /\ saved_next \in Pointer
          /\ Due = ReachIn(next, saved_next)
        BY <1>5, RunningFacts
    <2>2. Closed(next, Due)
        BY <2>1, InvParts, ReachClosed
    <2>3. \A q \in Due : next'[q] = next[q]
        BY <2>1, <2>2, RunningFacts DEF Closed
    <2>4. ReachIn(next', saved_next) = Due
        BY <1>3, <2>1, <2>3, InvParts, ReachFrame
    <2>5. Due' = Due
        BY <1>2, <1>5, <2>4 DEF Following
    <2> QED BY <1>1, <2>1, <2>5 DEF Promise!AYield
<1> QED BY <1>4, <1>5

LEMMA ExpireSimulated ==
    ASSUME ProcessInv, ProcessInv', Expire PROVE Promise!AExpire
<1>1. UNCHANGED lists /\ live' = live /\ msg_head' = msg_head /\ Running
    BY DEF Expire, heap, fields, lists
<1>2. Advance(run_head')
    BY DEF Expire
<1>3. RunningProcess # Null
    BY <1>1, RunningFacts
<1>4. Awake' = Awake /\ Sleeping' = Sleeping
    BY <1>1, ListsUnchanged
<1>5. Mailboxes' = Mailboxes
    BY <1>1 DEF Mailboxes
<1>6. Promise!AYield
    BY <1>1, <1>2, AdvanceSimulated DEF lists
<1> QED BY <1>3, <1>4, <1>5, <1>6 DEF Promise!AExpire

(* Taking p out of its list changes the successor of its predecessor only. *)
LEMMA NextWithoutElsewhere ==
    ASSUME ProcessInv, NEW p \in Awake, NEW q \in Awake
    PROVE  NextWithout(next, prev, p)[q] = next[q] \/ next[q] = p
BY InvParts DEF NextWithout, DList, BackLinked

LEMMA WaitSimulated ==
    ASSUME ProcessInv, ProcessInv', Wait PROVE Promise!AWait
<1> DEFINE p == current_process
<1>1. /\ next' = NextInFront(NextWithout(next, prev, p), p, wait_head)
      /\ asleep' = [asleep EXCEPT ![p] = TRUE]
      /\ Advance(run_head') /\ Running /\ msg_head[p] = <<>>
      /\ UNCHANGED <<live, msg_head>>
    BY DEF Wait, heap, MustSleep
<1>2. p \in Awake /\ p \in Proc /\ p # Null /\ RunningProcess = p
    BY <1>1, RunningFacts, InvParts
<1>3. Awake' = Awake \ {p} /\ Sleeping' = Sleeping \cup {p}
    BY <1>1, <1>2, InvParts DEF Awake, Sleeping
<1>4. Mailboxes' = Mailboxes /\ Mailboxes[p] = <<>>
    BY <1>1, <1>2 DEF Mailboxes
<1>5. \A q \in Awake \ {p} : next'[q] = next[q] \/ next[q] = p
    <2>1. NextWithout(next, prev, p) \in [Proc -> Pointer]
        BY <1>2, InvParts, PointerTypes
    <2> QED BY <1>1, <1>2, <2>1, InvParts, NextWithoutElsewhere DEF NextInFront
<1>6. Promise!AYield
    BY <1>1, <1>5, AdvanceSimulated
<1> QED BY <1>2, <1>3, <1>4, <1>6 DEF Promise!AWait

LEMMA FinishSimulated ==
    ASSUME ProcessInv, ProcessInv', Finish PROVE Promise!AFinish
<1> DEFINE p == current_process
<1>1. /\ next' = NextWithout(next, prev, p)
      /\ live' = live \ {p}
      /\ Advance(run_head') /\ Running
      /\ UNCHANGED <<asleep, msg_head>>
    BY DEF Finish
<1>2. p \in Awake /\ p \in Proc /\ p # Null /\ RunningProcess = p
    BY <1>1, RunningFacts, InvParts
<1>3. Awake' = Awake \ {p} /\ Sleeping' = Sleeping
    BY <1>1, <1>2, InvParts DEF Awake, Sleeping
<1>4. Mailboxes' = [Mailboxes EXCEPT ![p] = <<>>]
    BY <1>1, <1>2 DEF Mailboxes
<1>5. \A q \in Awake \ {p} : next'[q] = next[q] \/ next[q] = p
    BY <1>1, <1>2, NextWithoutElsewhere
<1>6. Promise!AYield
    BY <1>1, <1>5, AdvanceSimulated
<1> QED BY <1>2, <1>3, <1>4, <1>6 DEF Promise!AFinish

(* Steps that change no field, list or schedule do not show. *)
LEMMA StutterSimulated ==
    ASSUME UNCHANGED <<heap, fields, run_head, wait_head, schedule>>
    PROVE  UNCHANGED Promise!avars
<1>1. Awake' = Awake /\ Sleeping' = Sleeping
    BY DEF heap, fields, Awake, Sleeping
<1>2. Due' = Due /\ RunningProcess' = RunningProcess
    BY DEF fields, schedule, Due, Reach, RunningProcess
<1>3. Mailboxes' = Mailboxes
    BY DEF heap, fields, Mailboxes
<1> QED BY <1>1, <1>2, <1>3 DEF Promise!avars

LEMMA InitSimulated == ASSUME Init PROVE Promise!AInit
<1>1. PICK main \in Proc :
        /\ live = {main}
        /\ asleep = [p \in Proc |-> FALSE]
        /\ next = [p \in Proc |-> Null]
        /\ msg_head = [p \in Proc |-> <<>>]
        /\ current_process = main /\ control = "switch"
    BY DEF Init
<1>2. Awake = {main} /\ Sleeping = {}
    BY <1>1 DEF Awake, Sleeping
<1>3. RunningProcess = Null
    BY <1>1 DEF RunningProcess
<1>4. Due = {main}
    <2>1. next \in [Proc -> Pointer] /\ next[main] = Null
        BY <1>1, NullFacts
    <2>2. ReachIn(next, main) = {main} \cup {}
        BY <2>1, ReachStep, ReachNull
    <2> QED BY <1>1, <2>2 DEF Due, Reach
<1>5. Mailboxes = [q \in Proc |-> <<>>]
    BY <1>1 DEF Mailboxes
<1> QED BY <1>2, <1>3, <1>4, <1>5 DEF Promise!AInit

(* The scheduler of process.c, pointers and all, implements the abstract  *)
(* round-robin scheduler.                                                 *)
THEOREM ProcessImplementsScheduling == Spec => ImplementsScheduling
<1>1. ProcessInv /\ ProcessInv' /\ [Next]_vars => [Promise!ANext]_(Promise!avars)
    <2> SUFFICES ASSUME ProcessInv, ProcessInv', [Next]_vars
                 PROVE  Promise!ANext \/ UNCHANGED Promise!avars
        OBVIOUS
    <2>1. CASE \E p \in Proc : Spawn(p)
        BY <2>1, SpawnSimulated DEF Promise!ANext
    <2>2. CASE \E q \in Proc, m \in Msg : Send(q, m)
        BY <2>2, SendSimulated DEF Promise!ANext
    <2>3. CASE \E q \in Proc : SendToFreed(q)
        BY <2>3, StutterSimulated DEF SendToFreed
    <2>4. CASE Receive
        BY <2>4, ReceiveSimulated DEF Promise!ANext
    <2>5. CASE Dispatch
        BY <2>5, DispatchSimulated DEF Promise!ANext
    <2>6. CASE Expire
        BY <2>6, ExpireSimulated DEF Promise!ANext
    <2>7. CASE Wait
        BY <2>7, WaitSimulated DEF Promise!ANext
    <2>8. CASE Finish
        BY <2>8, FinishSimulated DEF Promise!ANext
    <2>9. CASE UNCHANGED vars
        BY <2>9, StutterSimulated DEF vars
    <2> QED BY <2>1, <2>2, <2>3, <2>4, <2>5, <2>6, <2>7, <2>8, <2>9 DEF Next
<1>2. Init => Promise!AInit
    BY InitSimulated
<1> QED BY <1>1, <1>2, ProcessInvariant, PTL DEF Spec, ImplementsScheduling, Promise!ASpec
=============================================================================
