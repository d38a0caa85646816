------------------------------ MODULE Process ------------------------------
(***************************************************************************)
(* The processes of Bhuna (process.c): two doubly linked lists, the run    *)
(* list and the wait list, a mailbox in every process, and the round-robin *)
(* scheduler, with vm_run as the environment that performs the operations  *)
(* of the process that has the CPU and decides how its slice ends.         *)
(*                                                                         *)
(* A process is the address of its `struct process'; the fields of the     *)
(* struct are functions of the address.  Freed memory keeps its contents   *)
(* and its address may be handed out again.                                *)
(***************************************************************************)
EXTENDS Sequences, Naturals

CONSTANTS Proc,          \* addresses malloc may give to a struct process
          Msg,           \* values a process can send
          Null,          \* the null pointer
          MailboxBound   \* bound: messages waiting in one mailbox

ASSUME NullAssumption == Null \notin Proc
ASSUME BoundAssumption == MailboxBound \in Nat

VARIABLES
    live,              \* addresses that hold an allocated struct process
    known,             \* addresses some Spawn or Self has handed out
    asleep, next, prev, msg_head,               \* the fields of the struct
    run_head, wait_head, current_process,       \* the globals
    saved_next,        \* the local `next' of process_scheduler
    control,           \* where process_scheduler is
    undefined          \* a freed struct was used in a way that corrupts

fields   == <<asleep, next, prev, msg_head>>
lists    == <<asleep, next, prev, run_head, wait_head>>
heap     == <<live, known>>
schedule == <<current_process, saved_next, control>>
vars     == <<heap, fields, run_head, wait_head, schedule, undefined>>

Pointer == Proc \cup {Null}

(***************************************************************************)
(* Doubly linked lists                                                     *)
(***************************************************************************)

(* The pointers nx and pv after p is taken out of the list it is in.  The *)
(* head of that list is handled by each caller.                           *)
NextWithout(nx, pv, p) ==
    IF pv[p] # Null THEN [nx EXCEPT ![pv[p]] = nx[p]] ELSE nx

PrevWithoutForgotten(nx, pv, p) == pv   \* mutant: the back link is not mended

PrevWithout(nx, pv, p) ==
    IF nx[p] # Null THEN [pv EXCEPT ![nx[p]] = pv[p]] ELSE pv

(* A list head moves on when the process taken out is the first one. *)
HeadWithout(nx, pv, p, head) ==
    IF pv[p] = Null /\ p = head THEN nx[p] ELSE head

(* The pointers nx and pv after p is put in front of the list at head. *)
NextInFront(nx, p, head) == [nx EXCEPT ![p] = head]

PrevInFront(pv, p, head) ==
    [q \in Proc |-> IF q = p THEN Null ELSE IF q = head THEN p ELSE pv[q]]

(***************************************************************************)
(* Initial state: main has created the first process and called            *)
(* process_scheduler, which has set current_process to run_head.           *)
(***************************************************************************)
Init ==
    \E main \in Proc :
        /\ live = {main}
        /\ known = {main}
        /\ asleep = [p \in Proc |-> FALSE]
        /\ next = [p \in Proc |-> Null]
        /\ prev = [p \in Proc |-> Null]
        /\ msg_head = [p \in Proc |-> <<>>]
        /\ run_head = main
        /\ wait_head = Null
        /\ current_process = main
        /\ saved_next = Null
        /\ control = "switch"
        /\ undefined = FALSE

(***************************************************************************)
(* What the running process does in its slice                              *)
(***************************************************************************)
Running == control = "run" /\ ~undefined

(* process_new, for the vm that process_spawn has made: malloc returns any *)
(* address that is free, the new process is put in front of the run list.  *)
Spawn(p) ==
    /\ Running
    /\ p \notin live
    /\ live' = live \cup {p}
    /\ known' = known \cup {p}
    /\ msg_head' = [msg_head EXCEPT ![p] = <<>>]
    /\ asleep' = [asleep EXCEPT ![p] = FALSE]
    /\ next' = NextInFront(next, p, run_head)
    /\ prev' = PrevInFront(prev, p, run_head)
    /\ run_head' = p
    /\ UNCHANGED <<wait_head, schedule, undefined>>

(* process_awaken: a sleeping process moves to the front of the run list. *)
AwakenAnyway(p) ==   \* mutant: without the test of asleep
    /\ wait_head' = HeadWithout(next, prev, p, wait_head)
    /\ next' = NextInFront(NextWithout(next, prev, p), p, run_head)
    /\ prev' = PrevInFront(PrevWithout(next, prev, p), p, run_head)
    /\ run_head' = p
    /\ asleep' = [asleep EXCEPT ![p] = FALSE]

Awaken(p) ==
    IF asleep[p]
    THEN /\ wait_head' = HeadWithout(next, prev, p, wait_head)
         /\ next' = NextInFront(NextWithout(next, prev, p), p, run_head)
         /\ prev' = PrevInFront(PrevWithout(next, prev, p), p, run_head)
         /\ run_head' = p
         /\ asleep' = [asleep EXCEPT ![p] = FALSE]
    ELSE UNCHANGED lists

(* process_send: the message goes in front of the mailbox. *)
Send(q, m) ==
    /\ Running
    /\ q \in live
    /\ Len(msg_head[q]) < MailboxBound
    /\ msg_head' = [msg_head EXCEPT ![q] = <<m>> \o @]
    /\ Awaken(q)
    /\ UNCHANGED <<heap, schedule, undefined>>

(* A handle is a raw pointer and Send does not check that its process      *)
(* still exists.  A write to a freed struct is lost, unless the allocator  *)
(* has put its own data where `asleep' was: then process_awaken unlinks    *)
(* through wild pointers and nothing is known of what follows.             *)
SendToFreed(q) ==
    /\ Running
    /\ q \in known \ live
    /\ undefined' \in BOOLEAN
    /\ UNCHANGED <<heap, fields, run_head, wait_head, schedule>>

(* process_recv with a message in the mailbox: the front one is taken. *)
Receive ==
    /\ Running
    /\ msg_head[current_process] # <<>>
    /\ msg_head' = [msg_head EXCEPT ![current_process] = Tail(@)]
    /\ UNCHANGED <<heap, lists, schedule, undefined>>

(***************************************************************************)
(* process_scheduler                                                       *)
(***************************************************************************)

(* The head of the loop: the successor is read before the slice begins. *)
SavedSuccessor(p) == next[p]

Dispatch ==
    /\ control = "switch"
    /\ saved_next' = SavedSuccessor(current_process)
    /\ control' = "run"
    /\ UNCHANGED <<heap, fields, run_head, wait_head, current_process,
                   undefined>>

(* The foot of the loop, with the run list as the slice has left it. *)
FollowingPassOnly(head) == saved_next   \* mutant: returns after one pass

FollowingFromHead(head) == head   \* mutant: every slice starts a new pass

Following(head) == IF saved_next # Null THEN saved_next ELSE head

AdvanceForever(head) ==   \* mutant: the scheduler never returns
    /\ current_process' = Following(head)
    /\ control' = "switch"
    /\ saved_next' = Null

Advance(head) ==
    /\ current_process' = Following(head)
    /\ control' = IF Following(head) = Null THEN "returned" ELSE "switch"
    /\ saved_next' = Null

(* vm_run returns VM_TIME_EXPIRED. *)
Expire ==
    /\ Running
    /\ Advance(run_head)
    /\ UNCHANGED <<heap, fields, run_head, wait_head, undefined>>

(* Recv finds the mailbox empty, vm_run returns VM_WAITING with the        *)
(* program counter still at the Recv, and process_sleep puts the process   *)
(* in front of the wait list.                                              *)
MustSleepAlways(p) == TRUE   \* mutant: Recv sleeps without a look

MustSleep(p) == msg_head[p] = <<>>

Wait ==
    LET p == current_process IN
    /\ Running
    /\ MustSleep(p)
    /\ run_head' = HeadWithout(next, prev, p, run_head)
    /\ next' = NextInFront(NextWithout(next, prev, p), p, wait_head)
    /\ prev' = PrevInFront(PrevWithout(next, prev, p), p, wait_head)
    /\ wait_head' = p
    /\ asleep' = [asleep EXCEPT ![p] = TRUE]
    /\ Advance(run_head')
    /\ UNCHANGED <<heap, msg_head, undefined>>

(* vm_run returns VM_TERMINATED or VM_RETURNED and process_free takes the *)
(* process out of its list; the messages it has not read are not freed.   *)
Finish ==
    LET p == current_process IN
    /\ Running
    /\ next' = NextWithout(next, prev, p)
    /\ prev' = PrevWithout(next, prev, p)
    /\ run_head' = HeadWithout(next, prev, p, run_head)
    /\ wait_head' = IF p = run_head THEN wait_head ELSE HeadWithout(next, prev, p, wait_head)
    /\ live' = live \ {p}
    /\ Advance(run_head')
    /\ UNCHANGED <<known, asleep, msg_head, undefined>>

SliceEnds == Expire \/ Wait \/ Finish

Next ==
    \/ \E p \in Proc : Spawn(p)
    \/ \E q \in Proc, m \in Msg : Send(q, m)
    \/ \E q \in Proc : SendToFreed(q)
    \/ Receive
    \/ Dispatch
    \/ Expire
    \/ Wait
    \/ Finish

Spec == Init /\ [][Next]_vars

(* The scheduler runs as long as it has something to run, and vm_run       *)
(* returns after TIMESLICE instructions at the latest.                     *)
FairSpec == Spec /\ WF_vars(Dispatch) /\ WF_vars(SliceEnds)

(***************************************************************************)
(* Properties                                                              *)
(***************************************************************************)

TypeOK ==
    /\ live \subseteq known /\ known \subseteq Proc
    /\ asleep \in [Proc -> BOOLEAN]
    /\ next \in [Proc -> Pointer]
    /\ prev \in [Proc -> Pointer]
    /\ msg_head \in [Proc -> Seq(Msg)]
    /\ run_head \in Pointer
    /\ wait_head \in Pointer
    /\ current_process \in Pointer
    /\ saved_next \in Pointer
    /\ control \in {"switch", "run", "returned"}
    /\ undefined \in BOOLEAN
    /\ control # "returned" => current_process \in Proc

(* The addresses reached from h through the next fields: the members of   *)
(* every set that holds h and is closed under next.                       *)
Closed(nx, S) == \A q \in S : nx[q] # Null => nx[q] \in S

ReachIn(nx, h) ==
    {p \in Proc : \A S \in SUBSET Proc :
                     (h # Null => h \in S) /\ Closed(nx, S) => p \in S}

Reach(h) == ReachIn(next, h)

Awake    == {p \in live : ~asleep[p]}
Sleeping == {p \in live : asleep[p]}

(* Every process is in exactly the list its asleep flag names, and both   *)
(* lists can be walked in both directions: an error in any of the four    *)
(* unlinking and linking sequences of process.c shows here.               *)
ListsWellFormed ==
    /\ Reach(run_head) = Awake
    /\ Reach(wait_head) = Sleeping
    /\ \A p \in live :
        /\ next[p] # Null => prev[next[p]] = p
        /\ prev[p] = Null <=> p \in {run_head, wait_head}

(* The pointer that process_scheduler keeps over a slice still names a    *)
(* process of the run list, the rest of the pass, whatever the slice did. *)
SavedNextValid ==
    control = "run" =>
        /\ current_process \in Awake
        /\ saved_next # Null => saved_next \in Awake
        /\ current_process \notin Reach(saved_next)

(* No lost wake-up: no process sleeps while its mailbox holds a message.  *)
NoLostWakeup == \A p \in Sleeping : msg_head[p] = <<>>

(* process_scheduler returns only when no process can run: those left all *)
(* wait for a message that nobody is there to send.                       *)
ReturnsOnlyWhenIdle ==
    control = "returned" => Awake = {} /\ \A p \in live : msg_head[p] = <<>>

(* A is the set of the members of the list that starts at h: no smaller   *)
(* set holds h and is closed under nx.                                    *)
IsList(nx, h, A) ==
    /\ h # Null => h \in A
    /\ Closed(nx, A)
    /\ \A S \in SUBSET A : (h # Null => h \in S) /\ Closed(nx, S) => S = A

(* The back links of that list mirror its forward links. *)
BackLinked(nx, pv, h, A) ==
    /\ h # Null => pv[h] = Null
    /\ \A p \in A :
        /\ pv[p] = Null => p = h
        /\ pv[p] # Null => pv[p] \in A /\ nx[pv[p]] = p
        /\ nx[p] # Null => pv[nx[p]] = p

DList(nx, pv, h, A) == IsList(nx, h, A) /\ BackLinked(nx, pv, h, A)

(* The scheduler's own pointers: its process is in the run list, and what *)
(* it saved is still that process's successor.                            *)
SchedulerInv ==
    /\ control # "returned" => current_process \in Awake
    /\ control = "run" => saved_next = next[current_process]
    /\ control = "returned" => run_head = Null

(* The inductive invariant: both lists, the scheduler's pointers, and the *)
(* empty mailboxes of those who sleep.                                    *)
ProcessInv ==
    /\ TypeOK
    /\ DList(next, prev, run_head, Awake)
    /\ DList(next, prev, wait_head, Sleeping)
    /\ SchedulerInv
    /\ NoLostWakeup

(* A process that can run gets the CPU, however many others are spawned   *)
(* and awakened in front of it.                                           *)
EveryRunnableRuns ==
    \A p \in Proc : p \in Awake ~> (control = "run" /\ current_process = p) \/ undefined

(* The abstract scheduler's state: the process that has the CPU, those    *)
(* that still get a slice in this pass, and the mailboxes of the living.  *)
RunningProcess == IF control = "run" THEN current_process ELSE Null
Due            == Reach(IF control = "run" THEN saved_next ELSE current_process)
Mailboxes      == [p \in Proc |-> IF p \in live THEN msg_head[p] ELSE <<>>]

Promise == INSTANCE Scheduling WITH
    runnable <- Awake,
    waiting  <- Sleeping,
    due      <- Due,
    running  <- RunningProcess,
    mailbox  <- Mailboxes,
    Nobody   <- Null

(* The linked lists implement the round-robin passes over sets: whatever  *)
(* is spawned, awakened, put to sleep or freed during a pass, every other *)
(* process of the pass gets its one slice in it.                          *)
ImplementsScheduling == Promise!ASpec
=============================================================================
