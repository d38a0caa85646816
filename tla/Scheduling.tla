---------------------------- MODULE Scheduling ----------------------------
(***************************************************************************)
(* What the scheduler and the mailboxes of process.c promise, with sets    *)
(* instead of linked lists.                                                *)
(*                                                                         *)
(* A round-robin pass gives one slice to every process of `due'.  A        *)
(* process that is spawned or awakened during a pass joins `runnable' but  *)
(* not `due': it gets its slice in the next pass.  When the last slice of  *)
(* a pass ends, every runnable process is due again, and the scheduler     *)
(* returns when there is none.                                             *)
(*                                                                         *)
(* A mailbox is a stack: the newest message is received first.             *)
(***************************************************************************)
EXTENDS Sequences

CONSTANTS Proc,     \* the addresses a process can have
          Msg,      \* the values a process can send
          Nobody    \* no process has the CPU

VARIABLES runnable, waiting, due, running, mailbox

avars == <<runnable, waiting, due, running, mailbox>>

AInit ==
    \E p \in Proc :
        /\ runnable = {p}
        /\ waiting = {}
        /\ due = {p}
        /\ running = Nobody
        /\ mailbox = [q \in Proc |-> <<>>]

(* A process whose turn it is in this pass gets the CPU. *)
ADispatch ==
    /\ running = Nobody
    /\ \E p \in due : running' = p /\ due' = due \ {p}
    /\ UNCHANGED <<runnable, waiting, mailbox>>

(* The running process creates a process: it runs from the next pass on. *)
ASpawn ==
    /\ running # Nobody
    /\ \E p \in Proc \ (runnable \cup waiting) :
        /\ runnable' = runnable \cup {p}
        /\ mailbox' = [mailbox EXCEPT ![p] = <<>>]
    /\ UNCHANGED <<waiting, due, running>>

(* The running process sends m to q, and q, if it waits, becomes runnable. *)
ASend ==
    /\ running # Nobody
    /\ \E q \in runnable \cup waiting, m \in Msg :
        /\ mailbox' = [mailbox EXCEPT ![q] = <<m>> \o @]
        /\ runnable' = runnable \cup {q}
        /\ waiting' = waiting \ {q}
    /\ UNCHANGED <<due, running>>

(* The running process takes the newest message of its mailbox. *)
AReceive ==
    /\ running # Nobody
    /\ mailbox[running] # <<>>
    /\ mailbox' = [mailbox EXCEPT ![running] = Tail(@)]
    /\ UNCHANGED <<runnable, waiting, due, running>>

(* The pass continues with what is left of it, or a new one begins. *)
AYield ==
    /\ running' = Nobody
    /\ due' = IF due = {} THEN runnable' ELSE due

(* The slice ends because its instructions are used up. *)
AExpire ==
    /\ running # Nobody
    /\ UNCHANGED <<runnable, waiting, mailbox>>
    /\ AYield

(* Only a process with an empty mailbox may be put to sleep. *)
AWait ==
    /\ running # Nobody
    /\ mailbox[running] = <<>>
    /\ runnable' = runnable \ {running}
    /\ waiting' = waiting \cup {running}
    /\ UNCHANGED mailbox
    /\ AYield

(* The process ends; its mailbox goes with it. *)
AFinish ==
    /\ running # Nobody
    /\ runnable' = runnable \ {running}
    /\ mailbox' = [mailbox EXCEPT ![running] = <<>>]
    /\ UNCHANGED waiting
    /\ AYield

ANext ==
    \/ ADispatch \/ ASpawn \/ ASend \/ AReceive
    \/ AExpire \/ AWait \/ AFinish

ASpec == AInit /\ [][ANext]_avars
============================================================================
