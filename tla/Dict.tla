------------------------------- MODULE Dict -------------------------------
(***************************************************************************)
(* The dictionaries of dict.c: a table of buckets with chains of links,    *)
(* and in it the cursor of a loop over the keys.                           *)
(*                                                                         *)
(* A chain is the sequence of its links from the last to the first: a new  *)
(* link is put in front of the others, which is at the end of the sequence,*)
(* so that the link i is always followed by the link i - 1, and 0 is the   *)
(* end of the chain.  Keys are integers, booleans or atoms, for which      *)
(* value_equal is equality.  A step is one call of a function of dict.h.   *)
(***************************************************************************)
EXTENDS Integers, Sequences

CONSTANTS Key, Value,
          Null,         \* value_null()
          None,         \* not a key: what dict_getkey gives when no key is left
          NumBuckets,   \* num_buckets, 31 in the code
          hashpjw       \* key -> its bucket

ASSUME BucketAssumption == /\ NumBuckets \in Nat \ {0}
                           /\ hashpjw \in [Key -> 0 .. NumBuckets - 1]
                           /\ None \notin Key

VARIABLES bucket, cursor, cur_bucket,
          old,    \* the keys that were there when the loop began
          seen    \* the keys it has come to

dict == <<bucket, cursor, cur_bucket>>
loop == <<old, seen>>

Bucket == 0 .. NumBuckets - 1
Last   == NumBuckets - 1
Link   == [key : Key, value : Value]
Link0(k, v) == [key |-> k, value |-> v]

(***************************************************************************)
(* The functions                                                           *)
(***************************************************************************)

(* dict_locate *)
Chain(k)  == bucket[hashpjw[k]]
Links(k)  == {i \in DOMAIN Chain(k) : Chain(k)[i].key = k}
Found(k)  == Links(k) # {}
Locate(k) == CHOOSE i \in Links(k) : \A j \in Links(k) : j <= i

(* dict_fetch, dict_exists *)
Fetch(k)  == IF Found(k) THEN Chain(k)[Locate(k)].value ELSE Null
Exists(k) == Fetch(k) # Null

(* dict_eof, dict_getkey *)
Eof    == cursor = 0
GetKey == IF Eof THEN None ELSE bucket[cur_bucket][cursor].key

(* dict_advance, when bucket and link are b and c. *)
Later(b) == {j \in b + 1 .. Last : bucket[j] # <<>>}

AdvanceBroken(b, c) ==   \* mutant: the test for the last bucket is off by one
    IF c # 0 THEN cur_bucket' = b /\ cursor' = c
    ELSE IF Later(b) = {} THEN cur_bucket' = NumBuckets /\ cursor' = 0
    ELSE \E j \in Later(b) : /\ \A i \in Later(b) : j <= i
                             /\ cur_bucket' = j /\ cursor' = Len(bucket[j])

Advance(b, c) ==
    IF c # 0 THEN cur_bucket' = b /\ cursor' = c
    ELSE IF Later(b) = {} THEN cur_bucket' = Last /\ cursor' = 0
    ELSE \E j \in Later(b) : /\ \A i \in Later(b) : j <= i
                             /\ cur_bucket' = j /\ cursor' = Len(bucket[j])

Stored == {k \in Key : Found(k)}

Visit == IF Eof' THEN {} ELSE {GetKey'}

(* dict_new *)
DictInit ==
    /\ bucket = [b \in Bucket |-> <<>>]
    /\ cursor = 0 /\ cur_bucket = 0
    /\ old = {} /\ seen = {}

StoreBroken(k, v) ==   \* mutant: a link is added without a look for the key
    /\ bucket' = [bucket EXCEPT ![hashpjw[k]] = Append(@, Link0(k, v))]
    /\ UNCHANGED <<cursor, cur_bucket, loop>>

(* dict_store *)
Store(k, v) ==
    /\ IF Found(k)
       THEN bucket' = [bucket EXCEPT ![hashpjw[k]][Locate(k)] = Link0(k, v)]
       ELSE bucket' = [bucket EXCEPT ![hashpjw[k]] = Append(@, Link0(k, v))]
    /\ UNCHANGED <<cursor, cur_bucket, loop>>

(* dict_rewind *)
Rewind ==
    /\ UNCHANGED bucket
    /\ Advance(0, Len(bucket[0]))
    /\ old' = Stored
    /\ seen' = Visit

StepBroken ==   \* mutant: the rest of the chain is skipped
    /\ UNCHANGED <<bucket, old>>
    /\ Advance(cur_bucket, 0)
    /\ seen' = seen \cup Visit

StepAgain ==   \* mutant: at the end of a chain the same bucket is read again
    /\ UNCHANGED <<bucket, old>>
    /\ Advance(cur_bucket, IF Eof THEN Len(bucket[cur_bucket]) ELSE cursor - 1)
    /\ seen' = seen \cup Visit

(* dict_next *)
Step ==
    /\ UNCHANGED <<bucket, old>>
    /\ Advance(cur_bucket, IF Eof THEN 0 ELSE cursor - 1)
    /\ seen' = seen \cup Visit

DupBroken ==   \* mutant: chain_dup copies the first link only
    /\ cursor' = 0 /\ cur_bucket' = 0
    /\ old' = {} /\ seen' = {}
    /\ bucket' = [b \in Bucket |-> IF bucket[b] = <<>> THEN <<>>
                                    ELSE <<bucket[b][Len(bucket[b])]>>]

(* dict_dup; what follows is about the copy. *)
Dup ==
    /\ cursor' = 0 /\ cur_bucket' = 0
    /\ old' = {} /\ seen' = {}
    /\ UNCHANGED bucket

DictNext ==
    \/ \E k \in Key, v \in Value : Store(k, v)
    \/ Rewind
    \/ Step
    \/ Dup

DictSpec == DictInit /\ [][DictNext]_<<dict, loop>>

(***************************************************************************)
(* Properties                                                              *)
(***************************************************************************)
DictTypeOK ==
    /\ bucket \in [Bucket -> Seq(Link)]
    /\ cur_bucket \in Bucket
    /\ cursor \in 0 .. Len(bucket[cur_bucket])
    /\ old \subseteq Key /\ seen \subseteq Key

(* A key has one link at most, and it is in the key's bucket: no store can *)
(* leave an older value behind it.                                         *)
OneLinkPerKey ==
    \A b \in Bucket : \A i, j \in DOMAIN bucket[b] :
        /\ hashpjw[bucket[b][i].key] = b
        /\ bucket[b][i].key = bucket[b][j].key => i = j

(* A loop that comes to its end has come to all keys that were there when  *)
(* it began, whatever dict_store has put into the chains in the meantime.  *)
LoopSeesAll == Eof => old \subseteq seen

(* The loop never comes to a key a second time.                            *)
NoKeyTwice == [][Step => Visit \cap seen = {}]_<<dict, loop>>

(* The keys that dict_next will still come to. *)
Rest ==
    {k \in Key : \E i \in Links(k) : \/ hashpjw[k] = cur_bucket /\ i < cursor
                                     \/ hashpjw[k] > cur_bucket}

(* dict.c is a dictionary. *)
Promise == INSTANCE Dictionary
           WITH map   <- [k \in Stored |-> Fetch(k)],
                todo  <- Rest,
                at    <- GetKey,
                begun <- ~(Eof /\ cur_bucket # Last)

ImplementsDictionary == Promise!Spec
============================================================================
