----------------------------- MODULE LeafProofs -----------------------------
(***************************************************************************)
(* Proofs about the parts that call nothing else, dictionaries and the     *)
(* scanner; they share nothing.                                            *)
(*                                                                         *)
(* dict.c is a dictionary, for any keys, any number of buckets and any     *)
(* hash function.                                                          *)
(*                                                                         *)
(* What a call of the scanner has read and put back is one character at    *)
(* most, and it is always the last one of the file so far; from this       *)
(* follows that putting a newline back takes the line back and leaves the  *)
(* column right, and that the tokens are those of the text.                *)
(***************************************************************************)
EXTENDS Dict, Scanner, Induction, FiniteSetTheorems, SequenceTheorems, TLAPS

(***************************************************************************)
(* Dictionaries: the inductive invariant                                   *)
(***************************************************************************)

(* A loop has still to come to what it has not seen of the old keys; what  *)
(* it has seen is in the chains, and it does not come back to it.          *)
LoopInv ==
    /\ old \subseteq seen \cup Rest
    /\ seen \cap Rest = {}
    /\ seen \subseteq Stored
    /\ Eof /\ cur_bucket # Last => old = {}

DictInv == DictTypeOK /\ OneLinkPerKey /\ LoopInv

(* The keys of the link c of a bucket, of those that follow it and of the  *)
(* buckets after it.                                                       *)
KeysFrom(b, c) == {k \in Key : \E i \in Links(k) : \/ hashpjw[k] = b /\ i <= c
                                                   \/ hashpjw[k] > b}

(***************************************************************************)
(* Lemmas                                                                  *)
(***************************************************************************)

(* The chain of a key.                                                     *)
LEMMA ChainFacts ==
    ASSUME DictTypeOK, NEW k \in Key
    PROVE  /\ hashpjw[k] \in Bucket /\ hashpjw[k] \in Nat
           /\ Chain(k) \in Seq(Link) /\ Len(Chain(k)) \in Nat
           /\ DOMAIN Chain(k) = 1 .. Len(Chain(k))
           /\ Links(k) \subseteq 1 .. Len(Chain(k))
           /\ \A i \in 1 .. Len(Chain(k)) : Chain(k)[i] \in Link
<1>1. hashpjw[k] \in Bucket /\ hashpjw[k] \in Nat
  BY BucketAssumption DEF Bucket
<1>2. Chain(k) \in Seq(Link)
  BY <1>1 DEF DictTypeOK, Chain
<1> QED
  BY <1>1, <1>2, LenProperties, ElementOfSeq DEF Links

(* The one link of a key.                                                  *)
LEMMA LinkFacts ==
    ASSUME DictTypeOK, OneLinkPerKey, NEW k \in Key, NEW i \in Links(k)
    PROVE  /\ Links(k) = {i} /\ Locate(k) = i /\ Found(k) /\ k \in Stored
           /\ Fetch(k) = Chain(k)[i].value
<1>1. \A j \in Links(k) : j = i
  BY ChainFacts DEF OneLinkPerKey, Links, Chain
<1>2. Links(k) = {i}
  BY <1>1
<1>3. i \in Nat
  BY ChainFacts
<1>4. Locate(k) = i
  BY <1>2, <1>3 DEF Locate
<1> QED
  BY <1>2, <1>4 DEF Found, Fetch, Stored

(* Every link is that of its key.                                          *)
LEMMA KeyOfLink ==
    ASSUME DictTypeOK, OneLinkPerKey, NEW b \in Bucket, NEW i \in 1 .. Len(bucket[b])
    PROVE  /\ bucket[b][i].key \in Key /\ hashpjw[bucket[b][i].key] = b
           /\ i \in Links(bucket[b][i].key)
<1>1. bucket[b] \in Seq(Link)
  BY DEF DictTypeOK
<1>2. bucket[b][i] \in Link /\ i \in DOMAIN bucket[b]
  BY <1>1, ElementOfSeq, LenProperties
<1>3. bucket[b][i].key \in Key /\ hashpjw[bucket[b][i].key] = b
  BY <1>2 DEF Link, OneLinkPerKey
<1> QED
  BY <1>2, <1>3 DEF Links, Chain

(* What dict_advance comes to: to one of the keys from there on, and the   *)
(* others remain; or to the end, when there are none.                      *)
LEMMA AdvanceGoesOn ==
    ASSUME DictTypeOK, OneLinkPerKey, UNCHANGED bucket,
           NEW b \in Bucket, NEW c \in 0 .. Len(bucket[b]), Advance(b, c)
    PROVE  /\ cur_bucket' \in Bucket /\ cursor' \in 0 .. Len(bucket[cur_bucket'])
           /\ KeysFrom(b, c) = {} => Eof' /\ cur_bucket' = Last /\ Rest' = {}
           /\ KeysFrom(b, c) # {} => /\ ~Eof' /\ GetKey' \in KeysFrom(b, c)
                                     /\ Rest' = KeysFrom(b, c) \ {GetKey'}
<1>1. b \in Nat /\ Last \in Nat /\ Last \in Bucket /\ b <= Last /\ c \in Nat
      /\ \A j \in Bucket : bucket[j] \in Seq(Link) /\ Len(bucket[j]) \in Nat
  BY BucketAssumption, LenProperties DEF Bucket, Last, DictTypeOK
<1>2. \A k : Links(k)' = Links(k)
  BY DEF Links, Chain
<1>3. Rest' = {k \in Key : \E i \in Links(k) : \/ hashpjw[k] = cur_bucket' /\ i < cursor'
                                              \/ hashpjw[k] > cur_bucket'}
  BY <1>2 DEF Rest
<1>4. \A k \in Key : /\ hashpjw[k] \in Bucket /\ hashpjw[k] \in Nat /\ hashpjw[k] <= Last
                     /\ Links(k) \subseteq Nat
                     /\ \A i \in Links(k) : i >= 1 /\ i <= Len(bucket[hashpjw[k]])
                                            /\ bucket[hashpjw[k]][i].key = k
                                            /\ bucket[hashpjw[k]] # <<>>
  <2> TAKE k \in Key
  <2>1. /\ hashpjw[k] \in Bucket /\ hashpjw[k] \in Nat
        /\ Links(k) \subseteq 1 .. Len(bucket[hashpjw[k]])
        /\ Len(bucket[hashpjw[k]]) \in Nat
    BY ChainFacts DEF Chain
  <2>2. hashpjw[k] <= Last
    BY <2>1, BucketAssumption DEF Bucket, Last
  <2>3. \A i \in Links(k) : bucket[hashpjw[k]][i].key = k
    BY DEF Links, Chain
  <2>4. \A i \in Links(k) : bucket[hashpjw[k]] # <<>>
    <3> TAKE i \in Links(k)
    <3> SUFFICES ASSUME bucket[hashpjw[k]] = <<>> PROVE FALSE
      OBVIOUS
    <3>1. Len(bucket[hashpjw[k]]) = 0
      BY EmptySeq
    <3> QED
      BY <2>1, <3>1
  <2> QED
    BY <2>1, <2>2, <2>3, <2>4
<1> DEFINE Found1(j, d) ==
             /\ j \in Bucket /\ d \in 1 .. Len(bucket[j])
             /\ cur_bucket' = j /\ cursor' = d
             /\ KeysFrom(b, c) = KeysFrom(j, d)
<1>5. ASSUME NEW j, NEW d, Found1(j, d)
      PROVE  /\ ~Eof' /\ GetKey' \in KeysFrom(b, c) /\ Rest' = KeysFrom(b, c) \ {GetKey'}
             /\ cur_bucket' \in Bucket /\ cursor' \in 0 .. Len(bucket[cur_bucket'])
  <2>1. j \in Nat /\ d \in Nat /\ d >= 1 /\ Len(bucket[j]) \in Nat
    BY <1>1, <1>5 DEF Bucket
  <2>2. ~Eof' /\ GetKey' = bucket[j][d].key
    BY <1>5, <2>1 DEF Eof, GetKey
  <2> DEFINE q == bucket[j][d].key
  <2>3. q \in Key /\ hashpjw[q] = j /\ d \in Links(q)
    BY <1>5, KeyOfLink
  <2>4. Links(q) = {d}
    BY <2>3, LinkFacts
  <2>5. q \in KeysFrom(j, d)
    BY <2>1, <2>3 DEF KeysFrom
  <2>6. ASSUME NEW k \in Key
        PROVE  k \in Rest' <=> k \in KeysFrom(j, d) /\ k # q
    <3>1. k = q => k \notin Rest'
      BY <1>3, <1>5, <2>1, <2>3, <2>4
    <3>2. k \in Rest' => k \in KeysFrom(j, d)
      BY <1>3, <1>4, <1>5, <2>1 DEF KeysFrom
    <3>3. ASSUME k \in KeysFrom(j, d), k # q
          PROVE  k \in Rest'
      <4>1. PICK i \in Links(k) : (hashpjw[k] = j /\ i <= d) \/ hashpjw[k] > j
        BY <3>3 DEF KeysFrom
      <4>2. hashpjw[k] = j => i # d
        BY <1>4, <3>3
      <4> QED
        BY <1>3, <1>4, <1>5, <2>1, <4>1, <4>2
    <3> QED
      BY <3>1, <3>2, <3>3
  <2>7. Rest' \subseteq Key /\ KeysFrom(j, d) \subseteq Key
    BY <1>3 DEF KeysFrom
  <2> QED
    BY <1>5, <2>1, <2>2, <2>5, <2>6, <2>7
<1>6. CASE c # 0
  <2>1. Found1(b, c)
    BY <1>1, <1>6 DEF Advance
  <2> QED
    BY <1>5, <2>1
<1>7. CASE c = 0 /\ Later(b) = {}
  <2>1. cur_bucket' = Last /\ cursor' = 0
    BY <1>7 DEF Advance
  <2>2. KeysFrom(b, c) = {}
    <3> SUFFICES ASSUME NEW k \in KeysFrom(b, c) PROVE FALSE
      OBVIOUS
    <3>1. PICK i \in Links(k) : (hashpjw[k] = b /\ i <= c) \/ hashpjw[k] > b
      BY DEF KeysFrom
    <3>2. k \in Key
      BY DEF KeysFrom
    <3>3. hashpjw[k] > b
      BY <1>4, <1>7, <3>1, <3>2
    <3>4. hashpjw[k] \in Later(b)
      BY <1>1, <1>4, <3>2, <3>3 DEF Later
    <3> QED
      BY <1>7, <3>4
  <2>3. Rest' = {}
    BY <1>1, <1>3, <1>4, <2>1
  <2> QED
    BY <1>1, <2>1, <2>2, <2>3 DEF Eof
<1>8. CASE c = 0 /\ Later(b) # {}
  <2>1. PICK j \in Later(b) : /\ \A i \in Later(b) : j <= i
                             /\ cur_bucket' = j /\ cursor' = Len(bucket[j])
    BY <1>8 DEF Advance
  <2>2. j \in Nat /\ j > b /\ j <= Last /\ j \in Bucket /\ bucket[j] # <<>>
    BY <1>1, <2>1 DEF Later, Bucket, Last
  <2>3. Len(bucket[j]) \in Nat \ {0}
    BY <1>1, <2>2, EmptySeq
  <2>4. KeysFrom(b, c) = KeysFrom(j, Len(bucket[j]))
    <3>1. ASSUME NEW k \in Key, NEW i \in Links(k)
          PROVE  (hashpjw[k] = b /\ i <= c) \/ hashpjw[k] > b
                    <=> (hashpjw[k] = j /\ i <= Len(bucket[j])) \/ hashpjw[k] > j
      <4>1. hashpjw[k] > b => hashpjw[k] \in Later(b)
        BY <1>1, <1>4 DEF Later
      <4>2. hashpjw[k] > b => j <= hashpjw[k]
        BY <2>1, <4>1
      <4> QED
        BY <1>1, <1>4, <1>8, <2>2, <4>2
    <3> QED
      BY <3>1 DEF KeysFrom
  <2>5. Found1(j, Len(bucket[j]))
    BY <2>1, <2>2, <2>3, <2>4
  <2> QED
    BY <1>5, <2>5
<1> QED
  BY <1>6, <1>7, <1>8

(***************************************************************************)
(* The steps preserve the invariant                                        *)
(***************************************************************************)

LEMMA NewDict ==
    ASSUME DictInit
    PROVE  DictInv /\ Stored = {} /\ Rest = {}
<1>1. \A b \in Bucket : bucket[b] = <<>>
  BY DEF DictInit
<1>2. \A k \in Key : Links(k) = {}
  BY <1>1, BucketAssumption DEF Links, Chain, Bucket
<1>3. Stored = {} /\ Rest = {}
  BY <1>2 DEF Stored, Rest, Found
<1>4. DictTypeOK
  BY <1>1, BucketAssumption, EmptySeq DEF DictInit, DictTypeOK, Bucket
<1>5. OneLinkPerKey
  BY <1>1 DEF OneLinkPerKey
<1>6. LoopInv
  BY DEF LoopInv, DictInit
<1> QED
  BY <1>3, <1>4, <1>5, <1>6 DEF DictInv

(* A store to a key that is there: no link moves.                          *)
LEMMA StoreOver ==
    ASSUME DictTypeOK, OneLinkPerKey, NEW k \in Key, NEW v \in Value,
           Found(k), Store(k, v)
    PROVE  /\ DictTypeOK' /\ OneLinkPerKey'
           /\ Rest' = Rest /\ Stored' = Stored /\ GetKey' = GetKey
           /\ Fetch(k)' = v
           /\ \A j \in Stored \ {k} : Fetch(j)' = Fetch(j)
<1> DEFINE h == hashpjw[k]
           n == Locate(k)
<1>1. Links(k) = {n} /\ n \in 1 .. Len(bucket[h]) /\ h \in Bucket
      /\ bucket[h] \in Seq(Link) /\ bucket[h][n].key = k
  <2>1. PICK i : i \in Links(k)
    BY DEF Found
  <2>2. Locate(k) = i /\ Links(k) = {i}
    BY <2>1, LinkFacts
  <2> QED
    BY <2>1, <2>2, ChainFacts DEF Chain, Links
<1>2. /\ bucket' = [bucket EXCEPT ![h] = [bucket[h] EXCEPT ![n] = Link0(k, v)]]
      /\ UNCHANGED <<cursor, cur_bucket, old, seen>>
  BY DEF Store, loop
<1>3. Link0(k, v) \in Link /\ Link0(k, v).key = k /\ Link0(k, v).value = v
  BY DEF Link, Link0
<1>4. bucket \in [Bucket -> Seq(Link)]
  BY DEF DictTypeOK
<1>5. /\ bucket'[h] = [bucket[h] EXCEPT ![n] = Link0(k, v)]
      /\ \A b \in Bucket \ {h} : bucket'[b] = bucket[b]
  BY <1>1, <1>2, <1>4
<1>6. bucket'[h] \in Seq(Link) /\ Len(bucket'[h]) = Len(bucket[h])
      /\ DOMAIN bucket'[h] = DOMAIN bucket[h] /\ DOMAIN bucket[h] = 1 .. Len(bucket[h])
  BY <1>1, <1>3, <1>5, ExceptSeq, LenProperties
<1>7. \A b \in Bucket : /\ DOMAIN bucket'[b] = DOMAIN bucket[b]
                        /\ Len(bucket'[b]) = Len(bucket[b])
                        /\ \A i \in DOMAIN bucket[b] : bucket'[b][i].key = bucket[b][i].key
  BY <1>1, <1>3, <1>5, <1>6
<1>8. DictTypeOK'
  <2>1. bucket' \in [Bucket -> Seq(Link)]
    BY <1>2, <1>4, <1>5, <1>6
  <2> QED
    BY <1>2, <1>7, <2>1 DEF DictTypeOK
<1>9. OneLinkPerKey'
  BY <1>7 DEF OneLinkPerKey
<1>10. \A j \in Key : Links(j)' = Links(j)
  <2> TAKE j \in Key
  <2>1. hashpjw[j] \in Bucket
    BY ChainFacts
  <2> QED
    BY <1>7, <2>1 DEF Links, Chain
<1>11. Rest' = Rest /\ Stored' = Stored
  BY <1>2, <1>10 DEF Rest, Stored, Found
<1>12. GetKey' = GetKey
  <2>1. cur_bucket \in Bucket /\ cursor \in 0 .. Len(bucket[cur_bucket])
        /\ DOMAIN bucket[cur_bucket] = 1 .. Len(bucket[cur_bucket])
        /\ Len(bucket[cur_bucket]) \in Nat
    BY LenProperties DEF DictTypeOK
  <2>2. cursor # 0 => cursor \in DOMAIN bucket[cur_bucket]
    BY <2>1
  <2> QED
    BY <1>2, <1>7, <2>1, <2>2 DEF GetKey, Eof
<1>13. ASSUME NEW j \in Stored
       PROVE  Fetch(j)' = IF j = k THEN v ELSE Fetch(j)
  <2>1. PICK i : i \in Links(j) /\ j \in Key
    BY DEF Stored, Found
  <2>2. Fetch(j) = Chain(j)[i].value
    BY <2>1, LinkFacts
  <2>3. Links(j)' = {i}
    BY <1>10, <2>1, LinkFacts
  <2>4. i \in Nat
    BY <2>1, ChainFacts
  <2>5. Locate(j)' = i /\ Found(j)'
    BY <2>3, <2>4 DEF Locate, Found
  <2>6. Fetch(j)' = bucket'[hashpjw[j]][i].value
    BY <2>5 DEF Fetch, Chain
  <2>7. hashpjw[j] \in Bucket /\ i \in DOMAIN bucket[hashpjw[j]]
        /\ bucket[hashpjw[j]][i].key = j
    BY <2>1, ChainFacts DEF Links, Chain
  <2>8. CASE j = k
    BY <1>1, <1>3, <1>5, <1>6, <2>1, <2>6, <2>8
  <2>9. CASE j # k
    <3>1. hashpjw[j] = h => i # n
      BY <1>1, <2>7, <2>9
    <3> QED
      BY <1>5, <2>2, <2>6, <2>7, <2>9, <3>1 DEF Chain
  <2> QED
    BY <2>8, <2>9
<1>14. k \in Stored
  BY DEF Stored
<1> QED
  BY <1>8, <1>9, <1>11, <1>12, <1>13, <1>14

(* A store to a new key: its link is in front of its chain.                *)
LEMMA StoreNew ==
    ASSUME DictTypeOK, OneLinkPerKey, NEW k \in Key, NEW v \in Value,
           ~Found(k), Store(k, v)
    PROVE  /\ DictTypeOK' /\ OneLinkPerKey'
           /\ k \notin Stored /\ k \notin Rest
           /\ Rest' \in {Rest, Rest \cup {k}} /\ Stored' = Stored \cup {k}
           /\ Eof /\ cur_bucket = Last => Rest' = Rest
           /\ GetKey' = GetKey /\ Fetch(k)' = v
           /\ \A j \in Stored : Fetch(j)' = Fetch(j)
<1> DEFINE h == hashpjw[k]
           n == Len(bucket[h]) + 1
<1>1. Links(k) = {} /\ h \in Bucket /\ h \in Nat
      /\ bucket[h] \in Seq(Link) /\ Len(bucket[h]) \in Nat
      /\ DOMAIN bucket[h] = 1 .. Len(bucket[h])
  BY ChainFacts DEF Chain, Found
<1>2. /\ bucket' = [bucket EXCEPT ![h] = Append(bucket[h], Link0(k, v))]
      /\ UNCHANGED <<cursor, cur_bucket, old, seen>>
  BY DEF Store, loop
<1>3. Link0(k, v) \in Link /\ Link0(k, v).key = k /\ Link0(k, v).value = v
  BY DEF Link, Link0
<1>4. bucket \in [Bucket -> Seq(Link)]
  BY DEF DictTypeOK
<1>5. /\ bucket'[h] = Append(bucket[h], Link0(k, v))
      /\ \A b \in Bucket \ {h} : bucket'[b] = bucket[b]
  BY <1>1, <1>2, <1>4
<1>6. /\ bucket'[h] \in Seq(Link) /\ Len(bucket'[h]) = n /\ DOMAIN bucket'[h] = 1 .. n
      /\ bucket'[h][n] = Link0(k, v)
      /\ \A i \in 1 .. Len(bucket[h]) : bucket'[h][i] = bucket[h][i]
  BY <1>1, <1>3, <1>5, AppendProperties, LenProperties
<1>7. ASSUME NEW b \in Bucket
      PROVE  /\ DOMAIN bucket[b] = 1 .. Len(bucket[b]) /\ Len(bucket[b]) \in Nat
             /\ bucket[b] \in Seq(Link)
             /\ \A i \in DOMAIN bucket[b] : /\ bucket'[b][i] = bucket[b][i]
                                            /\ i \in DOMAIN bucket'[b]
             /\ \A i \in DOMAIN bucket'[b] : i \in DOMAIN bucket[b] \/ (b = h /\ i = n)
             /\ Len(bucket'[b]) \in Nat /\ Len(bucket[b]) <= Len(bucket'[b])
  <2>1. bucket[b] \in Seq(Link)
    BY <1>4
  <2>2. DOMAIN bucket[b] = 1 .. Len(bucket[b]) /\ Len(bucket[b]) \in Nat
    BY <2>1, LenProperties
  <2>3. CASE b = h
    BY SMTT(30), <1>1, <1>6, <2>1, <2>2, <2>3
  <2>4. CASE b # h
    BY <1>5, <2>1, <2>2, <2>4
  <2> QED
    BY <2>3, <2>4
<1>8. DictTypeOK'
  <2>1. bucket' \in [Bucket -> Seq(Link)]
    BY <1>2, <1>4, <1>5, <1>6
  <2>2. cur_bucket \in Bucket /\ cursor \in 0 .. Len(bucket[cur_bucket])
    BY DEF DictTypeOK
  <2>3. cursor \in 0 .. Len(bucket'[cur_bucket])
    BY <1>7, <2>2
  <2> QED
    BY <1>2, <2>1, <2>2, <2>3 DEF DictTypeOK
<1>9. \A i \in DOMAIN bucket[h] : bucket[h][i].key # k
  BY <1>1 DEF Links, Chain
<1>10. OneLinkPerKey'
  <2> SUFFICES ASSUME NEW b \in Bucket, NEW i \in DOMAIN bucket'[b], NEW j \in DOMAIN bucket'[b]
               PROVE  /\ hashpjw[bucket'[b][i].key] = b
                      /\ bucket'[b][i].key = bucket'[b][j].key => i = j
    BY DEF OneLinkPerKey
  <2>1. \A m \in DOMAIN bucket[b] : hashpjw[bucket[b][m].key] = b
    BY DEF OneLinkPerKey
  <2>2. \A l, m \in DOMAIN bucket[b] : bucket[b][l].key = bucket[b][m].key => l = m
    BY DEF OneLinkPerKey
  <2>3. hashpjw[bucket'[b][i].key] = b
    BY <1>3, <1>6, <1>7, <2>1
  <2>4. ASSUME bucket'[b][i].key = bucket'[b][j].key PROVE i = j
    <3>1. /\ i \in DOMAIN bucket[b] \/ (b = h /\ i = n)
          /\ j \in DOMAIN bucket[b] \/ (b = h /\ j = n)
          /\ \A m \in DOMAIN bucket[b] : bucket'[b][m] = bucket[b][m]
      BY <1>7
    <3>2. CASE i \in DOMAIN bucket[b] /\ j \in DOMAIN bucket[b]
      BY <2>2, <2>4, <3>1, <3>2
    <3>3. ASSUME NEW m \in DOMAIN bucket[b], b = h
          PROVE  bucket'[b][m].key # bucket'[h][n].key
      <4>1. bucket'[b][m].key = bucket[h][m].key
        BY <3>1, <3>3
      <4>2. bucket'[h][n].key = k
        BY <1>3, <1>6
      <4> QED
        BY <1>9, <3>3, <4>1, <4>2
    <3> QED
      BY <2>4, <3>1, <3>2, <3>3
  <2> QED
    BY <2>3, <2>4
<1>11. Links(k)' = {n}
  <2>1. Links(k)' = {i \in DOMAIN bucket'[h] : bucket'[h][i].key = k}
    BY DEF Links, Chain
  <2>2. n \in DOMAIN bucket'[h] /\ bucket'[h][n].key = k
    BY <1>1, <1>3, <1>6
  <2>3. \A i \in DOMAIN bucket'[h] : bucket'[h][i].key = k => i = n
    BY <1>1, <1>6, <1>7, <1>9
  <2> QED
    BY <2>1, <2>2, <2>3
<1>12. ASSUME NEW j \in Key, j # k
       PROVE  Links(j)' = Links(j) /\ \A i \in Links(j) : Chain(j)'[i] = Chain(j)[i]
  <2>1. hashpjw[j] \in Bucket
    BY ChainFacts
  <2>2. \A i \in DOMAIN bucket'[hashpjw[j]] :
            bucket'[hashpjw[j]][i].key = j => i \in DOMAIN bucket[hashpjw[j]]
    BY <1>3, <1>6, <1>7, <1>12, <2>1
  <2> QED
    BY <1>7, <2>1, <2>2 DEF Links, Chain
<1>13. k \notin Stored /\ k \notin Rest /\ Stored' = Stored \cup {k}
  BY <1>1, <1>11, <1>12 DEF Stored, Found, Rest
<1>14. Rest' \in {Rest, Rest \cup {k}}
  <2>1. \A j \in Key : j # k => (j \in Rest' <=> j \in Rest)
    BY <1>2, <1>12 DEF Rest
  <2>2. Rest' \subseteq Key /\ Rest \subseteq Key
    BY DEF Rest
  <2> QED
    BY <1>13, <2>1, <2>2
<1>15. ASSUME Eof, cur_bucket = Last
       PROVE  Rest' = Rest
  <2>1. h <= Last /\ n > 0 /\ Last \in Nat
    BY <1>1, BucketAssumption DEF Last, Bucket
  <2>2. k \notin Rest'
    BY <1>1, <1>2, <1>11, <1>15, <2>1 DEF Rest, Eof
  <2> QED
    BY <1>13, <1>14, <2>2
<1>16. GetKey' = GetKey
  <2>1. cur_bucket \in Bucket /\ cursor \in 0 .. Len(bucket[cur_bucket])
    BY DEF DictTypeOK
  <2>2. cursor # 0 => cursor \in DOMAIN bucket[cur_bucket]
    BY <1>7, <2>1
  <2> QED
    BY <1>2, <1>7, <2>1, <2>2 DEF GetKey, Eof
<1>17. Fetch(k)' = v
  <2>1. Locate(k)' = n /\ Found(k)'
    BY <1>1, <1>11 DEF Locate, Found
  <2> QED
    BY <1>3, <1>6, <2>1 DEF Fetch, Chain
<1>18. ASSUME NEW j \in Stored
       PROVE  Fetch(j)' = Fetch(j)
  <2>1. PICK i : i \in Links(j) /\ j \in Key /\ j # k
    BY <1>13 DEF Stored, Found
  <2>2. Links(j)' = {i}
    BY <1>12, <2>1, LinkFacts
  <2>3. i \in Nat
    BY <2>1, ChainFacts
  <2>4. Locate(j)' = i /\ Found(j)'
    BY <2>2, <2>3 DEF Locate, Found
  <2>5. Fetch(j)' = Chain(j)'[i].value
    BY <2>4 DEF Fetch
  <2>6. Fetch(j) = Chain(j)[i].value
    BY <2>1, LinkFacts
  <2> QED
    BY <1>12, <2>1, <2>5, <2>6
<1> QED
  BY <1>8, <1>10, <1>13, <1>14, <1>15, <1>16, <1>17, <1>18


LEMMA RewindFromTheFirst ==
    ASSUME DictTypeOK
    PROVE  0 \in Bucket /\ KeysFrom(0, Len(bucket[0])) = Stored
<1>1. 0 \in Bucket
  BY BucketAssumption DEF Bucket
<1>2. ASSUME NEW k \in Key, NEW i \in Links(k)
      PROVE  (hashpjw[k] = 0 /\ i <= Len(bucket[0])) \/ hashpjw[k] > 0
  BY <1>1, <1>2, ChainFacts DEF Bucket, Chain
<1> QED
  BY <1>1, <1>2 DEF KeysFrom, Stored, Found

LEMMA StepFromTheNext ==
    ASSUME DictTypeOK
    PROVE  LET c == IF Eof THEN 0 ELSE cursor - 1
           IN  c \in 0 .. Len(bucket[cur_bucket]) /\ KeysFrom(cur_bucket, c) = Rest
<1> DEFINE c == IF Eof THEN 0 ELSE cursor - 1
<1>1. cursor \in Nat /\ cursor <= Len(bucket[cur_bucket]) /\ Len(bucket[cur_bucket]) \in Nat
  BY LenProperties DEF DictTypeOK
<1>2. c \in 0 .. Len(bucket[cur_bucket])
  BY <1>1 DEF Eof
<1>3. ASSUME NEW k \in Key, NEW i \in Links(k)
      PROVE  i <= c <=> i < cursor
  <2>1. i \in Nat /\ i >= 1
    BY ChainFacts
  <2> QED
    BY <1>1, <2>1 DEF Eof
<1>4. KeysFrom(cur_bucket, c) = Rest
  BY <1>3 DEF KeysFrom, Rest
<1> QED
  BY <1>2, <1>4

LEMMA NoMoreThanStored == Rest \subseteq Stored
  BY DEF Rest, Stored, Found

LEMMA KeyAtCursor ==
    ASSUME DictTypeOK, OneLinkPerKey, ~Eof
    PROVE  GetKey \in Stored
<1>1. cur_bucket \in Bucket /\ cursor \in 1 .. Len(bucket[cur_bucket])
  BY DEF DictTypeOK, Eof
<1>2. GetKey = bucket[cur_bucket][cursor].key
  BY DEF GetKey
<1> QED
  BY <1>1, <1>2, KeyOfLink DEF Stored, Found

(* What a step of the loop does, from any link on.                         *)
LEMMA LoopStep ==
    ASSUME DictTypeOK, OneLinkPerKey, UNCHANGED bucket,
           NEW b \in Bucket, NEW c \in 0 .. Len(bucket[b]), Advance(b, c),
           KeysFrom(b, c) \subseteq Stored
    PROVE  /\ Stored' = Stored /\ OneLinkPerKey'
           /\ KeysFrom(b, c) = Visit \cup Rest' /\ Visit \cap Rest' = {}
           /\ Visit \subseteq Stored /\ Visit \subseteq Key
           /\ ~(Eof' /\ cur_bucket' # Last)
           /\ KeysFrom(b, c) = {} => GetKey' = None
<1>1. Stored' = Stored /\ OneLinkPerKey'
  BY DEF Stored, Found, Links, Chain, OneLinkPerKey
<1>2. CASE KeysFrom(b, c) = {}
  BY <1>1, <1>2, AdvanceGoesOn DEF Visit, GetKey
<1>3. CASE KeysFrom(b, c) # {}
  <2>1. ~Eof' /\ GetKey' \in KeysFrom(b, c) /\ Rest' = KeysFrom(b, c) \ {GetKey'}
    BY <1>3, AdvanceGoesOn
  <2> QED
    BY <1>1, <1>3, <2>1 DEF Visit, Stored
<1> QED
  BY <1>2, <1>3

LEMMA StepsKeepDictInv ==
    ASSUME DictInv, [DictNext]_<<dict, loop>>
    PROVE  DictInv'
<1> USE DEF DictInv
<1>1. ASSUME NEW k \in Key, NEW v \in Value, Store(k, v)
      PROVE  DictInv'
  <2>1. UNCHANGED <<cursor, cur_bucket, old, seen>>
    BY <1>1 DEF Store, loop
  <2>2. CASE Found(k)
    <3>1. DictTypeOK' /\ OneLinkPerKey' /\ Rest' = Rest /\ Stored' = Stored
      BY <1>1, <2>2, StoreOver
    <3> QED
      BY <2>1, <3>1 DEF LoopInv, Eof, Last
  <2>3. CASE ~Found(k)
    <3>1. /\ DictTypeOK' /\ OneLinkPerKey' /\ k \notin Stored
          /\ Rest' \in {Rest, Rest \cup {k}} /\ Stored' = Stored \cup {k}
      BY <1>1, <2>3, StoreNew
    <3> QED
      BY <2>1, <3>1 DEF LoopInv, Eof, Last
  <2> QED
    BY <2>2, <2>3
<1>2. CASE Rewind
  <2>1. bucket' = bucket /\ Advance(0, Len(bucket[0])) /\ old' = Stored /\ seen' = Visit
    BY <1>2 DEF Rewind
  <2>2. 0 \in Bucket /\ KeysFrom(0, Len(bucket[0])) = Stored
    BY RewindFromTheFirst
  <2>3. Len(bucket[0]) \in 0 .. Len(bucket[0])
    BY <2>2, LenProperties DEF DictTypeOK
  <2>4. /\ Stored' = Stored /\ OneLinkPerKey'
        /\ Stored = Visit \cup Rest' /\ Visit \cap Rest' = {}
        /\ Visit \subseteq Stored /\ Visit \subseteq Key
        /\ ~(Eof' /\ cur_bucket' # Last)
    BY <2>1, <2>2, <2>3, LoopStep
  <2>5. cur_bucket' \in Bucket /\ cursor' \in 0 .. Len(bucket[cur_bucket'])
    BY <2>1, <2>2, <2>3, AdvanceGoesOn
  <2>6. DictTypeOK'
    BY <2>1, <2>4, <2>5 DEF DictTypeOK, Stored
  <2>7. LoopInv'
    BY <2>1, <2>4 DEF LoopInv, Last
  <2> QED
    BY <2>4, <2>6, <2>7
<1>3. CASE Step
  <2> DEFINE c == IF Eof THEN 0 ELSE cursor - 1
  <2>1. bucket' = bucket /\ Advance(cur_bucket, c) /\ old' = old /\ seen' = seen \cup Visit
    BY <1>3 DEF Step
  <2>2. cur_bucket \in Bucket /\ c \in 0 .. Len(bucket[cur_bucket]) /\ KeysFrom(cur_bucket, c) = Rest
    BY StepFromTheNext DEF DictTypeOK
  <2> HIDE DEF c
  <2>3. Rest \subseteq Stored
    BY NoMoreThanStored
  <2>4. /\ Stored' = Stored /\ OneLinkPerKey'
        /\ Rest = Visit \cup Rest' /\ Visit \cap Rest' = {}
        /\ Visit \subseteq Stored /\ Visit \subseteq Key
        /\ ~(Eof' /\ cur_bucket' # Last)
    BY <2>1, <2>2, <2>3, LoopStep
  <2>5. cur_bucket' \in Bucket /\ cursor' \in 0 .. Len(bucket[cur_bucket'])
    BY <2>1, <2>2, AdvanceGoesOn
  <2>6. DictTypeOK'
    BY <2>1, <2>4, <2>5 DEF DictTypeOK
  <2>7. LoopInv'
    BY <2>1, <2>4 DEF LoopInv, Last
  <2> QED
    BY <2>4, <2>6, <2>7
<1>4. CASE Dup
  <2>1. bucket' = bucket /\ cursor' = 0 /\ cur_bucket' = 0 /\ old' = {} /\ seen' = {}
    BY <1>4 DEF Dup
  <2>2. 0 \in Bucket /\ Len(bucket[0]) \in Nat
    BY RewindFromTheFirst, LenProperties DEF DictTypeOK
  <2> QED
    BY <2>1, <2>2 DEF DictTypeOK, OneLinkPerKey, LoopInv
<1>5. CASE UNCHANGED <<dict, loop>>
  <2>1. UNCHANGED <<bucket, cursor, cur_bucket, old, seen>>
    BY <1>5 DEF dict, loop
  <2>2. Stored' = Stored /\ Rest' = Rest
    BY <2>1 DEF Rest, Stored, Found, Links, Chain
  <2>3. DictTypeOK' /\ OneLinkPerKey'
    BY <2>1 DEF DictTypeOK, OneLinkPerKey
  <2>4. LoopInv'
    BY <2>1, <2>2 DEF LoopInv, Eof, Last
  <2> QED
    BY <2>3, <2>4
<1> QED
  BY <1>1, <1>2, <1>3, <1>4, <1>5 DEF DictNext

LEMMA DictInvHolds == DictSpec => []DictInv
<1>1. DictInit => DictInv
  BY NewDict
<1> QED
  BY <1>1, StepsKeepDictInv, PTL DEF DictSpec

(***************************************************************************)
(* Theorems                                                                *)
(***************************************************************************)

(* The cursor of a loop is at the end or at a link that is still there, in *)
(* a bucket of the table, also after stores into the chain it is in.       *)
THEOREM CursorStaysInItsChain == DictSpec => []DictTypeOK
<1>1. DictInv => DictTypeOK
  BY DEF DictInv
<1> QED
  BY <1>1, DictInvHolds, PTL

(* A key has one link at most, in its bucket.                              *)
THEOREM KeysAreUnique == DictSpec => []OneLinkPerKey
<1>1. DictInv => OneLinkPerKey
  BY DEF DictInv
<1> QED
  BY <1>1, DictInvHolds, PTL

(* A loop over the keys that is over has come to all the keys that were    *)
(* there when it began, whatever was stored in the meantime.               *)
THEOREM LoopIsComplete == DictSpec => []LoopSeesAll
<1>1. DictInv => LoopSeesAll
  <2> SUFFICES ASSUME DictInv, Eof PROVE old \subseteq seen
    BY DEF LoopSeesAll
  <2>1. CASE cur_bucket # Last
    BY <2>1 DEF DictInv, LoopInv
  <2>2. CASE cur_bucket = Last
    <3>1. Rest = {}
      <4> SUFFICES ASSUME NEW k \in Key, NEW i \in Links(k),
                          \/ hashpjw[k] = cur_bucket /\ i < cursor
                          \/ hashpjw[k] > cur_bucket
                   PROVE  FALSE
        BY DEF Rest
      <4>1. i \in Nat /\ hashpjw[k] \in Nat /\ hashpjw[k] <= Last /\ Last \in Nat
        BY ChainFacts, BucketAssumption DEF DictInv, Bucket, Last
      <4> QED
        BY <2>2, <4>1 DEF Eof
    <3> QED
      BY <3>1 DEF DictInv, LoopInv
  <2> QED
    BY <2>1, <2>2
<1> QED
  BY <1>1, DictInvHolds, PTL

(* It does not come to a key a second time.                                *)
THEOREM LoopDoesNotRepeat == DictSpec => NoKeyTwice
<1>1. ASSUME DictInv, [DictNext]_<<dict, loop>>
      PROVE  [Step => Visit \cap seen = {}]_<<dict, loop>>
  <2> SUFFICES ASSUME Step PROVE Visit \cap seen = {}
    OBVIOUS
  <2> DEFINE c == IF Eof THEN 0 ELSE cursor - 1
  <2>1. bucket' = bucket /\ Advance(cur_bucket, c)
    BY DEF Step
  <2>2. cur_bucket \in Bucket /\ c \in 0 .. Len(bucket[cur_bucket]) /\ KeysFrom(cur_bucket, c) = Rest
    BY <1>1, StepFromTheNext DEF DictTypeOK, DictInv
  <2> HIDE DEF c
  <2>3. Rest = Visit \cup Rest'
    BY <1>1, <2>1, <2>2, NoMoreThanStored, LoopStep DEF DictInv
  <2> QED
    BY <1>1, <2>3 DEF DictInv, LoopInv
<1> QED
  BY <1>1, DictInvHolds, PTL DEF DictSpec, NoKeyTwice

(* dict.c keeps the promise of a dictionary.                               *)
THEOREM DictIsADictionary == DictSpec => ImplementsDictionary
<1> DEFINE Map == [k \in Stored |-> Fetch(k)]
           Begun == ~(Eof /\ cur_bucket # Last)
<1>1. DictInit => Promise!Init
  <2> SUFFICES ASSUME DictInit PROVE Promise!Init
    OBVIOUS
  <2>1. Stored = {} /\ Rest = {}
    BY NewDict
  <2>2. GetKey = None
    BY DEF DictInit, GetKey, Eof
  <2>3. Map = [k \in {} |-> None]
    BY <2>1
  <2>4. Begun \in BOOLEAN
    OBVIOUS
  <2> QED
    BY <2>1, <2>2, <2>3, <2>4 DEF Promise!Init
<1>2. ASSUME DictInv, [DictNext]_<<dict, loop>>
      PROVE  [Promise!Next]_(Promise!vars)
  <2> USE <1>2 DEF DictInv
  <2>1. ASSUME NEW k \in Key, NEW v \in Value, Store(k, v)
        PROVE  Promise!Store(k, v)
    <3>1. Begun' = Begun
      BY <2>1 DEF Store, Eof, Last
    <3>2. CASE Found(k)
      <4>1. /\ Rest' = Rest /\ Stored' = Stored /\ GetKey' = GetKey /\ Fetch(k)' = v
            /\ \A j \in Stored \ {k} : Fetch(j)' = Fetch(j)
        BY <2>1, <3>2, StoreOver
      <4>2. k \in Stored
        BY <3>2 DEF Stored
      <4>3. Map' = [j \in DOMAIN Map \cup {k} |-> IF j = k THEN v ELSE Map[j]]
        BY <4>1, <4>2
      <4>4. IF k \in DOMAIN Map \/ (Begun /\ GetKey = None)
            THEN Rest' = Rest ELSE Rest' \in {Rest, Rest \cup {k}}
        BY <4>1
      <4> QED
        BY <3>1, <4>1, <4>3, <4>4 DEF Promise!Store
    <3>3. CASE ~Found(k)
      <4>1. /\ k \notin Stored
            /\ Rest' \in {Rest, Rest \cup {k}} /\ Stored' = Stored \cup {k}
            /\ Eof /\ cur_bucket = Last => Rest' = Rest
            /\ GetKey' = GetKey /\ Fetch(k)' = v
            /\ \A j \in Stored : Fetch(j)' = Fetch(j)
        BY <2>1, <3>3, StoreNew
      <4>2. Map' = [j \in DOMAIN Map \cup {k} |-> IF j = k THEN v ELSE Map[j]]
        BY <4>1
      <4>3. GetKey = None => Eof
        BY KeyAtCursor, BucketAssumption DEF Stored
      <4>4. Begun /\ GetKey = None => Rest' = Rest
        BY <4>1, <4>3
      <4> QED
        BY <3>1, <4>1, <4>2, <4>4 DEF Promise!Store
    <3> QED
      BY <3>2, <3>3
  <2>2. ASSUME bucket' = bucket, NEW b \in Bucket, NEW c \in 0 .. Len(bucket[b]),
               Advance(b, c), KeysFrom(b, c) \subseteq Stored
        PROVE  Promise!GoOn(KeysFrom(b, c))
    <3>1. Map' = Map
      <4>1. Stored' = Stored
        BY <2>2 DEF Stored, Found, Links, Chain
      <4>2. \A k : Fetch(k)' = Fetch(k)
        BY <2>2 DEF Fetch, Found, Locate, Links, Chain
      <4> QED
        BY <4>1, <4>2
    <3>2. Begun' /\ (KeysFrom(b, c) = {} => Rest' = {} /\ GetKey' = None)
      BY <2>2, LoopStep
    <3>3. KeysFrom(b, c) # {} => GetKey' \in KeysFrom(b, c) /\ Rest' = KeysFrom(b, c) \ {GetKey'}
      BY <2>2, AdvanceGoesOn
    <3>4. Begun' = TRUE
      BY <3>2
    <3> QED
      BY <3>1, <3>2, <3>3, <3>4 DEF Promise!GoOn
  <2>3. CASE Rewind
    <3>1. 0 \in Bucket /\ KeysFrom(0, Len(bucket[0])) = Stored
      BY RewindFromTheFirst
    <3>2. Len(bucket[0]) \in 0 .. Len(bucket[0])
      BY <3>1, LenProperties DEF DictTypeOK
    <3>3. Promise!GoOn(Stored)
      BY <2>2, <2>3, <3>1, <3>2 DEF Rewind
    <3>4. DOMAIN Map = Stored
      OBVIOUS
    <3> QED
      BY <3>3, <3>4 DEF Promise!Next, Promise!Rewind
  <2>4. CASE Step
    <3> DEFINE c == IF Eof THEN 0 ELSE cursor - 1
    <3>1. bucket' = bucket /\ Advance(cur_bucket, c)
      BY <2>4 DEF Step
    <3>2. cur_bucket \in Bucket /\ c \in 0 .. Len(bucket[cur_bucket]) /\ KeysFrom(cur_bucket, c) = Rest
      BY StepFromTheNext DEF DictTypeOK
    <3> HIDE DEF c
    <3>3. Promise!GoOn(Rest)
      BY <2>2, <3>1, <3>2, NoMoreThanStored
    <3> QED
      BY <3>3 DEF Promise!Next, Promise!Step
  <2>5. CASE Dup
    <3>1. bucket' = bucket /\ cursor' = 0 /\ cur_bucket' = 0
      BY <2>5 DEF Dup
    <3>2. Map' = Map
      <4>1. Stored' = Stored
        BY <3>1 DEF Stored, Found, Links, Chain
      <4>2. \A k : Fetch(k)' = Fetch(k)
        BY <3>1 DEF Fetch, Found, Locate, Links, Chain
      <4> QED
        BY <4>1, <4>2
    <3>3. GetKey' = None
      BY <3>1 DEF GetKey, Eof
    <3>4. Rest' \subseteq Stored
      BY <3>1 DEF Rest, Stored, Found, Links, Chain
    <3>5. Begun' => Rest' = {}
      <4> SUFFICES ASSUME Begun', NEW k \in Rest' PROVE FALSE
        OBVIOUS
      <4>1. Last = 0
        BY <3>1 DEF Eof, Last
      <4>2. PICK i \in Links(k) : (hashpjw[k] = 0 /\ i < 0) \/ hashpjw[k] > 0
        BY <3>1 DEF Rest, Links, Chain
      <4>3. k \in Key
        BY DEF Rest
      <4>4. i \in Nat /\ hashpjw[k] \in Nat /\ hashpjw[k] <= Last
        BY <4>3, ChainFacts, BucketAssumption DEF Bucket, Last
      <4> QED
        BY <4>1, <4>2, <4>4
    <3>6. Begun' \in BOOLEAN
      OBVIOUS
    <3>7. DOMAIN Map = Stored
      OBVIOUS
    <3> QED
      BY <3>2, <3>3, <3>4, <3>5, <3>6, <3>7 DEF Promise!Next, Promise!Dup
  <2>6. CASE UNCHANGED <<dict, loop>>
    <3>1. UNCHANGED <<bucket, cursor, cur_bucket>>
      BY <2>6 DEF dict
    <3>2. Stored' = Stored /\ Rest' = Rest /\ GetKey' = GetKey /\ Begun' = Begun
      BY <3>1 DEF Stored, Rest, GetKey, Eof, Last, Found, Links, Chain
    <3>3. \A k : Fetch(k)' = Fetch(k)
      BY <3>1 DEF Fetch, Found, Locate, Links, Chain
    <3>4. Map' = Map
      BY <3>2, <3>3
    <3> QED
      BY <3>2, <3>4 DEF Promise!vars
  <2> QED
    BY <2>1, <2>3, <2>4, <2>5, <2>6 DEF DictNext, Promise!Next
<1> QED
  BY <1>1, <1>2, DictInvHolds, PTL DEF DictSpec, ImplementsDictionary, Promise!Spec

(***************************************************************************)
(* The scanner: the inductive invariant                                    *)
(***************************************************************************)
(* While scan runs nothing is put back, and x is the last character read.  *)
AheadInv ==
    /\ pb # <<>> => text # <<>> /\ pb[1] = text[Len(text)]
    /\ state # "idle" => /\ pb = <<>>
                         /\ ~eof => text # <<>> /\ x = text[Len(text)]

ScanInv == TypeOK /\ AheadInv /\ LineIsTrue

(* There is no newline but those in s, and the last character of s is one  *)
(* or is not.                                                              *)
LEMMA LinesOfPrefix ==
    ASSUME NEW s \in Seq(Char), s # <<>>
    PROVE  /\ Cardinality(Lines(SubSeq(s, 1, Len(s) - 1))) \in Nat
           /\ Cardinality(Lines(s)) =
                 Cardinality(Lines(SubSeq(s, 1, Len(s) - 1))) + One(s[Len(s)] = "nl")
<1> DEFINE p == SubSeq(s, 1, Len(s) - 1)
<1>1. Len(s) \in Nat \ {0} /\ DOMAIN s = 1 .. Len(s)
    OBVIOUS
<1>2. p \in Seq(Char) /\ Len(p) = Len(s) - 1 /\ \A i \in 1 .. Len(s) - 1 : p[i] = s[i]
    BY <1>1
<1>3. DOMAIN p = 1 .. Len(s) - 1
    BY <1>2
<1>4. Lines(p) = {i \in 1 .. Len(s) - 1 : s[i] = "nl"}
    BY <1>2, <1>3 DEF Lines
<1>5. IsFiniteSet(1 .. Len(s) - 1)
    BY <1>1, FS_Interval
<1>6. IsFiniteSet(Lines(p))
    BY <1>4, <1>5, FS_Subset
<1>7. Cardinality(Lines(p)) \in Nat
    BY <1>6, FS_CardinalityType
<1>8. CASE s[Len(s)] = "nl"
    <2>1. Lines(s) = Lines(p) \cup {Len(s)}
        BY <1>1, <1>4, <1>8 DEF Lines
    <2>2. Len(s) \notin Lines(p)
        BY <1>1, <1>4
    <2>3. Cardinality(Lines(s)) = Cardinality(Lines(p)) + 1
        BY <1>6, <2>1, <2>2, FS_AddElement
    <2> QED
        BY <1>7, <1>8, <2>3 DEF One
<1>9. CASE s[Len(s)] # "nl"
    <2>1. Lines(s) = Lines(p)
        BY <1>1, <1>4, <1>9 DEF Lines
    <2> QED
        BY <1>7, <1>9, <2>1 DEF One
<1> QED
    BY <1>7, <1>8, <1>9

LEMMA LinesOfAppend ==
    ASSUME NEW s \in Seq(Char), NEW c \in Char
    PROVE  /\ Cardinality(Lines(s)) \in Nat
           /\ Cardinality(Lines(Append(s, c))) = Cardinality(Lines(s)) + One(c = "nl")
<1> DEFINE a == Append(s, c)
<1>1. a \in Seq(Char) /\ Len(a) = Len(s) + 1 /\ a[Len(a)] = c /\ a # <<>>
    OBVIOUS
<1>2. SubSeq(a, 1, Len(a) - 1) = s
    BY <1>1
<1> QED
    BY <1>1, <1>2, LinesOfPrefix

(* What is consumed, by what is put back. *)
LEMMA ConsumedIs ==
    ASSUME TypeOK
    PROVE  /\ pb = <<>> => Consumed = text
           /\ pb # <<>> => Len(pb) = 1 /\ Consumed = SubSeq(text, 1, Len(text) - 1)
<1>1. text \in Seq(Char) /\ pb \in Seq(Char) /\ Len(pb) <= 1 /\ Len(text) \in Nat
    BY DEF TypeOK
<1>2. CASE pb = <<>>
    <2>1. Len(pb) = 0 /\ Len(text) - Len(pb) = Len(text)
        BY <1>1, <1>2
    <2>2. SubSeq(text, 1, Len(text)) = text
        BY <1>1
    <2> QED
        BY <1>2, <2>1, <2>2 DEF Consumed
<1>3. CASE pb # <<>>
    <2>1. Len(pb) # 0
        BY <1>1, <1>3, EmptySeq
    <2>2. Len(pb) = 1
        <3> DEFINE n == Len(pb)
        <3>1. n \in Nat /\ n <= 1 /\ n # 0
            BY <1>1, <2>1
        <3> HIDE DEF n
        <3>2. n = 1
            BY <3>1
        <3> QED
            BY <3>2 DEF n
    <2> QED
        BY <1>3, <2>2 DEF Consumed
<1> QED
    BY <1>2, <1>3

(* What scan_char leaves. *)
Files == /\ pb' = <<>> /\ eof' \in BOOLEAN
         /\ text' \in Seq(Char) /\ x' \in Char \cup {EOF}
         /\ lino' \in Nat /\ columno' \in Nat /\ lastcol' \in Nat
         /\ ~eof' => text' # <<>> /\ x' = text'[Len(text')]
         /\ Consumed' = text'

(* Counting on to a multiple of 8 comes to the next tab stop.              *)
ColumnPast(col, c) ==
    IF c = "nl" THEN 1 ELSE IF c = "tab" THEN 8 * (col \div 8 + 1) ELSE col + 1

LEMMA TabStop ==
    ASSUME NEW col \in Nat
    PROVE  /\ 8 * (col \div 8 + 1) \in Nat
           /\ (CHOOSE n \in col + 1 .. col + 8 : n % 8 = 0) = 8 * (col \div 8 + 1)
<1> DEFINE q == col \div 8
           stop == 8 * (q + 1)
<1>1. q \in Nat /\ 8 * q <= col /\ col < 8 * q + 8
    OBVIOUS
<1> HIDE DEF q
<1>2. stop \in col + 1 .. col + 8 /\ stop % 8 = 0
    BY <1>1
<1>3. ASSUME NEW n \in col + 1 .. col + 8, n % 8 = 0 PROVE n = stop
    <2>1. PICK r \in Nat : n = 8 * r
        <3>1. n \in Nat /\ n \div 8 \in Nat /\ n = 8 * (n \div 8)
            BY <1>3
        <3> QED
            BY <3>1
    <2>2. 8 * q < 8 * r /\ 8 * r <= 8 * q + 15
        BY <1>1, <1>3, <2>1
    <2> QED
        BY <1>1, <2>1, <2>2
<1>4. (CHOOSE n \in col + 1 .. col + 8 : n % 8 = 0) = stop
    BY <1>2, <1>3
<1> QED
    BY <1>1, <1>4 DEF q

LEMMA NextColumnIs ==
    ASSUME NEW col \in Nat, NEW c
    PROVE  NextColumn(col, c) = ColumnPast(col, c) /\ NextColumn(col, c) \in Nat
<1>1. CASE c = "nl"
    BY <1>1 DEF NextColumn, ColumnPast
<1>2. CASE c = "tab"
    <2>1. NextColumn(col, c) = CHOOSE n \in col + 1 .. col + 8 : n % 8 = 0
        BY <1>2 DEF NextColumn
    <2>2. ColumnPast(col, c) = 8 * (col \div 8 + 1)
        BY <1>2 DEF ColumnPast
    <2> QED
        BY <2>1, <2>2, TabStop
<1>3. CASE c \notin {"nl", "tab"}
    BY <1>3 DEF NextColumn, ColumnPast
<1> QED
    BY <1>1, <1>2, <1>3

LEMMA AfterScanChar == ASSUME ScanInv, ScanChar PROVE Files /\ LineIsTrue'
<1>1. PICK c \in Char \cup {EOF} : /\ Get(c) /\ x' = c
                                   /\ lastcol' = columno
                                   /\ columno' = NextColumn(columno, c)
                                   /\ lino' = lino + One(c = "nl")
    BY DEF ScanChar
<1>2. /\ pb \in Seq(Char) /\ eof \in BOOLEAN /\ text \in Seq(Char)
      /\ lino \in Nat /\ columno \in Nat /\ (eof => pb = <<>>)
    BY DEF ScanInv, TypeOK
<1>3. columno' \in Nat /\ lastcol' \in Nat
    BY <1>1, <1>2, NextColumnIs
<1>4. lino' \in Nat
    BY <1>1, <1>2 DEF One
<1>5. CASE pb # <<>>
    <2>1. /\ c = pb[1] /\ pb' = <<>> /\ eof' = eof /\ text' = text /\ ~eof
          /\ text # <<>> /\ pb[1] = text[Len(text)]
        <3>1. Len(pb) = 1
            BY <1>5, ConsumedIs DEF ScanInv
        <3>2. c = Head(pb) /\ pb' = Tail(pb) /\ eof' = eof /\ text' = text
            BY <1>1, <1>5 DEF Get
        <3>3. Tail(pb) \in Seq(Char) /\ Len(Tail(pb)) = 0
            BY <1>2, <3>1, <1>5
        <3>4. Tail(pb) = <<>>
            BY <3>3, EmptySeq
        <3> QED
            BY <1>2, <1>5, <3>1, <3>2, <3>4 DEF ScanInv, AheadInv
    <2>2. Consumed = SubSeq(text, 1, Len(text) - 1)
        BY <1>5, ConsumedIs DEF ScanInv
    <2>3. Consumed' = text'
        BY <1>2, <2>1 DEF Consumed
    <2>4. lino' = 1 + Cardinality(Lines(text))
        BY <1>1, <1>2, <2>1, <2>2, LinesOfPrefix DEF ScanInv, LineIsTrue, One
    <2> QED
        BY <1>1, <1>2, <1>3, <1>4, <2>1, <2>3, <2>4 DEF Files, LineIsTrue
<1>6. CASE pb = <<>> /\ c = EOF
    <2>1. eof' = TRUE /\ pb' = <<>> /\ text' = text
        BY <1>1, <1>2, <1>6 DEF Get, EOF, Char, White, NumberChar, WordChar, SymbolChar
    <2>2. Consumed = text /\ Consumed' = text'
        BY <1>2, <1>6, <2>1 DEF Consumed
    <2>3. lino' = lino
        BY <1>1, <1>2, <1>6 DEF One, EOF
    <2> QED
        BY <1>1, <1>2, <1>3, <1>4, <2>1, <2>2, <2>3 DEF Files, LineIsTrue, ScanInv
<1>7. CASE pb = <<>> /\ c # EOF
    <2>1. c \in Char /\ text' = Append(text, c) /\ pb' = <<>> /\ eof' = eof
        BY <1>1, <1>7 DEF Get
    <2>2. Consumed = text /\ Consumed' = text'
        BY <1>2, <1>7, <2>1 DEF Consumed
    <2>3. text' \in Seq(Char) /\ text' # <<>> /\ text'[Len(text')] = c
        BY <1>2, <2>1
    <2>4. Cardinality(Lines(text')) = Cardinality(Lines(text)) + One(c = "nl")
          /\ Cardinality(Lines(text)) \in Nat
        BY <1>2, <2>1, LinesOfAppend
    <2>5. lino' = 1 + Cardinality(Lines(text'))
        BY <1>1, <2>2, <2>4 DEF ScanInv, LineIsTrue, One
    <2> QED
        BY <1>1, <1>2, <1>3, <1>4, <2>1, <2>2, <2>3, <2>5 DEF Files, LineIsTrue
<1> QED
    BY <1>5, <1>6, <1>7

(* What scan_putback leaves. *)
LEMMA AfterPutBack ==
    ASSUME ScanInv, state # "idle", PutBack
    PROVE  /\ pb' \in Seq(Char) /\ Len(pb') <= 1 /\ (eof' => pb' = <<>>)
           /\ UNCHANGED <<eof, text>> /\ eof' \in BOOLEAN /\ text' \in Seq(Char)
           /\ lino' \in Nat /\ columno' \in Nat /\ lastcol' \in Nat
           /\ pb' # <<>> => text' # <<>> /\ pb'[1] = text'[Len(text')]
           /\ LineIsTrue'
<1>1. /\ pb = <<>> /\ eof \in BOOLEAN /\ text \in Seq(Char)
      /\ lino \in Nat /\ columno \in Nat /\ lastcol \in Nat
      /\ ~eof => text # <<>> /\ x = text[Len(text)]
    BY DEF ScanInv, TypeOK, AheadInv
<1>2. Consumed = text
    BY <1>1, ConsumedIs DEF ScanInv
<1>3. UNCHANGED <<eof, text, lastcol>>
    BY DEF PutBack
<1>4. CASE eof
    <2>1. pb' = pb /\ lino' = lino /\ columno' = columno
        BY <1>4 DEF PutBack
    <2>2. Consumed' = Consumed
        BY <1>3, <2>1 DEF Consumed
    <2>3. LineIsTrue'
        BY <2>1, <2>2 DEF ScanInv, LineIsTrue
    <2> QED
        BY <1>1, <1>3, <2>1, <2>3
<1>5. CASE ~eof
    <2>1. /\ pb' = <<x>> \o pb /\ lino' = lino - One(x = "nl") /\ columno' = lastcol
        BY <1>5 DEF PutBack
    <2>2. x \in Char
        BY <1>1, <1>5
    <2>3. pb' = <<x>>
        BY <1>1, <2>1, <2>2
    <2>4. Consumed' = SubSeq(text, 1, Len(text) - 1)
        BY <1>3, <2>3 DEF Consumed
    <2>5. /\ Cardinality(Lines(Consumed')) \in Nat
          /\ Cardinality(Lines(text)) = Cardinality(Lines(Consumed')) + One(x = "nl")
        BY <1>1, <1>5, <2>4, LinesOfPrefix
    <2>6. lino' = 1 + Cardinality(Lines(Consumed'))
        BY <1>2, <2>1, <2>5 DEF ScanInv, LineIsTrue, One
    <2>7. LineIsTrue' /\ lino' \in Nat
        BY <2>5, <2>6 DEF LineIsTrue
    <2>8. pb' \in Seq(Char) /\ Len(pb') = 1 /\ pb'[1] = x
        BY <2>2, <2>3
    <2> QED
        BY <1>1, <1>3, <1>5, <2>1, <2>7, <2>8
<1> QED
    BY <1>1, <1>4, <1>5

(* When scan returns a token, the parser has it. *)
LEMMA ReturnType ==
    ASSUME TypeOK, NEW ty \in Loop \cup {EOF}, NEW tok \in Seq(Char), Return(ty, tok)
    PROVE  /\ state' = "idle" /\ type' \in Loop \cup {"none", EOF}
           /\ token' = tok /\ tokens' \in Seq(Token)
<1>1. tokens \in Seq(Token)
    BY DEF TypeOK
<1>2. state' = "idle" /\ type' = ty /\ token' = tok
    BY DEF Return
<1>3. CASE ty = EOF
    BY <1>1, <1>2, <1>3 DEF Return
<1>4. CASE ty # EOF
    <2>1. [type |-> ty, token |-> tok] \in Token
        BY <1>4 DEF Token, Loop
    <2>2. tokens' = Append(tokens, [type |-> ty, token |-> tok])
        BY <1>4 DEF Return
    <2> QED
        BY <1>1, <1>2, <2>1, <2>2
<1> QED
    BY <1>3, <1>4

(* A step that reads a character and goes on, or stays where it is.        *)
LEMMA StepReads ==
    ASSUME ScanInv, ScanChar, UNCHANGED <<type, tokens>>,
           state' \in Loop \cup {"top", "slash", "comment"}, token' \in Seq(Char),
           state' \notin {"idle", "number", "word"} => Len(token') <= MaxToken
    PROVE  ScanInv'
<1>1. Files /\ LineIsTrue'
    BY AfterScanChar
<1>2. type \in Loop \cup {"none", EOF} /\ tokens \in Seq(Token)
    BY DEF ScanInv, TypeOK
<1>3. pb' \in Seq(Char) /\ Len(pb') <= 1
    BY <1>1 DEF Files
<1>4. TypeOK'
    BY <1>1, <1>2, <1>3 DEF TypeOK, Files
<1>5. AheadInv'
    BY <1>1 DEF AheadInv, Files
<1> QED
    BY <1>1, <1>4, <1>5 DEF ScanInv

(* A step that reads nothing. *)
LEMMA StepStays ==
    ASSUME ScanInv, UNCHANGED <<input, x, place>>,
           state' \in Loop \cup {"idle", "top", "slash", "comment"},
           token' \in Seq(Char), tokens' \in Seq(Token),
           type' \in Loop \cup {"none", EOF},
           state' \notin {"idle", "number", "word"} => Len(token') <= MaxToken,
           state = "idle" => state' = "idle"
    PROVE  ScanInv'
<1>1. TypeOK'
    BY DEF ScanInv, TypeOK, input, place
<1>2. AheadInv'
    BY DEF ScanInv, AheadInv, input, place
<1>3. LineIsTrue'
    BY DEF ScanInv, LineIsTrue, Consumed, Lines, input, place
<1> QED
    BY <1>1, <1>2, <1>3 DEF ScanInv

(* A step that puts the last character back and returns. *)
LEMMA StepPutsBack ==
    ASSUME ScanInv, state # "idle", PutBack, x' \in Char \cup {EOF}, state' = "idle",
           token' \in Seq(Char), tokens' \in Seq(Token), type' \in Loop \cup {"none", EOF}
    PROVE  ScanInv'
<1>1. TypeOK'
    BY AfterPutBack DEF TypeOK
<1>2. AheadInv'
    BY AfterPutBack DEF AheadInv
<1> QED
    BY <1>1, <1>2, AfterPutBack DEF ScanInv

LEMMA InitInv == Init => ScanInv
<1> SUFFICES ASSUME Init PROVE ScanInv
    OBVIOUS
<1>1. /\ pb = <<>> /\ eof = FALSE /\ text = <<>> /\ x = EOF
      /\ lino = 1 /\ columno = 1 /\ lastcol = 0
      /\ state = "idle" /\ token = <<>> /\ type = "none" /\ tokens = <<>>
    BY DEF Init
<1>2. TypeOK
    <2>1. <<>> \in Seq(Char) /\ <<>> \in Seq(Token) /\ Len(<<>>) = 0
        OBVIOUS
    <2>2. Len(pb) <= 1 /\ Len(token) <= MaxToken
        BY <1>1, <2>1, ScannerAssumption
    <2> QED
        BY <1>1, <2>1, <2>2 DEF TypeOK
<1>3. AheadInv
    BY <1>1 DEF AheadInv
<1>4. Consumed = <<>>
    BY <1>1 DEF Consumed
<1>5. Lines(Consumed) = {}
    BY <1>4 DEF Lines
<1>6. LineIsTrue
    BY <1>1, <1>5, FS_EmptySet DEF LineIsTrue
<1> QED
    BY <1>2, <1>3, <1>6 DEF ScanInv

LEMMA NextInv == ScanInv /\ [Next]_scan => ScanInv'
<1> SUFFICES ASSUME ScanInv, [Next]_scan PROVE ScanInv'
    OBVIOUS
<1>1. TypeOK /\ AheadInv
    BY DEF ScanInv
<1>2. CASE Call
    <2>1. CASE eof
        <3>1. state = "idle" /\ Return(EOF, <<>>) /\ UNCHANGED <<input, x, place>>
            BY <1>2, <2>1 DEF Call
        <3>2. <<>> \in Seq(Char)
            OBVIOUS
        <3>3. /\ state' = "idle" /\ type' \in Loop \cup {"none", EOF}
              /\ token' = <<>> /\ tokens' \in Seq(Token)
            BY <1>1, <3>1, <3>2, ReturnType
        <3> QED
            BY <3>1, <3>2, <3>3, StepStays
    <2>2. CASE ~eof
        <3>1. /\ ScanChar /\ state' = "top" /\ token' = <<>> /\ UNCHANGED <<type, tokens>>
            BY <1>2, <2>2 DEF Call
        <3>2. token' \in Seq(Char) /\ Len(token') <= MaxToken
            BY <3>1, ScannerAssumption
        <3> QED
            BY <3>1, <3>2, StepReads
    <2> QED
        BY <2>1, <2>2
<1>3. CASE SkipWhite
    BY <1>1, <1>3, StepReads DEF SkipWhite, output, TypeOK
<1>4. CASE Slash
    BY <1>1, <1>4, StepReads DEF Slash, output, TypeOK
<1>5. CASE AfterSlash
    <2>1. state = "slash"
        BY <1>5 DEF AfterSlash
    <2>2. CASE x = "/"
        BY <1>1, <1>5, <2>1, <2>2, StepStays DEF AfterSlash, output, TypeOK
    <2>3. CASE x # "/"
        <3>1. PutBack /\ x' = "/" /\ x' \in Char
            BY <1>5, <2>3 DEF AfterSlash, Char
        <3>2. PICK ty \in {EOF, "symbol"}, tok \in {<<>>, <<"/">>} : Return(ty, tok)
            BY <1>5, <2>3 DEF AfterSlash
        <3>3. tok \in Seq(Char)
            <4>1. "/" \in Char
                BY DEF Char
            <4>2. <<>> \in Seq(Char) /\ <<"/">> \in Seq(Char)
                BY <4>1
            <4> QED
                BY <4>2
        <3>4. /\ state' = "idle" /\ type' \in Loop \cup {"none", EOF}
              /\ token' = tok /\ tokens' \in Seq(Token)
            BY <1>1, <3>2, <3>3, ReturnType DEF Loop
        <3> QED
            BY <2>1, <3>1, <3>3, <3>4, StepPutsBack
    <2> QED
        BY <2>2, <2>3
<1>6. CASE Comment
    <2>1. CASE InComment
        BY <1>1, <1>6, <2>1, StepReads DEF Comment, output, TypeOK
    <2>2. CASE ~InComment
        BY <1>1, <1>6, <2>2, StepStays DEF Comment, output, TypeOK
    <2> QED
        BY <2>1, <2>2
<1>7. CASE Begin
    <2>1. state = "top" /\ ~eof /\ UNCHANGED <<input, x, place>>
        BY <1>7 DEF Begin
    <2>2. x \in Char
        BY <1>1, <2>1 DEF TypeOK, AheadInv
    <2>3. CASE LoopFor = "idle"
        <3>1. Return("symbol", <<x>>) /\ <<x>> \in Seq(Char)
            BY <1>7, <2>2, <2>3 DEF Begin
        <3>2. /\ state' = "idle" /\ type' \in Loop \cup {"none", EOF}
              /\ token' = <<x>> /\ tokens' \in Seq(Token)
            BY <1>1, <3>1, ReturnType DEF Loop
        <3> QED
            BY <2>1, <3>1, <3>2, StepStays
    <2>4. CASE LoopFor # "idle"
        <3>1. state' \in Loop /\ UNCHANGED output
            BY <1>7, <2>4 DEF Begin, LoopFor, Loop
        <3>2. token' = token /\ token \in Seq(Char) /\ Len(token) <= MaxToken
            BY <1>1, <2>1, <3>1 DEF output, TypeOK
        <3>3. tokens' \in Seq(Token) /\ type' \in Loop \cup {"none", EOF}
            BY <1>1, <3>1 DEF output, TypeOK
        <3> QED
            BY <2>1, <3>1, <3>2, <3>3, StepStays
    <2> QED
        BY <2>3, <2>4
<1>8. CASE BeginString
    BY <1>1, <1>8, StepReads DEF BeginString, output, TypeOK, Loop
<1>9. CASE AtEnd
    <2>1. state = "top" /\ Return(EOF, <<>>) /\ UNCHANGED <<input, x, place>>
        BY <1>9 DEF AtEnd
    <2>2. <<>> \in Seq(Char)
        OBVIOUS
    <2>3. /\ state' = "idle" /\ type' \in Loop \cup {"none", EOF}
          /\ token' = <<>> /\ tokens' \in Seq(Token)
        BY <1>1, <2>1, <2>2, ReturnType
    <2> QED
        BY <2>1, <2>2, <2>3, StepStays
<1>10. CASE More
    <2>1. state \in Loop /\ ~eof /\ Belongs /\ ScanChar /\ token' = Append(token, x)
          /\ UNCHANGED <<state, type, tokens>>
        BY <1>10 DEF More, Belongs
    <2>2. x \in Char
        BY <1>1, <2>1 DEF TypeOK, AheadInv, Loop
    <2>3. token \in Seq(Char)
        BY <1>1 DEF TypeOK
    <2>4. token' \in Seq(Char) /\ Len(token') = Len(token) + 1
        BY <2>1, <2>2, <2>3
    <2>5. state \notin {"idle", "number", "word"} => Len(token) < MaxToken
        BY <2>1 DEF Belongs, Loop
    <2>6. state' \notin {"idle", "number", "word"} => Len(token') <= MaxToken
        BY <2>1, <2>3, <2>4, <2>5, ScannerAssumption
    <2> QED
        BY <2>1, <2>4, <2>6, StepReads
<1>11. CASE End
    <2>1. state \in Loop /\ state # "idle" /\ x' = x /\ Return(state, token)
        BY <1>11 DEF End, Loop
    <2>2. token \in Seq(Char) /\ x \in Char \cup {EOF}
        BY <1>1 DEF TypeOK
    <2>3. /\ state' = "idle" /\ type' \in Loop \cup {"none", EOF}
          /\ token' = token /\ tokens' \in Seq(Token)
        BY <1>1, <2>1, <2>2, ReturnType
    <2>4. CASE state = "string"
        <3>1. UNCHANGED <<input, x, place>>
            BY <1>11, <2>4 DEF End
        <3> QED
            BY <2>1, <2>2, <2>3, <3>1, StepStays
    <2>5. CASE state # "string"
        <3>1. PutBack
            BY <1>11, <2>5 DEF End
        <3> QED
            BY <2>1, <2>2, <2>3, <3>1, StepPutsBack
    <2> QED
        BY <2>4, <2>5
<1>12. CASE UNCHANGED scan
    BY <1>12 DEF scan, ScanInv, TypeOK, AheadInv, LineIsTrue, Consumed, Lines
<1> QED
    BY <1>2, <1>3, <1>4, <1>5, <1>6, <1>7, <1>8, <1>9, <1>10, <1>11, <1>12 DEF Next

LEMMA AlwaysInv == Spec => []ScanInv
    BY InitInv, NextInv, PTL DEF Spec

(* A symbol or a string never exceeds the buffer of the scanner, and it    *)
(* never has more than one character put back, none at the end of the file.*)
THEOREM ScannerTypes == Spec => []TypeOK
<1>1. ScanInv => TypeOK
    BY DEF ScanInv
<1> QED
    BY <1>1, AlwaysInv, PTL

(* scan_putback takes back exactly the line that scan_char has counted:    *)
(* lino is the line of the end of the text that was read, for every file.  *)
THEOREM LinesAreTrue == Spec => []LineIsTrue
<1>1. ScanInv => LineIsTrue
    BY DEF ScanInv
<1> QED
    BY <1>1, AlwaysInv, PTL

(***************************************************************************)
(* Columns                                                                 *)
(***************************************************************************)
ButLast(s) == SubSeq(s, 1, Len(s) - 1)

LEMMA ButLastIs ==
    ASSUME NEW s \in Seq(Char), s # <<>>
    PROVE  /\ ButLast(s) \in Seq(Char) /\ Len(ButLast(s)) = Len(s) - 1
           /\ Len(s) \in Nat \ {0} /\ s[Len(s)] \in Char
<1> DEFINE p == SubSeq(s, 1, Len(s) - 1)
<1>1. Len(s) \in Nat \ {0} /\ DOMAIN s = 1 .. Len(s)
    OBVIOUS
<1>2. p \in Seq(Char) /\ Len(p) = Len(s) - 1 /\ \A i \in 1 .. Len(s) - 1 : p[i] = s[i]
    BY <1>1
<1>3. ButLast(s) \in Seq(Char) /\ Len(ButLast(s)) = Len(s) - 1
    BY <1>2 DEF ButLast
<1> QED
    BY <1>1, <1>3

(* ColumnAfter is what its definition says: there is such a function.      *)
LEMMA ColumnAfterIs ==
    ASSUME NEW s \in Seq(Char)
    PROVE  /\ ColumnAfter[s] = IF s = <<>> THEN 1
                               ELSE NextColumn(ColumnAfter[ButLast(s)], s[Len(s)])
           /\ ColumnAfter[s] \in Nat
<1> DEFINE Texts == Seq(Char)
           size == [t \in Texts |-> Len(t)]
           base == [t \in Texts |-> 1]
           less == [t \in Texts |-> IF t = <<>> THEN t ELSE ButLast(t)]
           comb == [t \in Texts |-> [v \in Nat |-> ColumnPast(v, t[Len(t)])]]
           Right(f) ==
               f = [t \in Texts |->
                       IF t = <<>> \/ t[Len(t)] = "nl" THEN 1
                       ELSE LET col == f[SubSeq(t, 1, Len(t) - 1)]
                            IN  IF t[Len(t)] = "tab" THEN 8 * (col \div 8 + 1) ELSE col + 1]
<1>0. ASSUME NEW v \in Nat, NEW c PROVE ColumnPast(v, c) \in Nat
    BY NextColumnIs
<1>1. /\ size \in [Texts -> Nat] /\ base \in [Texts -> Nat]
      /\ comb \in [Texts -> [Nat -> Nat]]
    BY <1>0
<1>2. less \in [Texts -> Texts]
    BY ButLastIs
<1>3. ASSUME NEW t \in Texts, size[t] # 0 PROVE size[less[t]] < size[t]
    <2>1. t # <<>>
        BY <1>3
    <2>2. less[t] = ButLast(t) /\ size[t] = Len(t)
        BY <2>1
    <2>3. size[ButLast(t)] = Len(t) - 1 /\ Len(t) \in Nat
        BY <2>1, ButLastIs
    <2> QED
        BY <2>2, <2>3
<1>4. PICK f \in [Texts -> Nat] : \A t \in Texts : Recurs(f, t, size, base, less, comb)
    <2> HIDE DEF Texts, size, base, less, comb
    <2> QED
        BY <1>1, <1>2, <1>3, RecursiveFunction
<1>5. Right(f)
    <2>1. ASSUME NEW t \in Texts
          PROVE  f[t] = IF t = <<>> THEN 1 ELSE ColumnPast(f[ButLast(t)], t[Len(t)])
        <3>1. CASE t = <<>>
            <4>1. size[t] = 0 /\ base[t] = 1
                BY <3>1
            <4> QED
                BY <1>4, <3>1, <4>1 DEF Recurs
        <3>2. CASE t # <<>>
            <4>1. size[t] # 0 /\ less[t] = ButLast(t) /\ ButLast(t) \in Texts
                BY <3>2, ButLastIs
            <4>2. f[ButLast(t)] \in Nat
                BY <1>4, <4>1
            <4>3. comb[t][f[ButLast(t)]] = ColumnPast(f[ButLast(t)], t[Len(t)])
                BY <4>2
            <4> QED
                BY <1>4, <3>2, <4>1, <4>3 DEF Recurs
        <3> QED
            BY <3>1, <3>2
    <2>2. f = [t \in Texts |-> f[t]]
        BY <1>4
    <2> QED
        BY <2>1, <2>2 DEF ColumnPast, ButLast
<1>6. ColumnAfter = CHOOSE g : Right(g)
    BY DEF ColumnAfter
<1>7. Right(ColumnAfter)
    <2> HIDE DEF Right
    <2> QED
        BY <1>5, <1>6
<1>8. ASSUME NEW t \in Texts
      PROVE  ColumnAfter[t] = IF t = <<>> THEN 1
                              ELSE ColumnPast(ColumnAfter[ButLast(t)], t[Len(t)])
    BY <1>7 DEF ColumnPast, ButLast
<1>9. ASSUME NEW r \in Texts PROVE ColumnAfter[r] \in Nat
    <2> DEFINE S == {n \in Nat : \A t \in Texts : Len(t) = n => ColumnAfter[t] \in Nat}
    <2>1. 0 \in S
        <3>1. ASSUME NEW t \in Texts, Len(t) = 0 PROVE ColumnAfter[t] \in Nat
            <4>1. t = <<>>
                BY <3>1, EmptySeq
            <4>2. ColumnAfter[t] = 1
                <5> HIDE DEF Texts
                <5> QED
                    BY <1>8, <3>1, <4>1
            <4> QED
                BY <4>2
        <3> QED
            BY <3>1
    <2>2. ASSUME NEW n \in Nat, n \in S PROVE n + 1 \in S
        <3>1. ASSUME NEW t \in Texts, Len(t) = n + 1 PROVE ColumnAfter[t] \in Nat
            <4>1. t # <<>>
                BY <3>1
            <4>2. ColumnAfter[ButLast(t)] \in Nat
                BY <2>2, <3>1, <4>1, ButLastIs
            <4> QED
                BY <1>0, <1>8, <4>1, <4>2
        <3> QED
            BY <3>1
    <2>3. Nat \subseteq S
        <3> HIDE DEF S
        <3> QED
            BY <2>1, <2>2, SetInduction
    <2>4. Len(r) \in Nat
        OBVIOUS
    <2> QED
        BY <2>3, <2>4
<1>10. ASSUME s # <<>>
       PROVE  ColumnPast(ColumnAfter[ButLast(s)], s[Len(s)])
                  = NextColumn(ColumnAfter[ButLast(s)], s[Len(s)])
    <2>1. ButLast(s) \in Texts
        BY <1>10, ButLastIs
    <2>2. ColumnAfter[ButLast(s)] \in Nat
        BY <1>9, <2>1
    <2> QED
        BY <2>2, NextColumnIs
<1> QED
    BY <1>8, <1>9, <1>10

(* While scan runs, lastcol is the column before the last character.       *)
ColumnInv ==
    /\ ColumnIsTrue
    /\ state # "idle" /\ ~eof => lastcol = ColumnAfter[ButLast(text)]

LEMMA ColumnRead ==
    ASSUME ScanInv, ColumnInv, ScanChar PROVE ColumnInv'
<1>1. PICK c \in Char \cup {EOF} : /\ Get(c) /\ x' = c
                                   /\ lastcol' = columno
                                   /\ columno' = NextColumn(columno, c)
    BY DEF ScanChar
<1>2. /\ pb \in Seq(Char) /\ eof \in BOOLEAN /\ text \in Seq(Char)
      /\ (eof => pb = <<>>)
    BY DEF ScanInv, TypeOK
<1>3. Files
    BY AfterScanChar
<1>4. SUFFICES ASSUME ~eof' PROVE /\ columno' = ColumnAfter[text']
                                  /\ lastcol' = ColumnAfter[ButLast(text')]
    BY <1>3 DEF ColumnInv, ColumnIsTrue, Files
<1>5. ~eof /\ columno = ColumnAfter[Consumed]
    BY <1>1, <1>2, <1>4 DEF Get, ColumnInv, ColumnIsTrue
<1>6. text' \in Seq(Char) /\ text' # <<>> /\ c = text'[Len(text')]
    BY <1>1, <1>3, <1>4 DEF Files
<1>7. ButLast(text') = Consumed
    <2>1. CASE pb # <<>>
        BY <1>1, <2>1, ConsumedIs DEF ScanInv, Get, ButLast
    <2>2. CASE pb = <<>>
        <3>1. c \in Char /\ text' = Append(text, c)
            BY <1>1, <1>2, <1>4, <2>2 DEF Get
        <3>2. Consumed = text
            BY <2>2, ConsumedIs DEF ScanInv
        <3>3. ButLast(Append(text, c)) = text
            BY <1>2, <3>1 DEF ButLast
        <3> QED
            BY <3>1, <3>2, <3>3
    <2> QED
        BY <2>1, <2>2
<1>8. ColumnAfter[text'] = NextColumn(ColumnAfter[Consumed], c)
    BY <1>6, <1>7, ColumnAfterIs
<1> QED
    BY <1>1, <1>5, <1>7, <1>8

LEMMA ColumnPutBack ==
    ASSUME ScanInv, ColumnInv, state # "idle", PutBack, state' = "idle" PROVE ColumnInv'
<1>1. /\ pb = <<>> /\ eof \in BOOLEAN /\ text \in Seq(Char)
      /\ ~eof => text # <<>> /\ x = text[Len(text)]
    BY DEF ScanInv, TypeOK, AheadInv
<1>2. eof' = eof /\ text' = text
    BY DEF PutBack
<1>3. SUFFICES ASSUME ~eof PROVE columno' = ColumnAfter[Consumed']
    BY <1>2 DEF ColumnInv, ColumnIsTrue
<1>4. columno' = lastcol /\ pb' = <<x>> \o pb
    BY <1>3 DEF PutBack
<1>5. x \in Char
    BY <1>1, <1>3
<1>6. Len(pb') = 1
    BY <1>1, <1>4, <1>5
<1>7. Consumed' = ButLast(text)
    BY <1>2, <1>6 DEF Consumed, ButLast
<1> QED
    BY <1>3, <1>4, <1>7 DEF ColumnInv

LEMMA ColumnStays ==
    ASSUME ColumnInv, UNCHANGED <<input, x, place>>, state = "idle" => state' = "idle"
    PROVE  ColumnInv'
BY DEF ColumnInv, ColumnIsTrue, Consumed, input, place

LEMMA ColumnNext == ScanInv /\ ColumnInv /\ [Next]_scan => ColumnInv'
<1> SUFFICES ASSUME ScanInv, ColumnInv, [Next]_scan PROVE ColumnInv'
    OBVIOUS
<1>1. CASE Call
    BY <1>1, ColumnRead, ColumnStays DEF Call, Return
<1>2. CASE SkipWhite \/ Slash \/ BeginString \/ More
    BY <1>2, ColumnRead DEF SkipWhite, Slash, BeginString, More
<1>3. CASE AfterSlash
    <2>1. CASE x = "/"
        BY <1>3, <2>1, ColumnStays DEF AfterSlash
    <2>2. CASE x # "/"
        BY <1>3, <2>2, ColumnPutBack DEF AfterSlash, Return
    <2> QED
        BY <2>1, <2>2
<1>4. CASE Comment
    BY <1>4, ColumnRead, ColumnStays DEF Comment
<1>5. CASE Begin
    BY <1>5, ColumnStays DEF Begin
<1>6. CASE AtEnd
    BY <1>6, ColumnStays DEF AtEnd
<1>7. CASE End
    <2>1. state # "idle" /\ state' = "idle"
        BY <1>7 DEF End, Loop, Return
    <2>2. CASE state = "string"
        BY <1>7, <2>1, <2>2, ColumnStays DEF End
    <2>3. CASE state # "string"
        BY <1>7, <2>1, <2>3, ColumnPutBack DEF End
    <2> QED
        BY <2>2, <2>3
<1>8. CASE UNCHANGED scan
    BY <1>8, ColumnStays DEF scan, input, place
<1> QED
    BY <1>1, <1>2, <1>3, <1>4, <1>5, <1>6, <1>7, <1>8 DEF Next

(* The column of an error report is that of the text read so far, tabs and *)
(* lines included, whatever was put back: lastcol is never used twice.     *)
THEOREM ColumnsAreTrue == Spec => []ColumnIsTrue
<1>1. Init => ColumnInv
    <2> SUFFICES ASSUME Init PROVE ColumnInv
        OBVIOUS
    <2>1. text = <<>> /\ pb = <<>> /\ columno = 1 /\ state = "idle"
        BY DEF Init
    <2>2. Consumed = <<>> /\ <<>> \in Seq(Char)
        BY <2>1 DEF Consumed
    <2>3. ColumnAfter[<<>>] = 1
        BY <2>2, ColumnAfterIs
    <2> QED
        BY <2>1, <2>2, <2>3 DEF ColumnInv, ColumnIsTrue
<1>2. ColumnInv => ColumnIsTrue
    BY DEF ColumnInv
<1> QED
    BY <1>1, <1>2, ColumnNext, AlwaysInv, PTL DEF Spec

(* Both, for every file and every series of calls.                         *)
THEOREM PlacesAreTrue == Spec => []PlaceIsTrue
<1>1. LineIsTrue /\ ColumnIsTrue => PlaceIsTrue
    BY DEF PlaceIsTrue
<1> QED
    BY <1>1, LinesAreTrue, ColumnsAreTrue, PTL

(***************************************************************************)
(* Tokens: what the first token of a text is                               *)
(***************************************************************************)
LEMMA PrefixIs ==
    ASSUME NEW s \in Seq(Char), NEW C
    PROVE  /\ Prefix(s, C) \in 0 .. Len(s)
           /\ \A i \in 1 .. Prefix(s, C) : s[i] \in C
           /\ Prefix(s, C) < Len(s) => s[Prefix(s, C) + 1] \notin C
<1> DEFINE Ends == {n \in 0 .. Len(s) : n = Len(s) \/ s[n + 1] \notin C}
           Is(n) == /\ \A i \in 1 .. n : s[i] \in C
                    /\ n < Len(s) => s[n + 1] \notin C
<1>1. Len(s) \in Nat /\ Ends \subseteq Nat /\ Ends # {}
    OBVIOUS
<1>2. PICK n \in Ends : \A m \in Ends : n <= m
    <2> HIDE DEF Ends
    <2> QED
        BY <1>1, LeastNumber
<1>3. n \in 0 .. Len(s) /\ Is(n)
    <2>1. ASSUME NEW i \in 1 .. n, s[i] \notin C PROVE FALSE
        <3>1. i - 1 \in 0 .. Len(s) /\ i - 1 + 1 = i /\ i \in Int /\ i <= n /\ n \in Int
            BY <1>1
        <3>2. i - 1 \in Ends
            BY <2>1, <3>1
        <3>3. n <= i - 1
            <4> HIDE DEF Ends
            <4> QED
                BY <1>2, <3>2
        <3> QED
            BY <3>1, <3>3
    <2>2. n < Len(s) => s[n + 1] \notin C
        BY <1>1
    <2> QED
        BY <1>1, <2>1, <2>2
<1>4. Prefix(s, C) = CHOOSE m \in 0 .. Len(s) : Is(m)
    BY DEF Prefix
<1>5. Prefix(s, C) \in 0 .. Len(s) /\ Is(Prefix(s, C))
    <2> HIDE DEF Is
    <2> QED
        BY <1>3, <1>4
<1> QED
    BY <1>5

(* The characters of two texts, one after the other. *)
LEMMA Joined ==
    ASSUME NEW u \in Seq(Char), NEW q \in Seq(Char)
    PROVE  /\ u \o q \in Seq(Char) /\ Len(u \o q) = Len(u) + Len(q)
           /\ Len(u) \in Nat /\ Len(q) \in Nat
           /\ \A i \in 1 .. Len(u) : (u \o q)[i] = u[i]
           /\ \A i \in 1 .. Len(q) : (u \o q)[Len(u) + i] = q[i]
           /\ From(u \o q, Len(u) + 1) = q
<1>1. /\ u \o q \in Seq(Char) /\ Len(u \o q) = Len(u) + Len(q)
      /\ Len(u) \in Nat /\ Len(q) \in Nat
      /\ \A i \in 1 .. Len(u) : (u \o q)[i] = u[i]
    OBVIOUS
<1>2. \A i \in 1 .. Len(q) : (u \o q)[Len(u) + i] = q[i]
    OBVIOUS
<1>3. From(u \o q, Len(u) + 1) = q
    <2> DEFINE s == u \o q
               f == SubSeq(s, Len(u) + 1, Len(s))
    <2>1. Len(s) - (Len(u) + 1) + 1 = Len(q) /\ s \in Seq(Char)
        BY <1>1
    <2>2. /\ f \in Seq(Char) /\ Len(f) = Len(q)
          /\ \A i \in 1 .. Len(q) : f[i] = s[Len(u) + i]
        <3>1. Len(s) = Len(u) + Len(q)
            BY <1>1
        <3>2. \A i \in 1 .. Len(q) : Len(u) + 1 + i - 1 = Len(u) + i
            BY <1>1
        <3> HIDE DEF s
        <3> QED
            BY <1>1, <2>1, <3>1, <3>2
    <2>3. \A i \in 1 .. Len(q) : f[i] = q[i]
        BY <1>2, <2>2
    <2>4. f = q
        <3> HIDE DEF f
        <3> QED
            BY <2>2, <2>3, SeqEqual
    <2> QED
        BY <2>4 DEF From
<1> QED
    BY <1>1, <1>2, <1>3

LEMMA PrefixOf ==
    ASSUME NEW u \in Seq(Char), NEW q \in Seq(Char), NEW C,
           \A i \in 1 .. Len(u) : u[i] \in C
    PROVE  /\ q = <<>> \/ q[1] \notin C => Prefix(u \o q, C) = Len(u)
           /\ q # <<>> /\ q[1] \in C => Prefix(u \o q, C) > Len(u)
<1> DEFINE s == u \o q
<1>P. PICK n : n = Prefix(s, C)
    OBVIOUS
<1>1. s \in Seq(Char) /\ Len(s) = Len(u) + Len(q) /\ Len(u) \in Nat /\ Len(q) \in Nat
    BY Joined
<1>2. /\ n \in 0 .. Len(s)
      /\ \A i \in 1 .. n : s[i] \in C
      /\ n < Len(s) => s[n + 1] \notin C
    BY <1>P, <1>1, PrefixIs
<1>3. n >= Len(u)
    <2> SUFFICES ASSUME n < Len(u) PROVE FALSE
        BY <1>1, <1>2
    <2>1. n + 1 \in 1 .. Len(u) /\ n < Len(s)
        BY <1>1, <1>2
    <2>2. s[n + 1] = u[n + 1]
        BY <2>1, Joined
    <2> QED
        BY <1>2, <2>1, <2>2
<1>4. q # <<>> => Len(q) >= 1 /\ s[Len(u) + 1] = q[1]
    BY Joined
<1> HIDE DEF s
<1>5. ASSUME q = <<>> \/ q[1] \notin C PROVE n = Len(u)
    <2>1. CASE q = <<>>
        <3>1. Len(q) = 0
            BY <2>1
        <3> QED
            BY <1>1, <1>2, <1>3, <3>1
    <2>2. CASE q # <<>> /\ q[1] \notin C
        <3>1. n > Len(u) => Len(u) + 1 \in 1 .. n
            BY <1>1, <1>2
        <3> QED
            BY <1>1, <1>2, <1>3, <1>4, <2>2, <3>1
    <2> QED
        BY <1>5, <2>1, <2>2
<1>6. ASSUME q # <<>>, q[1] \in C PROVE n > Len(u)
    BY <1>1, <1>2, <1>3, <1>4, <1>6
<1> QED
    BY <1>P, <1>5, <1>6 DEF s

(* The classes of tokens exclude each other. *)
LEMMA KindIs ==
    ASSUME NEW c
    PROVE  /\ Kinds(c) # {} => Kind(c) \in Kinds(c)
           /\ Kinds(c) # {} => Kind(c) \in Loop
           /\ \A k \in Kinds(c) : c \in FirstOf[k] /\ c \in Classes[k]
           /\ \A k \in DOMAIN Classes : c \in FirstOf[k] =>
                 /\ Kinds(c) = {k} /\ Kind(c) = k
                 /\ c \notin White \cup {"/", "quote"}
           /\ c \in {".", "other"} => Kinds(c) = {}
<1>1. /\ DOMAIN Classes = {"number", "word", "symbol"}
      /\ Classes["number"] = {"digit", "."} /\ Classes["word"] = {"letter", "digit"}
      /\ Classes["symbol"] = {"cmp"}
      /\ FirstOf["number"] = {"digit"} /\ FirstOf["word"] = {"letter"}
      /\ FirstOf["symbol"] = {"cmp"}
    BY DEF Classes, FirstOf, NumberChar, WordChar, SymbolChar
<1>2. Kinds(c) = {k \in {"number", "word", "symbol"} : c \in FirstOf[k]}
    BY <1>1 DEF Kinds
<1>3. Kinds(c) # {} => Kind(c) \in Kinds(c)
    BY DEF Kind
<1>4. \A k \in DOMAIN Classes : c \in FirstOf[k] => Kinds(c) = {k}
    BY <1>1, <1>2
<1> QED
    BY <1>1, <1>2, <1>3, <1>4 DEF Loop, White

(* A text has a first token, or something that is skipped, and what comes  *)
(* after it is shorter.                                                    *)
LEMMA TakenIs ==
    ASSUME NEW s \in Seq(Char), s # <<>>
    PROVE  /\ Taken(s) \in Nat \ {0}
           /\ FirstToken(s) \in Seq(Token)
           /\ From(s, Taken(s) + 1) \in Seq(Char)
           /\ Len(From(s, Taken(s) + 1)) < Len(s)
<1>1. Len(s) \in Nat \ {0} /\ s[1] \in Char
    OBVIOUS
<1>2. Tail(s) \in Seq(Char) /\ Len(Tail(s)) = Len(s) - 1
    BY <1>1
<1>3. Quoted(s) \in 0 .. Len(s) - 1
    BY <1>2, PrefixIs DEF Quoted
<1>4. Comments(s) => Prefix(s, Char \ {"nl"}) \in Nat \ {0}
    <2> SUFFICES ASSUME Comments(s) PROVE Prefix(s, Char \ {"nl"}) # 0
        BY <1>1, PrefixIs
    <2>1. s[1] = "/"
        BY DEF Comments
    <2>2. Prefix(s, Char \ {"nl"}) = 0 => s[0 + 1] \notin Char \ {"nl"}
        BY <1>1, PrefixIs
    <2> QED
        BY <1>1, <2>1, <2>2
<1>5. ASSUME Kinds(s[1]) # {} PROVE Prefix(s, Classes[Kind(s[1])]) \in 1 .. Len(s)
    <2> DEFINE C == Classes[Kind(s[1])]
    <2>1. s[1] \in C
        BY <1>5, KindIs
    <2> HIDE DEF C
    <2>2. Prefix(s, C) = 0 => s[0 + 1] \notin C
        BY <1>1, PrefixIs
    <2>3. Prefix(s, C) \in 0 .. Len(s) /\ Prefix(s, C) # 0
        BY <1>1, <2>1, <2>2, PrefixIs
    <2>4. Prefix(s, C) \in 1 .. Len(s)
        BY <1>1, <2>3
    <2> QED
        BY <2>4 DEF C
<1>6. Taken(s) \in Nat \ {0}
    <2>1. Quoted(s) + 2 \in Nat \ {0}
        BY <1>1, <1>3
    <2>2. Kinds(s[1]) # {} => Prefix(s, Classes[Kind(s[1])]) \in Nat \ {0}
        BY <1>1, <1>5
    <2> QED
        BY <1>4, <2>1, <2>2 DEF Taken
<1>7. FirstToken(s) \in Seq(Token)
    <2>a. /\ Kinds(s[1]) # {} => s[1] \notin White \cup {"/", "quote"}
          /\ Comments(s) => s[1] = "/"
          /\ {"/", "quote"} \cap White = {}
        BY KindIs DEF Comments, White, Kinds
    <2>1. CASE s[1] \in White \/ Comments(s)
        <3>1. FirstToken(s) = <<>>
            BY <2>a, <2>1 DEF FirstToken
        <3>2. <<>> \in Seq(Token)
            OBVIOUS
        <3> QED
            BY <3>1, <3>2
    <2>2. CASE ~(s[1] \in White \/ Comments(s)) /\ s[1] = "quote"
        <3> DEFINE t == SubSeq(s, 2, Quoted(s) + 1)
        <3>1. t \in Seq(Char)
            <4>1. Quoted(s) + 1 \in 1 .. Len(s)
                BY <1>1, <1>3
            <4> QED
                BY <1>1, <4>1
        <3>2. [type |-> "string", token |-> t] \in Token
            BY <3>1 DEF Token
        <3>3. FirstToken(s) = <<[type |-> "string", token |-> t]>>
            <4> HIDE DEF t
            <4>1. Kinds(s[1]) = {}
                BY <2>a, <2>2
            <4>2. FirstToken(s) = <<[type |-> "string", token |-> SubSeq(s, 2, Quoted(s) + 1)]>>
                BY <2>2, <4>1 DEF FirstToken
            <4> QED
                BY <4>2 DEF t
        <3> HIDE DEF t
        <3> QED
            BY <3>2, <3>3
    <2>3. CASE ~(s[1] \in White \/ Comments(s)) /\ s[1] # "quote" /\ Kinds(s[1]) # {}
        <3>0. Taken(s) = Prefix(s, Classes[Kind(s[1])])
            BY <2>3 DEF Taken
        <3> DEFINE t == SubSeq(s, 1, Taken(s))
        <3>1. t \in Seq(Char)
            <4>1. Taken(s) \in 1 .. Len(s)
                BY <1>5, <2>3, <3>0
            <4> QED
                BY <1>1, <4>1
        <3>2. [type |-> Kind(s[1]), token |-> t] \in Token
            BY <2>3, <3>1, KindIs DEF Token, Loop
        <3>3. FirstToken(s) = <<[type |-> Kind(s[1]), token |-> t]>>
            BY <2>3 DEF FirstToken
        <3> HIDE DEF t
        <3> QED
            BY <3>2, <3>3
    <2>4. CASE ~(s[1] \in White \/ Comments(s)) /\ s[1] # "quote" /\ Kinds(s[1]) = {}
        <3>1. <<s[1]>> \in Seq(Char)
            BY <1>1
        <3>2. [type |-> "symbol", token |-> <<s[1]>>] \in Token
            BY <3>1 DEF Token
        <3>3. FirstToken(s) = <<[type |-> "symbol", token |-> <<s[1]>>]>>
            BY <2>4 DEF FirstToken
        <3> QED
            BY <3>2, <3>3
    <2> QED
        BY <2>1, <2>2, <2>3, <2>4
<1>8. From(s, Taken(s) + 1) \in Seq(Char) /\ Len(From(s, Taken(s) + 1)) < Len(s)
    <2>n. PICK n : n = Taken(s) + 1
        OBVIOUS
    <2>1. n \in Nat /\ n >= 2
        BY <2>n, <1>6
    <2>2. CASE n <= Len(s)
        <3> DEFINE t == SubSeq(s, n, Len(s))
        <3>1. t \in Seq(Char) /\ Len(t) = Len(s) - n + 1
            BY <1>1, <2>1, <2>2
        <3> QED
            BY <1>1, <2>n, <2>1, <3>1 DEF From
    <2>3. CASE ~(n <= Len(s))
        <3>1. SubSeq(s, n, Len(s)) = <<>>
            BY <1>1, <2>1, <2>3
        <3>2. <<>> \in Seq(Char) /\ Len(<<>>) = 0
            OBVIOUS
        <3>3. From(s, n) = <<>>
            BY <3>1 DEF From
        <3>4. 0 < Len(s)
            BY <1>1
        <3> QED
            BY <2>n, <3>2, <3>3, <3>4
    <2> QED
        BY <2>2, <2>3
<1> QED
    BY <1>6, <1>7, <1>8

(* TokensOf is what its definition says: there is such a function.         *)
LEMMA TokensOfIs ==
    /\ TokensOf[<<>>] = <<>>
    /\ \A s \in Seq(Char) : /\ TokensOf[s] \in Seq(Token)
                            /\ s # <<>> => TokensOf[s] = FirstToken(s) \o
                                                TokensOf[From(s, Taken(s) + 1)]
<1> DEFINE Texts == Seq(Char)
           Tokens == Seq(Token)
           after(t) == From(t, Taken(t) + 1)
           size == [t \in Texts |-> Len(t)]
           base == [t \in Texts |-> <<>>]
           less == [t \in Texts |-> IF t = <<>> THEN t ELSE after(t)]
           comb == [t \in Texts |-> [v \in Tokens |->
                       IF t = <<>> THEN v ELSE FirstToken(t) \o v]]
           Right(f) == f = [t \in Texts |-> IF t = <<>> THEN <<>>
                                            ELSE FirstToken(t) \o f[after(t)]]
<1>1. /\ size \in [Texts -> Nat] /\ base \in [Texts -> Tokens]
      /\ comb \in [Texts -> [Tokens -> Tokens]]
    <2>1. ASSUME NEW t \in Texts, NEW v \in Tokens
          PROVE  (IF t = <<>> THEN v ELSE FirstToken(t) \o v) \in Tokens
        BY TakenIs
    <2> QED
        BY <2>1
<1>2. less \in [Texts -> Texts]
    BY TakenIs
<1>3. ASSUME NEW t \in Texts, size[t] # 0 PROVE size[less[t]] < size[t]
    <2>1. t # <<>>
        BY <1>3
    <2>2. less[t] = after(t) /\ size[t] = Len(t) /\ after(t) \in Texts
        BY <2>1, TakenIs
    <2>3. size[after(t)] = Len(after(t)) /\ Len(after(t)) < Len(t)
        BY <2>1, <2>2, TakenIs
    <2> QED
        BY <2>2, <2>3
<1>4. PICK f \in [Texts -> Tokens] : \A t \in Texts : Recurs(f, t, size, base, less, comb)
    <2> HIDE DEF Texts, Tokens, size, base, less, comb
    <2> QED
        BY <1>1, <1>2, <1>3, RecursiveFunction
<1>5. Right(f)
    <2>1. ASSUME NEW t \in Texts
          PROVE  f[t] = IF t = <<>> THEN <<>> ELSE FirstToken(t) \o f[after(t)]
        <3>1. CASE t = <<>>
            <4>1. size[t] = 0 /\ base[t] = <<>>
                BY <3>1
            <4> QED
                BY <1>4, <3>1, <4>1 DEF Recurs
        <3>2. CASE t # <<>>
            <4>1. size[t] # 0 /\ less[t] = after(t) /\ after(t) \in Texts
                BY <3>2, TakenIs
            <4>2. f[after(t)] \in Tokens
                BY <1>4, <4>1
            <4>3. comb[t][f[after(t)]] = FirstToken(t) \o f[after(t)]
                BY <3>2, <4>2
            <4> QED
                BY <1>4, <3>2, <4>1, <4>3 DEF Recurs
        <3> QED
            BY <3>1, <3>2
    <2>2. f = [t \in Texts |-> f[t]]
        BY <1>4
    <2> QED
        BY <2>1, <2>2
<1>6. TokensOf = CHOOSE g : Right(g)
    BY DEF TokensOf
<1>7. Right(TokensOf)
    <2> HIDE DEF Right
    <2> QED
        BY <1>5, <1>6
<1>8. ASSUME NEW t \in Texts
      PROVE  TokensOf[t] = IF t = <<>> THEN <<>> ELSE FirstToken(t) \o TokensOf[after(t)]
    BY <1>7
<1>9. TokensOf[<<>>] = <<>>
    <2>1. <<>> \in Texts
        OBVIOUS
    <2> HIDE DEF Texts
    <2> QED
        BY <1>8, <2>1
<1>10. ASSUME NEW s \in Texts PROVE TokensOf[s] \in Tokens
    <2> DEFINE S == {n \in Nat : \A t \in Texts : Len(t) <= n => TokensOf[t] \in Tokens}
    <2>1. 0 \in S
        <3>1. ASSUME NEW t \in Texts, Len(t) <= 0 PROVE TokensOf[t] \in Tokens
            <4>1. t = <<>> /\ <<>> \in Tokens
                BY <3>1, EmptySeq
            <4> HIDE DEF Texts, Tokens
            <4> QED
                BY <1>9, <4>1
        <3> QED
            BY <3>1
    <2>2. ASSUME NEW n \in Nat, n \in S PROVE n + 1 \in S
        <3>1. ASSUME NEW t \in Texts, Len(t) <= n + 1 PROVE TokensOf[t] \in Tokens
            <4>1. CASE t = <<>>
                <5>1. <<>> \in Tokens
                    OBVIOUS
                <5> HIDE DEF Tokens
                <5> QED
                    BY <1>9, <4>1, <5>1
            <4>2. CASE t # <<>>
                <5>1. after(t) \in Texts /\ Len(after(t)) < Len(t) /\ FirstToken(t) \in Tokens
                    BY <4>2, TakenIs
                <5>2. Len(after(t)) \in Nat /\ Len(t) \in Nat
                    BY <5>1
                <5>3. TokensOf[after(t)] \in Tokens
                    BY <2>2, <3>1, <5>1, <5>2
                <5>4. TokensOf[t] = FirstToken(t) \o TokensOf[after(t)]
                    BY <1>8, <4>2
                <5> HIDE DEF Texts, after
                <5> QED
                    BY <5>1, <5>3, <5>4
            <4> QED
                BY <4>1, <4>2
        <3> QED
            BY <3>1
    <2>3. Nat \subseteq S
        <3> HIDE DEF S
        <3> QED
            BY <2>1, <2>2, SetInduction
    <2>4. Len(s) \in Nat
        OBVIOUS
    <2> QED
        BY <2>3, <2>4
<1> QED
    BY <1>8, <1>9, <1>10

(* If the first token of a text is u, the others are those of the rest.    *)
LEMMA TokensAfter ==
    ASSUME NEW u \in Seq(Char), NEW q \in Seq(Char), u # <<>>, Taken(u \o q) = Len(u)
    PROVE  TokensOf[u \o q] = FirstToken(u \o q) \o TokensOf[q]
<1>1. u \o q \in Seq(Char) /\ From(u \o q, Len(u) + 1) = q
    BY Joined
<1>2. u \o q # <<>>
    BY Joined
<1> QED
    BY <1>1, <1>2, TokensOfIs

(***************************************************************************)
(* Tokens: what comes first in a text of which the beginning is known      *)
(***************************************************************************)
LEMMA CharIs ==
    /\ White \subseteq Char /\ {".", "other", "/", "quote", "nl"} \subseteq Char
    /\ White \cap {".", "other", "/", "quote"} = {}
    /\ \A y \in Char : y \notin White \cup {".", "other", "/", "quote"} => Kinds(y) # {}
    /\ \A y \in White \cup {"/", "quote"} : Kinds(y) = {}
<1>1. /\ White = {"nl", "tab", "space"}
      /\ Char = {"nl", "tab", "space", "digit", ".", "letter", "cmp", "/", "quote", "other"}
    BY DEF Char, White, NumberChar, WordChar, SymbolChar
<1>2. /\ DOMAIN Classes = {"number", "word", "symbol"}
      /\ FirstOf["number"] = {"digit"} /\ FirstOf["word"] = {"letter"}
      /\ FirstOf["symbol"] = {"cmp"}
    BY DEF Classes, FirstOf, SymbolChar
<1>3. \A y : Kinds(y) = {k \in {"number", "word", "symbol"} : y \in FirstOf[k]}
    BY <1>2 DEF Kinds
<1>4. \A y \in White \cup {"/", "quote"} : Kinds(y) = {}
    BY <1>1, <1>2, <1>3
<1>5. \A y \in {"digit", "letter", "cmp"} : Kinds(y) # {}
    BY <1>2, <1>3
<1> QED
    BY <1>1, <1>4, <1>5

LEMMA OneFirst ==
    ASSUME NEW y \in Char, NEW q \in Seq(Char)
    PROVE  /\ <<y>> \in Seq(Char) /\ Len(<<y>>) = 1 /\ <<y>> # <<>>
           /\ (<<y>> \o q)[1] = y
           /\ q # <<>> => Len(<<y>> \o q) > 1 /\ (<<y>> \o q)[2] = q[1]
           /\ q = <<>> => ~(Len(<<y>> \o q) > 1)
<1>1. <<y>> \in Seq(Char) /\ Len(<<y>>) = 1 /\ <<y>> # <<>> /\ <<y>>[1] = y
    OBVIOUS
<1>2. (<<y>> \o q)[1] = y /\ Len(<<y>> \o q) = 1 + Len(q) /\ Len(q) \in Nat
    BY <1>1, Joined
<1>3. q # <<>> => Len(q) >= 1 /\ 1 \in 1 .. Len(q)
    OBVIOUS
<1>4. q # <<>> => (<<y>> \o q)[1 + 1] = q[1]
    BY <1>1, <1>3, Joined
<1>5. q = <<>> => Len(q) = 0
    OBVIOUS
<1> QED
    BY <1>1, <1>2, <1>3, <1>4, <1>5

LEMMA WhiteFirst ==
    ASSUME NEW y \in White, NEW q \in Seq(Char)
    PROVE  TokensOf[<<y>> \o q] = TokensOf[q]
<1> DEFINE s == <<y>> \o q
<1>1. y \in Char /\ y # "/" /\ y # "quote" /\ Kinds(y) = {}
    BY CharIs
<1>2. s[1] = y /\ <<y>> \in Seq(Char) /\ Len(<<y>>) = 1 /\ <<y>> # <<>>
    BY <1>1, OneFirst
<1>3. ~Comments(s)
    BY <1>1, <1>2 DEF Comments
<1>4. Taken(s) = 1 /\ FirstToken(s) = <<>>
    <2> HIDE DEF s
    <2> QED
        BY <1>1, <1>2, <1>3 DEF Taken, FirstToken
<1>5. TokensOf[s] = <<>> \o TokensOf[q] /\ TokensOf[q] \in Seq(Token)
    BY <1>2, <1>4, TokensAfter, TokensOfIs
<1> HIDE DEF s
<1>6. TokensOf[s] = TokensOf[q]
    BY <1>5
<1> QED
    BY <1>6 DEF s

LEMMA CommentFirst ==
    ASSUME NEW c \in Seq(Char), NEW q \in Seq(Char), Len(c) > 1, c[1] = "/", c[2] = "/",
           \A i \in 1 .. Len(c) : c[i] # "nl", q = <<>> \/ q[1] = "nl"
    PROVE  TokensOf[c \o q] = TokensOf[q]
<1> DEFINE s == c \o q
<1>1. 1 \in 1 .. Len(c) /\ 2 \in 1 .. Len(c) /\ Len(q) \in Nat /\ Len(c) \in Nat
    OBVIOUS
<1>2. s[1] = "/" /\ s[2] = "/" /\ Len(s) > 1
    BY <1>1, Joined
<1>3. Comments(s)
    <2> HIDE DEF s
    <2> QED
        BY <1>2 DEF Comments
<1>4. \A i \in 1 .. Len(c) : c[i] \in Char \ {"nl"}
    OBVIOUS
<1>5. Prefix(s, Char \ {"nl"}) = Len(c)
    BY <1>4, PrefixOf
<1>6. Taken(s) = Len(c) /\ FirstToken(s) = <<>>
    <2> HIDE DEF s
    <2> QED
        BY <1>2, <1>3, <1>5, CharIs DEF Taken, FirstToken
<1>7. c # <<>>
    BY <1>1
<1>8. TokensOf[s] = <<>> \o TokensOf[q] /\ TokensOf[q] \in Seq(Token)
    BY <1>6, <1>7, TokensAfter, TokensOfIs
<1> HIDE DEF s
<1>9. TokensOf[s] = TokensOf[q]
    BY <1>8
<1> QED
    BY <1>9 DEF s

LEMMA SymbolFirst ==
    ASSUME NEW y \in {".", "other", "/"}, NEW q \in Seq(Char),
           y = "/" => q = <<>> \/ q[1] # "/"
    PROVE  TokensOf[<<y>> \o q] = <<[type |-> "symbol", token |-> <<y>>]>> \o TokensOf[q]
<1> DEFINE s == <<y>> \o q
<1>1. y \in Char /\ y \notin White /\ y # "quote" /\ Kinds(y) = {}
    BY CharIs, KindIs
<1>2. /\ s[1] = y /\ <<y>> \in Seq(Char) /\ Len(<<y>>) = 1 /\ <<y>> # <<>>
      /\ q # <<>> => s[2] = q[1]
      /\ q = <<>> => ~(Len(s) > 1)
    BY <1>1, OneFirst
<1>3. ~Comments(s)
    <2> HIDE DEF s
    <2> QED
        BY <1>1, <1>2 DEF Comments
<1>4. Taken(s) = 1 /\ FirstToken(s) = <<[type |-> "symbol", token |-> <<y>>]>>
    <2> HIDE DEF s
    <2> QED
        BY <1>1, <1>2, <1>3 DEF Taken, FirstToken
<1> QED
    BY <1>2, <1>4, TokensAfter

(* Nothing fits that begins with a token that is too long.                 *)
LEMMA FitsParts ==
    ASSUME NEW a \in Seq(Token), NEW b \in Seq(Token), Fits(a \o b)
    PROVE  Fits(a) /\ Fits(b)
<1>1. /\ Len(a \o b) = Len(a) + Len(b) /\ Len(a) \in Nat /\ Len(b) \in Nat
      /\ DOMAIN (a \o b) = 1 .. Len(a) + Len(b)
      /\ DOMAIN a = 1 .. Len(a) /\ DOMAIN b = 1 .. Len(b)
    OBVIOUS
<1>2. \A i \in 1 .. Len(a) : (a \o b)[i] = a[i]
    OBVIOUS
<1>3. \A i \in 1 .. Len(b) : (a \o b)[Len(a) + i] = b[i]
    OBVIOUS
<1> DEFINE ab == a \o b
           Ok(t) == t.type \in {"string", "symbol"} => Len(t.token) <= MaxToken
<1>4. \A i \in 1 .. Len(a) + Len(b) : Ok(ab[i])
    BY <1>1 DEF Fits
<1> HIDE DEF ab, Ok
<1>5. \A i \in 1 .. Len(a) : Ok(a[i])
    <2>1. \A i \in 1 .. Len(a) : i \in 1 .. Len(a) + Len(b)
        BY <1>1
    <2> QED
        BY <1>2, <1>4, <2>1 DEF ab
<1>6. \A i \in 1 .. Len(b) : Ok(b[i])
    <2>1. \A i \in 1 .. Len(b) : Len(a) + i \in 1 .. Len(a) + Len(b)
        BY <1>1
    <2> QED
        BY <1>3, <1>4, <2>1 DEF ab
<1> QED
    BY <1>1, <1>5, <1>6 DEF Ok, Fits

LEMMA TooLong ==
    ASSUME NEW s \in Seq(Char), s # <<>>, NEW t, FirstToken(s) = <<t>>,
           t.type \in {"string", "symbol"}, ~(Len(t.token) <= MaxToken)
    PROVE  ~Fits(TokensOf[s])
<1>1. /\ TokensOf[s] = FirstToken(s) \o TokensOf[From(s, Taken(s) + 1)]
      /\ FirstToken(s) \in Seq(Token) /\ TokensOf[From(s, Taken(s) + 1)] \in Seq(Token)
    BY TokensOfIs, TakenIs
<1>2. Fits(TokensOf[s]) => Fits(<<t>>)
    BY <1>1, FitsParts
<1>3. ~Fits(<<t>>)
    <2>1. 1 \in DOMAIN <<t>> /\ <<t>>[1] = t
        OBVIOUS
    <2> QED
        BY <2>1 DEF Fits
<1> QED
    BY <1>2, <1>3

LEMMA FrontOf ==
    ASSUME NEW u \in Seq(Char), NEW q \in Seq(Char)
    PROVE  SubSeq(u \o q, 1, Len(u)) = u
<1> DEFINE s == u \o q
           f == SubSeq(s, 1, Len(u))
<1>1. /\ s \in Seq(Char) /\ Len(s) = Len(u) + Len(q) /\ Len(u) \in Nat /\ Len(q) \in Nat
      /\ \A i \in 1 .. Len(u) : s[i] = u[i]
    BY Joined
<1>2. f \in Seq(Char) /\ Len(f) = Len(u) /\ \A i \in 1 .. Len(u) : f[i] = s[i]
    <2>1. Len(u) <= Len(s)
        BY <1>1
    <2> HIDE DEF s
    <2> QED
        BY <1>1, <2>1
<1> HIDE DEF s, f
<1>3. \A i \in 1 .. Len(u) : f[i] = u[i]
    BY <1>1, <1>2
<1>4. f = u
    BY <1>2, <1>3, SeqEqual
<1> QED
    BY <1>4 DEF f, s

LEMMA WordFirst ==
    ASSUME NEW k \in DOMAIN Classes, NEW u \in Seq(Char), NEW q \in Seq(Char),
           u # <<>>, u[1] \in FirstOf[k], \A i \in 1 .. Len(u) : u[i] \in Classes[k]
    PROVE  /\ q = <<>> \/ q[1] \notin Classes[k] =>
                TokensOf[u \o q] = <<[type |-> k, token |-> u]>> \o TokensOf[q]
           /\ q # <<>> /\ q[1] \in Classes[k] /\ k = "symbol" /\ Len(u) >= MaxToken =>
                ~Fits(TokensOf[u \o q])
<1> DEFINE s == u \o q
           n == Prefix(s, Classes[k])
<1>1. /\ s \in Seq(Char) /\ Len(s) = Len(u) + Len(q) /\ s[1] = u[1] /\ s # <<>>
      /\ Len(u) \in Nat \ {0} /\ Len(q) \in Nat
    <2>1. Len(u) \in Nat \ {0} /\ 1 \in 1 .. Len(u)
        OBVIOUS
    <2>2. s \in Seq(Char) /\ Len(s) = Len(u) + Len(q) /\ s[1] = u[1] /\ Len(q) \in Nat
        BY <2>1, Joined
    <2>3. s # <<>>
        BY <2>1, <2>2
    <2> QED
        BY <2>1, <2>2, <2>3
<1>2. /\ Kinds(s[1]) = {k} /\ Kind(s[1]) = k
      /\ s[1] \notin White \cup {"/", "quote"}
    BY <1>1, KindIs
<1>3. /\ Taken(s) = n
      /\ FirstToken(s) = <<[type |-> k, token |-> SubSeq(s, 1, n)]>>
    <2> HIDE DEF s
    <2>1. ~Comments(s) /\ s[1] # "quote" /\ Kinds(s[1]) # {} /\ s[1] \notin White
        BY <1>2 DEF Comments
    <2>2. Taken(s) = Prefix(s, Classes[k])
        BY <1>2, <2>1 DEF Taken
    <2>3. FirstToken(s) = <<[type |-> k, token |-> SubSeq(s, 1, Taken(s))]>>
        BY <1>2, <2>1 DEF FirstToken
    <2> QED
        BY <2>2, <2>3
<1>4. ASSUME q = <<>> \/ q[1] \notin Classes[k]
      PROVE  TokensOf[s] = <<[type |-> k, token |-> u]>> \o TokensOf[q]
    <2>1. n = Len(u)
        BY <1>4, PrefixOf
    <2>2. SubSeq(s, 1, n) = u
        BY <2>1, FrontOf
    <2>3. TokensOf[s] = FirstToken(s) \o TokensOf[q]
        BY <1>3, <2>1, TokensAfter
    <2> QED
        BY <1>3, <2>2, <2>3
<1>5. ASSUME q # <<>>, q[1] \in Classes[k], k = "symbol", Len(u) >= MaxToken
      PROVE  ~Fits(TokensOf[s])
    <2> DEFINE t == [type |-> k, token |-> SubSeq(s, 1, n)]
    <2>1. n > Len(u) /\ n \in 0 .. Len(s)
        BY <1>1, <1>5, PrefixOf, PrefixIs
    <2> HIDE DEF s, n
    <2>2. Len(SubSeq(s, 1, n)) = n
        BY <1>1, <2>1
    <2>3. ~(n <= MaxToken)
        BY <1>1, <1>5, <2>1, ScannerAssumption
    <2>4. t.type \in {"string", "symbol"} /\ ~(Len(t.token) <= MaxToken)
        BY <1>5, <2>2, <2>3
    <2>5. FirstToken(s) = <<t>>
        BY <1>3
    <2> HIDE DEF t
    <2> QED
        BY <1>1, <2>4, <2>5, TooLong
<1> QED
    BY <1>4, <1>5

(* What Quoted says of a text that begins with a quote. *)
LEMMA QuotedIs ==
    ASSUME NEW v \in Seq(Char)
    PROVE  /\ <<"quote">> \o v \in Seq(Char) /\ <<"quote">> \o v # <<>>
           /\ Quoted(<<"quote">> \o v) = Prefix(v, Char \ {"quote"})
           /\ Taken(<<"quote">> \o v) = Prefix(v, Char \ {"quote"}) + 2
           /\ FirstToken(<<"quote">> \o v) =
                <<[type |-> "string",
                   token |-> SubSeq(v, 1, Prefix(v, Char \ {"quote"}))]>>
<1> DEFINE s == <<"quote">> \o v
           n == Prefix(v, Char \ {"quote"})
<1>1. "quote" \in Char
    BY CharIs
<1>2. /\ s \in Seq(Char) /\ s[1] = "quote" /\ Len(s) = Len(v) + 1 /\ Len(v) \in Nat
      /\ \A i \in 1 .. Len(v) : s[1 + i] = v[i]
    BY <1>1, OneFirst, Joined
<1>3. s # <<>>
    BY <1>2
<1>4. Tail(s) = v
    <2> HIDE DEF s
    <2> DEFINE t == Tail(s)
    <2>1. t \in Seq(Char) /\ Len(t) = Len(v) /\ \A i \in 1 .. Len(v) : t[i] = s[i + 1]
        BY <1>2, <1>3
    <2>2. \A i \in 1 .. Len(v) : t[i] = v[i]
        <3>1. \A i \in 1 .. Len(v) : i + 1 = 1 + i
            OBVIOUS
        <3> HIDE DEF t
        <3> QED
            BY <1>2, <2>1, <3>1
    <2> HIDE DEF t
    <2>3. t = v
        BY <2>1, <2>2, SeqEqual
    <2> QED
        BY <2>3 DEF t
<1>5. Quoted(s) = n
    <2> HIDE DEF s
    <2> QED
        BY <1>4 DEF Quoted
<1>6. n \in 0 .. Len(v)
    BY PrefixIs
<1>7. /\ Taken(s) = n + 2
      /\ FirstToken(s) = <<[type |-> "string", token |-> SubSeq(s, 2, n + 1)]>>
    <2> HIDE DEF s, n
    <2>1. ~Comments(s) /\ s[1] \notin White /\ s[1] = "quote"
        BY <1>2, CharIs DEF Comments
    <2>2. Kinds(s[1]) = {}
        BY <2>1, CharIs
    <2> QED
        BY <1>5, <2>1, <2>2 DEF Taken, FirstToken
<1>8. SubSeq(s, 2, n + 1) = SubSeq(v, 1, n)
    <2> DEFINE f == SubSeq(s, 2, n + 1)
               g == SubSeq(v, 1, n)
    <2>1. n \in Nat /\ n <= Len(v) /\ n + 1 <= Len(s) /\ n + 1 \in Nat
        BY <1>2, <1>6
    <2> HIDE DEF s, n
    <2>2. f \in Seq(Char) /\ Len(f) = n /\ \A i \in 1 .. n : f[i] = s[1 + i]
        <3>1. n + 1 - 2 + 1 = n /\ \A i \in 1 .. n : 2 + i - 1 = 1 + i
            BY <2>1
        <3> QED
            BY <1>2, <2>1, <3>1
    <2>3. g \in Seq(Char) /\ Len(g) = n /\ \A i \in 1 .. n : g[i] = v[i]
        BY <2>1
    <2> HIDE DEF f, g
    <2>4. \A i \in 1 .. n : f[i] = g[i]
        <3>1. \A i \in 1 .. n : i \in 1 .. Len(v)
            BY <1>2, <2>1
        <3> QED
            BY <1>2, <2>2, <2>3, <3>1
    <2>5. f = g
        BY <2>2, <2>3, <2>4, SeqEqual
    <2> QED
        BY <2>5 DEF f, g
<1> QED
    BY <1>2, <1>3, <1>5, <1>7, <1>8

LEMMA StringFirst ==
    ASSUME NEW u \in Seq(Char), \A i \in 1 .. Len(u) : u[i] # "quote"
    PROVE  /\ TokensOf[<<"quote">> \o u] = <<[type |-> "string", token |-> u]>>
           /\ \A q \in Seq(Char) :
                TokensOf[<<"quote">> \o (u \o (<<"quote">> \o q))] =
                    <<[type |-> "string", token |-> u]>> \o TokensOf[q]
           /\ \A q \in Seq(Char) : q # <<>> /\ q[1] # "quote" /\ Len(u) >= MaxToken =>
                ~Fits(TokensOf[<<"quote">> \o (u \o q)])
<1> DEFINE C == Char \ {"quote"}
           Q == <<"quote">>
           t == [type |-> "string", token |-> u]
<1>1. \A i \in 1 .. Len(u) : u[i] \in C
    OBVIOUS
<1>2. Q \in Seq(Char) /\ Len(Q) = 1 /\ Len(u) \in Nat
    BY CharIs
<1>3. <<>> \in Seq(Char) /\ Len(<<>>) = 0 /\ u \o <<>> = u
    OBVIOUS
<1>4. TokensOf[Q \o u] = <<t>>
    <2>1. Prefix(u, C) = Len(u)
        <3>1. Prefix(u \o <<>>, C) = Len(u)
            <4> HIDE DEF C
            <4> QED
                BY <1>1, <1>3, PrefixOf
        <3> QED
            BY <1>3, <3>1
    <2>2. SubSeq(u, 1, Len(u)) = u
        OBVIOUS
    <2> DEFINE s == Q \o u
    <2>3. /\ s \in Seq(Char) /\ s # <<>> /\ Taken(s) = Len(u) + 2 /\ FirstToken(s) = <<t>>
        BY <2>1, <2>2, QuotedIs
    <2>4. Len(s) = Len(u) + 1
        BY <1>2, Joined
    <2>5. From(s, Taken(s) + 1) = <<>>
        <3> HIDE DEF s
        <3>1. SubSeq(s, Len(u) + 3, Len(s)) = <<>>
            BY <1>2, <2>3, <2>4
        <3>2. Len(u) + 2 + 1 = Len(u) + 3
            BY <1>2
        <3> QED
            BY <2>3, <3>1, <3>2 DEF From
    <2>6. TokensOf[s] = FirstToken(s) \o <<>> /\ FirstToken(s) \in Seq(Token)
        BY <2>3, <2>5, TokensOfIs, TakenIs
    <2> HIDE DEF s
    <2>7. TokensOf[s] = <<t>>
        BY <2>3, <2>6
    <2> QED
        BY <2>7 DEF s
<1>5. ASSUME NEW q \in Seq(Char)
      PROVE  TokensOf[Q \o (u \o (Q \o q))] = <<t>> \o TokensOf[q]
    <2> DEFINE r == Q \o q
               s == Q \o (u \o r)
               w == Q \o (u \o Q)
    <2>1. r \in Seq(Char) /\ r # <<>> /\ r[1] = "quote"
        BY <1>2, <1>5, OneFirst, Joined, CharIs
    <2>2. Prefix(u \o r, C) = Len(u)
        <3>1. r[1] \notin C
            BY <2>1
        <3> HIDE DEF r, C
        <3> QED
            BY <1>1, <2>1, <3>1, PrefixOf
    <2>3. u \o r \in Seq(Char) /\ SubSeq(u \o r, 1, Len(u)) = u
        BY <2>1, FrontOf, Joined
    <2>4. Taken(s) = Len(u) + 2 /\ FirstToken(s) = <<t>>
        BY <2>2, <2>3, QuotedIs
    <2>5. w \in Seq(Char) /\ Len(w) = Len(u) + 2 /\ w # <<>>
        BY <1>2
    <2>6. s = w \o q
        BY <1>2, <1>5
    <2>7. TokensOf[w \o q] = FirstToken(w \o q) \o TokensOf[q]
        <3> HIDE DEF w, s
        <3> QED
            BY <2>4, <2>5, <2>6, TokensAfter
    <2> QED
        BY <2>4, <2>6, <2>7
<1>6. ASSUME NEW q \in Seq(Char), q # <<>>, q[1] # "quote", Len(u) >= MaxToken
      PROVE  ~Fits(TokensOf[Q \o (u \o q)])
    <2> DEFINE v == u \o q
               n == Prefix(v, C)
               tk == [type |-> "string", token |-> SubSeq(v, 1, n)]
    <2>1. q[1] \in C
        BY <1>6
    <2>2. n > Len(u)
        <3> HIDE DEF C
        <3> QED
            BY <1>1, <1>6, <2>1, PrefixOf
    <2>3. v \in Seq(Char) /\ n \in 0 .. Len(v)
        BY Joined, PrefixIs
    <2>4. Q \o v \in Seq(Char) /\ Q \o v # <<>> /\ FirstToken(Q \o v) = <<tk>>
        BY <2>3, QuotedIs
    <2> HIDE DEF v, n
    <2>5. Len(SubSeq(v, 1, n)) = n
        BY <2>3
    <2>6. ~(n <= MaxToken)
        BY <1>2, <1>6, <2>2, <2>3, ScannerAssumption
    <2>7. tk.type = "string" /\ ~(Len(tk.token) <= MaxToken)
        BY <2>5, <2>6
    <2> HIDE DEF tk
    <2>8. ~Fits(TokensOf[Q \o v])
        BY <2>4, <2>7, TooLong
    <2> QED
        BY <2>8 DEF v
<1> QED
    BY <1>4, <1>5, <1>6

(***************************************************************************)
(* Tokens: the invariant                                                   *)
(***************************************************************************)

(* A text that goes on after p with a character of F has the tokens ts and *)
(* those of what goes on; so has p itself.                                 *)
Boundary(p, ts, F) ==
    \A q \in Seq(Char) : q = <<>> \/ q[1] \in F =>
        (Fits(TokensOf[p \o q]) => TokensOf[p \o q] = ts \o TokensOf[q])

(* What begins with u and goes on with a character of G begins with tk.    *)
Splits(u, tk, G) ==
    \A q \in Seq(Char) : q = <<>> \/ q[1] \in G =>
        (Fits(TokensOf[u \o q]) => TokensOf[u \o q] = tk \o TokensOf[q])

(* What the next call can begin with. *)
Follows == IF pb = <<>> THEN Char ELSE {pb[1]}

First(u) == IF u = <<>> THEN {} ELSE {u[1]}

(* The character that was read but not yet used. *)
Ahead == IF eof THEN <<>> ELSE <<x>>

(* The scanner has c of the token or of the comment that it is in.         *)
Held(c) ==
    /\ state \in {"top", "slash", "comment"} => token = <<>>
    /\ state = "top" => c = <<>>
    /\ state = "slash" => c = <<"/">>
    /\ state = "comment" =>
          /\ c # <<>> /\ c[1] = "/" /\ \A i \in 1 .. Len(c) : c[i] # "nl"
          /\ IF Len(c) = 1 THEN ~eof /\ x = "/" ELSE c[2] = "/"
    /\ state = "string" =>
          c = <<"quote">> \o token /\ \A i \in 1 .. Len(token) : token[i] # "quote"
    /\ state \in DOMAIN Classes =>
          /\ c = token /\ \A i \in 1 .. Len(token) : token[i] \in Classes[state]
          /\ IF token = <<>> THEN ~eof /\ x \in FirstOf[state] ELSE token[1] \in FirstOf[state]

Running(p, c) ==
    /\ text = p \o (c \o Ahead)
    /\ Boundary(p, tokens, First(c \o Ahead))
    /\ Held(c)

TokensInv ==
    IF state = "idle"
    THEN IF eof
         THEN Fits(TokensOf[text]) /\ ~EndsInSlash(TokensOf[text]) => tokens = TokensOf[text]
         ELSE Boundary(Consumed, tokens, Follows)
    ELSE /\ eof => x = EOF
         /\ \E p, c \in Seq(Char) : Running(p, c)

LEMMA Assoc == \A a, b, c \in Seq(Char) : (a \o b) \o c = a \o (b \o c)
    BY ConcatAssociative

(* The same as a named relation, which is quicker to find where there are   *)
(* many sequences.                                                          *)
Rejoins(a, b, c) == (a \o b) \o c = a \o (b \o c)

LEMMA Rejoined == \A a, b, c \in Seq(Char) : Rejoins(a, b, c)
    BY Assoc DEF Rejoins

LEMMA AssocTokens == \A a, b, c \in Seq(Token) : (a \o b) \o c = a \o (b \o c)
    BY ConcatAssociative

LEMMA NoneFits ==
    /\ <<>> \in Seq(Char) /\ <<>> \in Seq(Token) /\ TokensOf[<<>>] = <<>>
    /\ \A q \in Seq(Char) : q \o <<>> = q /\ <<>> \o q = q /\ (q # <<>> => 1 \in 1 .. Len(q))
    /\ \A ts \in Seq(Token) : ts \o <<>> = ts /\ <<>> \o ts = ts
    BY TokensOfIs

LEMMA BoundaryNext ==
    ASSUME NEW p \in Seq(Char), NEW u \in Seq(Char), u # <<>>,
           NEW ts \in Seq(Token), NEW tk \in Seq(Token), NEW F, NEW G,
           Boundary(p, ts, F), u[1] \in F,
           \A q \in Seq(Char) : q = <<>> \/ q[1] \in G =>
               (Fits(TokensOf[u \o q]) => TokensOf[u \o q] = tk \o TokensOf[q])
    PROVE  Boundary(p \o u, ts \o tk, G)
<1> SUFFICES ASSUME NEW q \in Seq(Char), q = <<>> \/ q[1] \in G,
                    Fits(TokensOf[(p \o u) \o q])
             PROVE  TokensOf[(p \o u) \o q] = (ts \o tk) \o TokensOf[q]
    BY DEF Boundary
<1>1. (p \o u) \o q = p \o (u \o q) /\ u \o q \in Seq(Char)
    BY SMTT(30), Assoc
<1>2. (u \o q)[1] = u[1]
    BY NoneFits, Joined
<1>3. TokensOf[p \o (u \o q)] = ts \o TokensOf[u \o q]
    <2> DEFINE r == u \o q
    <2>1. r \in Seq(Char) /\ r[1] \in F /\ Fits(TokensOf[p \o r])
        BY <1>1, <1>2
    <2> HIDE DEF r
    <2>2. TokensOf[p \o r] = ts \o TokensOf[r]
        BY <2>1 DEF Boundary
    <2> QED
        BY <2>2 DEF r
<1>4. TokensOf[u \o q] \in Seq(Token) /\ TokensOf[q] \in Seq(Token)
    BY <1>1, TokensOfIs
<1>5. Fits(TokensOf[u \o q])
    <2>1. Fits(ts \o TokensOf[u \o q])
        BY <1>1, <1>3
    <2> QED
        BY <1>4, <2>1, FitsParts
<1>6. TokensOf[u \o q] = tk \o TokensOf[q]
    BY <1>5
<1>7. ts \o (tk \o TokensOf[q]) = (ts \o tk) \o TokensOf[q]
    <2>1. PICK w : w = TokensOf[q]
        OBVIOUS
    <2>2. w \in Seq(Token)
        BY <1>4, <2>1
    <2>3. (ts \o tk) \o w = ts \o (tk \o w)
        BY <2>2, AssocTokens, Zenon
    <2> QED
        BY <2>1, <2>3
<1> QED
    BY <1>1, <1>3, <1>6, <1>7

LEMMA BoundaryLess ==
    ASSUME NEW p, NEW ts, NEW F, NEW G, Boundary(p, ts, F), G \subseteq F
    PROVE  Boundary(p, ts, G)
    BY DEF Boundary

(* What scan_char adds to the text while the scanner runs. *)
LEMMA ReadOn ==
    ASSUME ScanInv, state # "idle", ~eof, ScanChar,
           NEW p \in Seq(Char), NEW c \in Seq(Char), text = p \o (c \o Ahead)
    PROVE  /\ x \in Char /\ Ahead = <<x>> /\ c \o <<x>> \in Seq(Char) /\ c \o <<x>> # <<>>
           /\ Ahead' \in Seq(Char) /\ text' = p \o ((c \o <<x>>) \o Ahead')
           /\ First((c \o <<x>>) \o Ahead') = First(c \o Ahead)
           /\ eof' => x' = EOF
<1>1. /\ pb = <<>> /\ x \in Char /\ text \in Seq(Char) /\ eof \in BOOLEAN
    BY DEF ScanInv, TypeOK, AheadInv
<1>2. Ahead = <<x>>
    BY DEF Ahead
<1>3. PICK y \in Char \cup {EOF} : Get(y) /\ x' = y
    BY DEF ScanChar
<1>4. \/ eof' /\ text' = text /\ x' = EOF
      \/ ~eof' /\ text' = Append(text, x') /\ x' \in Char
    BY <1>1, <1>3 DEF Get
<1>5. c \o <<x>> \in Seq(Char) /\ c \o <<x>> # <<>> /\ <<x>> \in Seq(Char)
    <2>1. <<x>> \in Seq(Char) /\ Len(<<x>>) = 1
        BY <1>1
    <2>2. c \o <<x>> \in Seq(Char) /\ Len(c \o <<x>>) = Len(c) + 1 /\ Len(c) \in Nat
        BY <2>1
    <2>3. Len(c \o <<x>>) # 0
        BY <2>2
    <2> QED
        BY <2>1, <2>2, <2>3
<1> DEFINE d == c \o <<x>>
<1>6. text = p \o d
    BY <1>2
<1> HIDE DEF d
<1>d. d \in Seq(Char) /\ d # <<>>
    BY <1>5 DEF d
<1>7. Ahead' \in Seq(Char) /\ text' = p \o (d \o Ahead')
    <2>1. CASE eof'
        <3>1. Ahead' = <<>>
            BY <2>1 DEF Ahead
        <3> QED
            BY <1>4, <1>6, <1>d, <2>1, <3>1, NoneFits
    <2>2. CASE ~eof'
        <3>1. Ahead' = <<x'>> /\ x' \in Char
            BY <1>4, <2>2 DEF Ahead
        <3>2. <<x'>> \in Seq(Char)
            BY <3>1
        <3>3. text' = text \o <<x'>>
            <4>1. PICK z : z = x'
                OBVIOUS
            <4>2. Append(text, z) = text \o <<z>>
                BY <1>1, <3>1, <4>1
            <4> QED
                BY <1>4, <2>2, <4>1, <4>2
        <3> QED
            BY <1>6, <1>d, <3>1, <3>2, <3>3, Assoc
    <2> QED
        BY <2>1, <2>2
<1>8. First(d \o Ahead') = First(d)
    <2>1. 1 \in 1 .. Len(d) /\ Len(d) \in Nat
        BY <1>d
    <2>2. (d \o Ahead')[1] = d[1] /\ Len(d \o Ahead') = Len(d) + Len(Ahead') /\ Len(Ahead') \in Nat
        BY <1>d, <1>7, <2>1, Joined
    <2>3. Len(d \o Ahead') # 0
        BY <2>1, <2>2
    <2>4. d \o Ahead' # <<>>
        BY <2>3
    <2> QED
        BY <1>d, <2>2, <2>4 DEF First
<1> QED
    BY <1>1, <1>2, <1>4, <1>5, <1>7, <1>8 DEF d

(* A step within a call. *)
LEMMA GoesOn ==
    ASSUME state' # "idle", eof' => x' = EOF, tokens' = tokens,
           NEW p \in Seq(Char), NEW c \in Seq(Char), NEW F,
           text' = p \o (c \o Ahead'), Boundary(p, tokens, F), First(c \o Ahead') \subseteq F,
           Held(c)'
    PROVE  TokensInv'
<1>1. Boundary(p, tokens', First(c \o Ahead'))
    BY BoundaryLess
<1>2. Running(p, c)'
    BY <1>1 DEF Running
<1> QED
    BY <1>2 DEF TokensInv

LEMMA ReadsOn ==
    ASSUME ScanInv, state # "idle", ~eof, ScanChar, tokens' = tokens, state' # "idle",
           NEW p \in Seq(Char), NEW c \in Seq(Char), Running(p, c),
           NEW d, d = c \o <<x>>, Held(d)'
    PROVE  TokensInv'
<1>1. text = p \o (c \o Ahead) /\ Boundary(p, tokens, First(c \o Ahead))
    BY DEF Running
<1>2. /\ d \in Seq(Char) /\ text' = p \o (d \o Ahead')
      /\ First(d \o Ahead') \subseteq First(c \o Ahead) /\ (eof' => x' = EOF)
    BY <1>1, ReadOn
<1> QED
    BY <1>1, <1>2, GoesOn

(* A step that returns a token, u, after which the text goes on with a     *)
(* character of G.                                                         *)
LEMMA Returned ==
    ASSUME ScanInv, NEW p \in Seq(Char), NEW u \in Seq(Char), u # <<>>, NEW F, u[1] \in F,
           Boundary(p, tokens, F), NEW tk \in Token, NEW G, Splits(u, <<tk>>, G),
           state' = "idle", tokens' = Append(tokens, tk),
           eof' => text' = p \o u, ~eof' => Consumed' = p \o u,
           ~eof' => Follows' \subseteq G
    PROVE  TokensInv'
<1>1. tokens \in Seq(Token) /\ <<tk>> \in Seq(Token) /\ tokens' = tokens \o <<tk>>
    <2>1. tokens \in Seq(Token)
        BY DEF ScanInv, TypeOK
    <2> QED
        BY <2>1
<1>2. Boundary(p \o u, tokens', G)
    <2>1. Boundary(p \o u, tokens \o <<tk>>, G)
        BY <1>1, BoundaryNext DEF Splits
    <2> QED
        BY <1>1, <2>1
<1>3. CASE eof'
    <2>1. p \o u \in Seq(Char) /\ (p \o u) \o <<>> = p \o u /\ text' = p \o u
        BY <1>3, NoneFits
    <2>2. Fits(TokensOf[p \o u]) => TokensOf[p \o u] = tokens' \o <<>>
        BY <1>2, <2>1, NoneFits DEF Boundary
    <2>3. tokens' \o <<>> = tokens'
        BY <1>1
    <2> QED
        BY <1>3, <2>1, <2>2, <2>3 DEF TokensInv
<1>4. CASE ~eof'
    <2>1. Boundary(p \o u, tokens', Follows')
        BY <1>2, <1>4, BoundaryLess
    <2>2. Boundary(Consumed, tokens, Follows)'
        BY <1>4, <2>1
    <2> QED
        BY <1>4, <2>2 DEF TokensInv
<1> QED
    BY <1>3, <1>4

(* What is consumed when a step has returned. *)
LEMMA ConsumedAll ==
    ASSUME text' \in Seq(Char), pb' = <<>> PROVE Consumed' = text'
<1>1. Len(pb') = 0 /\ Len(text') - 0 = Len(text') /\ SubSeq(text', 1, Len(text')) = text'
    OBVIOUS
<1> QED
    BY <1>1 DEF Consumed

LEMMA ConsumedButOne ==
    ASSUME NEW p \in Seq(Char), NEW y \in Char, text' = p \o <<y>>, pb' = <<y>>
    PROVE  Consumed' = p
<1>1. Len(pb') = 1 /\ <<y>> \in Seq(Char) /\ Len(<<y>>) = 1
    OBVIOUS
<1>2. Len(text') - Len(pb') = Len(p)
    BY <1>1
<1>3. SubSeq(p \o <<y>>, 1, Len(p)) = p
    BY <1>1, FrontOf
<1> QED
    BY <1>2, <1>3 DEF Consumed

(***************************************************************************)
(* Tokens: each action preserves the invariant                             *)
(***************************************************************************)
LEMMA CallTokens == ASSUME ScanInv, TokensInv, Call PROVE TokensInv'
<1>1. state = "idle" /\ text \in Seq(Char) /\ pb \in Seq(Char) /\ eof \in BOOLEAN
    BY DEF Call, ScanInv, TypeOK
<1>2. CASE eof
    <2>1. /\ state' = "idle" /\ tokens' = tokens /\ UNCHANGED <<eof, text>>
        BY <1>2 DEF Call, Return, input
    <2> QED
        BY <1>1, <1>2, <2>1 DEF TokensInv, EndsInSlash
<1>3. CASE ~eof
    <2>1. ScanChar /\ state' = "top" /\ token' = <<>> /\ tokens' = tokens
        BY <1>3 DEF Call
    <2>2. PICK y \in Char \cup {EOF} : Get(y) /\ x' = y
        BY <2>1 DEF ScanChar
    <2> DEFINE F == IF pb = <<>> THEN Char ELSE {pb[1]}
    <2>3. Boundary(Consumed, tokens, F)
        BY <1>1, <1>3 DEF TokensInv, Follows
    <2>4. Consumed \in Seq(Char)
        BY <1>1, ConsumedIs, ButLastIs DEF ScanInv, AheadInv, ButLast
    <2>5. /\ text' = Consumed \o Ahead' /\ First(Ahead') \subseteq F
          /\ eof' => x' = EOF
        <3>1. CASE pb # <<>>
            <4>1. y = pb[1] /\ eof' = eof /\ text' = text
                BY <1>1, <2>2, <3>1 DEF Get
            <4>2. Ahead' = <<y>>
                BY <1>3, <2>2, <4>1 DEF Ahead
            <4>3. text # <<>> /\ y = text[Len(text)] /\ Consumed = ButLast(text)
                BY <3>1, <4>1, ConsumedIs DEF ScanInv, AheadInv, ButLast
            <4>4. ButLast(text) \o <<text[Len(text)]>> = text
                <5> DEFINE b == ButLast(text)
                           z == text[Len(text)]
                <5>1. /\ b \in Seq(Char) /\ Len(b) = Len(text) - 1
                      /\ Len(text) \in Nat \ {0} /\ z \in Char
                    BY <1>1, <4>3, ButLastIs
                <5>2. \A i \in 1 .. Len(text) - 1 : b[i] = text[i]
                    BY <1>1, <5>1 DEF ButLast
                <5> DEFINE a == b \o <<z>>
                <5>3. /\ a \in Seq(Char) /\ Len(a) = Len(text)
                      /\ \A i \in 1 .. Len(text) : a[i] = text[i]
                    <6> HIDE DEF b
                    <6>1. <<z>> \in Seq(Char) /\ Len(<<z>>) = 1 /\ <<z>>[1] = z
                        BY <5>1
                    <6>2. /\ a \in Seq(Char) /\ Len(a) = Len(b) + 1
                          /\ \A i \in 1 .. Len(b) : a[i] = b[i]
                          /\ a[Len(b) + 1] = z
                        <7> HIDE DEF z
                        <7> QED
                            BY <5>1, <6>1
                    <6> HIDE DEF a
                    <6>3. ASSUME NEW i \in 1 .. Len(text) PROVE a[i] = text[i]
                        <7>1. i \in 1 .. Len(b) \/ i = Len(b) + 1
                            BY <5>1
                        <7>2. i = Len(b) + 1 => i = Len(text)
                            BY <5>1
                        <7> QED
                            BY <5>1, <5>2, <6>2, <7>1, <7>2
                    <6> QED
                        BY <5>1, <6>2, <6>3
                <5> HIDE DEF a
                <5>4. a = text
                    BY <1>1, <5>3, SeqEqual
                <5> QED
                    BY <5>4 DEF a
            <4> QED
                BY <1>3, <3>1, <4>1, <4>2, <4>3, <4>4 DEF First
        <3>2. CASE pb = <<>> /\ ~eof'
            <4>1. y \in Char /\ text' = Append(text, y)
                BY <1>1, <2>2, <3>2 DEF Get
            <4>2. Ahead' = <<y>> /\ Consumed = text
                BY <2>2, <3>2, ConsumedIs DEF Ahead, ScanInv
            <4>3. text' = text \o <<y>>
                BY <1>1, <4>1
            <4> QED
                BY <3>2, <4>1, <4>2, <4>3 DEF First
        <3>3. CASE pb = <<>> /\ eof'
            <4>1. y = EOF /\ text' = text
                BY <1>1, <1>3, <2>2, <3>3 DEF Get
            <4>2. Ahead' = <<>> /\ Consumed = text
                BY <3>3, ConsumedIs DEF Ahead, ScanInv
            <4> QED
                BY <1>1, <2>2, <4>1, <4>2, NoneFits DEF First
        <3> QED
            BY <3>1, <3>2, <3>3
    <2>6. PICK c : c = <<>>
        OBVIOUS
    <2>7. c \in Seq(Char) /\ c \o Ahead' = Ahead'
        <3>1. Ahead' \in Seq(Char)
            BY <2>1, AfterScanChar DEF Ahead, Files
        <3> QED
            BY <2>6, <3>1, NoneFits
    <2>8. Held(c)'
        BY <2>1, <2>6 DEF Held, Classes
    <2>9. PICK p : p = Consumed
        OBVIOUS
    <2> HIDE DEF F
    <2>10. p \in Seq(Char) /\ text' = p \o (c \o Ahead') /\ Boundary(p, tokens, F)
           /\ First(c \o Ahead') \subseteq F
        BY <2>3, <2>4, <2>5, <2>7, <2>9
    <2> QED
        BY <2>1, <2>5, <2>7, <2>8, <2>10, GoesOn
<1> QED
    BY <1>2, <1>3

(* What is known of a running scanner. *)
LEMMA RunningFacts ==
    ASSUME ScanInv, TokensInv, state # "idle"
    PROVE  /\ \E p, c \in Seq(Char) : Running(p, c)
           /\ eof => x = EOF
           /\ ~eof => x \in Char /\ Ahead = <<x>>
           /\ eof => Ahead = <<>>
           /\ pb = <<>> /\ text \in Seq(Char) /\ token \in Seq(Char) /\ eof \in BOOLEAN
           /\ Ahead \in Seq(Char) /\ EOF \notin Char /\ tokens \in Seq(Token)
<1>1. \A y \in Char : <<y>> \in Seq(Char)
    OBVIOUS
<1>2. pb = <<>> /\ text \in Seq(Char) /\ token \in Seq(Char) /\ eof \in BOOLEAN
      /\ (~eof => x \in Char) /\ tokens \in Seq(Token)
    BY DEF ScanInv, TypeOK, AheadInv
<1>3. EOF \notin Char
    BY DEF EOF, Char, White, NumberChar, WordChar, SymbolChar
<1> QED
    BY <1>1, <1>2, <1>3 DEF TokensInv, Ahead

LEMMA OneChar ==
    ASSUME NEW y \in Char
    PROVE  <<y>> \in Seq(Char) /\ <<y>> # <<>> /\ First(<<y>>) = {y} /\ <<>> \o <<y>> = <<y>>
           /\ <<y>>[1] = y /\ Len(<<y>>) = 1
BY DEF First

LEMMA SkipWhiteTokens == ASSUME ScanInv, TokensInv, SkipWhite PROVE TokensInv'
<1>1. state = "top" /\ x \in White /\ ~eof /\ ScanChar /\ UNCHANGED <<state, token, tokens>>
    BY DEF SkipWhite, output
<1>2. PICK p \in Seq(Char), c \in Seq(Char) : Running(p, c)
    BY <1>1, RunningFacts
<1>3. c = <<>> /\ x \in Char /\ Ahead = <<x>>
    BY <1>1, <1>2, RunningFacts DEF Running, Held
<1>4. PICK u : u = <<x>>
    OBVIOUS
<1>5. u \in Seq(Char) /\ u # <<>> /\ First(c \o Ahead) = {u[1]} /\ u[1] \in {u[1]} /\ c \o Ahead = u
    BY <1>3, <1>4, OneChar
<1>6. Boundary(p, tokens, {u[1]}) /\ text = p \o u /\ tokens \in Seq(Token)
    BY <1>1, <1>2, <1>5, RunningFacts DEF Running
<1>7. Boundary(p \o u, tokens \o <<>>, Char)
    <2>1. ASSUME NEW q \in Seq(Char) PROVE TokensOf[u \o q] = <<>> \o TokensOf[q]
        <3>1. TokensOf[u \o q] = TokensOf[q]
            BY <1>1, <1>4, WhiteFirst
        <3>2. TokensOf[q] \in Seq(Token)
            BY TokensOfIs
        <3> QED
            BY <3>1, <3>2, NoneFits
    <2> QED
        BY ZenonT(60), <1>5, <1>6, <2>1, BoundaryNext, NoneFits
<1>8. Boundary(p \o u, tokens, Char)
    BY <1>6, <1>7, NoneFits
<1>9. /\ Ahead' \in Seq(Char) /\ text' = p \o ((c \o <<x>>) \o Ahead') /\ (eof' => x' = EOF)
    BY <1>1, <1>2, ReadOn DEF Running
<1>10. c \o <<x>> = u
    BY <1>3, <1>4, OneChar
<1>11. PICK r : r = p \o u
    OBVIOUS
<1>12. r \in Seq(Char) /\ text' = r \o (c \o Ahead') /\ c \o Ahead' = Ahead'
    <2>1. PICK a : a = Ahead'
        OBVIOUS
    <2>2. a \in Seq(Char) /\ text' = p \o (u \o a)
        BY <1>9, <1>10, <2>1
    <2>3. text' = r \o a
        BY <1>5, <1>11, <2>2, Assoc
    <2>4. c \o a = a
        BY <1>3, <2>2, NoneFits
    <2>5. r \in Seq(Char)
        BY <1>5, <1>11, Joined
    <2> QED
        BY <2>1, <2>3, <2>4, <2>5
<1>13. First(c \o Ahead') \subseteq Char
    <2>1. \A q \in Seq(Char) : q # <<>> => q[1] \in Char
        OBVIOUS
    <2> QED
        BY <1>9, <1>12, <2>1 DEF First
<1>14. Held(c)'
    BY <1>1, <1>2, <1>3 DEF Running, Held, Classes
<1>15. Boundary(r, tokens, Char) /\ state' # "idle"
    BY <1>1, <1>8, <1>11
<1> QED
    BY <1>1, <1>9, <1>12, <1>13, <1>14, <1>15, GoesOn

LEMMA SlashTokens == ASSUME ScanInv, TokensInv, Slash PROVE TokensInv'
<1>1. state = "top" /\ x = "/" /\ ScanChar /\ state' = "slash" /\ UNCHANGED <<token, tokens>>
    BY DEF Slash, output
<1>2. ~eof
    BY <1>1, RunningFacts DEF EOF
<1>3. PICK p \in Seq(Char), c \in Seq(Char) : Running(p, c)
    BY <1>1, RunningFacts
<1>4. c = <<>> /\ token = <<>>
    BY <1>1, <1>3 DEF Running, Held
<1>5. PICK d : d = c \o <<x>>
    OBVIOUS
<1>6. d = <<"/">>
    BY <1>1, <1>2, <1>4, <1>5, OneChar, RunningFacts
<1>7. Held(d)'
    BY <1>1, <1>4, <1>6 DEF Held, Classes
<1> QED
    BY <1>1, <1>2, <1>3, <1>5, <1>7, ReadsOn

LEMMA BeginStringTokens == ASSUME ScanInv, TokensInv, BeginString PROVE TokensInv'
<1>1. state = "top" /\ x = "quote" /\ ScanChar /\ state' = "string" /\ UNCHANGED <<token, tokens>>
    BY DEF BeginString, output
<1>2. ~eof
    BY <1>1, RunningFacts DEF EOF
<1>3. PICK p \in Seq(Char), c \in Seq(Char) : Running(p, c)
    BY <1>1, RunningFacts
<1>4. c = <<>> /\ token = <<>>
    BY <1>1, <1>3 DEF Running, Held
<1>5. PICK d : d = c \o <<x>>
    OBVIOUS
<1>6. d = <<"quote">> /\ <<"quote">> \in Seq(Char)
    BY <1>1, <1>2, <1>4, <1>5, OneChar, RunningFacts
<1>7. d = <<"quote">> \o token'
    <2>1. <<"quote">> \o <<>> = <<"quote">>
        BY <1>6, NoneFits
    <2> QED
        BY <1>1, <1>4, <1>6, <2>1
<1>8. Held(d)'
    <2>1. \A i \in 1 .. Len(token') : token'[i] # "quote"
        BY <1>1, <1>4
    <2> QED
        BY <1>1, <1>7, <2>1 DEF Held, Classes
<1> QED
    BY <1>1, <1>2, <1>3, <1>5, <1>8, ReadsOn

LEMMA AtEndTokens == ASSUME ScanInv, TokensInv, AtEnd PROVE TokensInv'
<1>1. state = "top" /\ eof /\ state' = "idle" /\ tokens' = tokens /\ UNCHANGED <<eof, text>>
    BY DEF AtEnd, Return, input
<1>2. PICK p \in Seq(Char), c \in Seq(Char) : Running(p, c)
    BY <1>1, RunningFacts
<1>3. c = <<>> /\ Ahead = <<>> /\ text = p /\ Boundary(p, tokens, First(c \o Ahead))
    BY <1>1, <1>2, RunningFacts, NoneFits DEF Running, Held
<1>4. Fits(TokensOf[p]) => TokensOf[p] = tokens \o <<>>
    BY <1>3, NoneFits DEF Boundary
<1>5. tokens \o <<>> = tokens
    BY <1>1, RunningFacts, NoneFits
<1> QED
    BY <1>1, <1>3, <1>4, <1>5 DEF TokensInv

LEMMA AfterSlashTokens == ASSUME ScanInv, TokensInv, AfterSlash PROVE TokensInv'
<1>1. state = "slash"
    BY DEF AfterSlash
<1>2. PICK p \in Seq(Char), c \in Seq(Char) : Running(p, c)
    BY <1>1, RunningFacts
<1>3. c = <<"/">> /\ token = <<>> /\ "/" \in Char
    BY <1>1, <1>2, CharIs DEF Running, Held
<1>4. text = p \o (c \o Ahead) /\ Boundary(p, tokens, First(c \o Ahead))
    BY <1>2 DEF Running
<1>5. First(c \o Ahead) = {"/"}
    <2>1. Ahead \in Seq(Char)
        BY <1>1, RunningFacts
    <2>2. (<<"/">> \o Ahead)[1] = "/" /\ Len(<<"/">> \o Ahead) = 1 + Len(Ahead) /\ Len(Ahead) \in Nat
        BY <1>3, <2>1, OneFirst, Joined
    <2>3. Len(<<"/">> \o Ahead) # 0
        BY <2>2
    <2>4. <<"/">> \o Ahead # <<>>
        BY <2>3
    <2> QED
        BY <1>3, <2>2, <2>4 DEF First
<1>6. CASE x = "/"
    <2>1. ~eof /\ Ahead = <<x>>
        BY <1>1, <1>6, RunningFacts DEF EOF
    <2>2. state' = "comment" /\ UNCHANGED <<eof, text, x, token, tokens>>
        BY <1>6 DEF AfterSlash, input, output
    <2>3. Ahead' = Ahead
        BY <2>2 DEF Ahead
    <2>4. Held(c)'
        BY <1>3, <1>6, <2>1, <2>2 DEF Held, Classes
    <2>5. eof' => x' = EOF
        BY <2>1, <2>2
    <2>6. text' = p \o (c \o Ahead') /\ First(c \o Ahead') \subseteq First(c \o Ahead)
        BY <1>4, <2>2, <2>3
    <2>7. state' # "idle" /\ tokens' = tokens
        BY <2>2
    <2> QED
        BY <1>4, <2>4, <2>5, <2>6, <2>7, GoesOn
<1>7. CASE x # "/" /\ eof
    <2>1. state' = "idle" /\ tokens' = tokens /\ UNCHANGED <<eof, text>>
        BY <1>7 DEF AfterSlash, Return, PutBack
    <2>2. text = p \o c /\ c \in Seq(Char)
        BY <1>1, <1>4, <1>7, RunningFacts, NoneFits
    <2>3. PICK tk : tk = [type |-> "symbol", token |-> <<"/">>]
        OBVIOUS
    <2>4. tk \in Token /\ tk.type = "symbol"
        BY <1>3, <2>3, OneChar DEF Token
    <2>5. TokensOf[c] = <<tk>>
        <3>1. TokensOf[<<"/">> \o <<>>] = <<[type |-> "symbol", token |-> <<"/">>]>> \o TokensOf[<<>>]
            BY NoneFits, SymbolFirst
        <3>2. <<tk>> \in Seq(Token) /\ <<tk>> \o <<>> = <<tk>>
            BY <2>4
        <3> QED
            BY <1>3, <2>2, <2>3, <3>1, <3>2, NoneFits
    <2>6. Fits(TokensOf[text]) => TokensOf[text] = tokens \o <<tk>>
        <3>1. c[1] = "/"
            BY <1>3
        <3> QED
            BY <1>4, <1>5, <2>2, <2>5, <3>1 DEF Boundary
    <2>7. text[Len(text)] = "/"
        <3>1. Len(c) = 1 /\ c[1] = "/"
            BY <1>3
        <3>2. 1 \in 1 .. Len(c)
            BY <3>1
        <3>3. Len(p \o c) = Len(p) + 1
            BY <2>2, <3>1, Joined
        <3>4. (p \o c)[Len(p) + 1] = "/"
            BY <2>2, <3>1, <3>2, Joined
        <3> QED
            BY <2>2, <3>3, <3>4
    <2>8. tokens \o <<tk>> # <<>> /\ (tokens \o <<tk>>)[Len(tokens \o <<tk>>)] = tk
        <3>1. tokens \in Seq(Token)
            BY <1>1, RunningFacts
        <3>2. Len(tokens \o <<tk>>) = Len(tokens) + 1 /\ Len(tokens) \in Nat
              /\ (tokens \o <<tk>>)[Len(tokens) + 1] = tk
            BY <2>4, <3>1
        <3>3. Len(tokens \o <<tk>>) # 0
            BY <3>2
        <3> QED
            BY <3>2, <3>3
    <2>9. EndsInSlash(tokens \o <<tk>>)
        BY <1>7, <2>4, <2>7, <2>8 DEF EndsInSlash
    <2>10. Fits(TokensOf[text]) => EndsInSlash(TokensOf[text])
        BY <2>6, <2>9
    <2>11. EndsInSlash(TokensOf[text])' = EndsInSlash(TokensOf[text])
        BY <2>1 DEF EndsInSlash
    <2> QED
        BY <1>7, <2>1, <2>10, <2>11 DEF TokensInv
<1>8. CASE x # "/" /\ ~eof
    <2>1. x \in Char /\ Ahead = <<x>> /\ pb = <<>>
        BY <1>1, <1>8, RunningFacts
    <2>2. PICK tk : tk = [type |-> "symbol", token |-> <<"/">>]
        OBVIOUS
    <2>3. /\ state' = "idle" /\ tokens' = Append(tokens, tk) /\ UNCHANGED <<eof, text>>
          /\ pb' = <<x>> \o pb
        BY <1>8, <2>2 DEF AfterSlash, Return, PutBack, EOF
    <2>4. pb' = <<x>>
        BY <2>1, <2>3, OneChar, NoneFits
    <2>5. tk \in Token
        BY <1>3, <2>2, OneChar DEF Token
    <2>6. c \in Seq(Char) /\ c # <<>> /\ c[1] = "/"
        BY <1>3, OneChar
    <2>7. Consumed' = p \o c
        <3>1. PICK y \in Char : y = x
            BY <2>1
        <3>2. PICK b : b = p \o c
            OBVIOUS
        <3>3. PICK a : a = <<y>>
            OBVIOUS
        <3>4. a \in Seq(Char) /\ b \in Seq(Char)
            BY <2>6, <3>2, <3>3, OneChar, Joined
        <3>5. text' = p \o (c \o a)
            BY <1>4, <2>1, <2>3, <3>1, <3>3
        <3>6. text' = b \o a
            BY <2>6, <3>2, <3>4, <3>5, Assoc
        <3>7. pb' = <<y>> /\ text' = b \o <<y>>
            BY <2>4, <3>1, <3>3, <3>6
        <3> QED
            BY <3>2, <3>4, <3>7, ConsumedButOne
    <2>8. PICK y : y = x
        OBVIOUS
    <2>9. ASSUME NEW q \in Seq(Char), q = <<>> \/ q[1] \in {y}
          PROVE  TokensOf[c \o q] = <<tk>> \o TokensOf[q]
        <3>1. q = <<>> \/ q[1] # "/"
            BY <1>8, <2>8, <2>9
        <3> QED
            BY <1>3, <2>2, <3>1, SymbolFirst
    <2>10. Follows' = {y}
        <3>1. pb'[1] = y /\ pb' # <<>>
            BY <2>1, <2>4, <2>8, OneChar
        <3> QED
            BY <3>1 DEF Follows
    <2>11. Boundary(p, tokens, {"/"})
        BY <1>4, <1>5
    <2>12. ~eof' /\ Consumed' = p \o c
        BY <1>8, <2>3, <2>7
    <2>13. Splits(c, <<tk>>, {y})
        BY <2>9 DEF Splits
    <2>14. PICK F, G : F = {"/"} /\ G = {y}
        OBVIOUS
    <2>15. Boundary(p, tokens, F) /\ c[1] \in F /\ Splits(c, <<tk>>, G) /\ Follows' \subseteq G
        BY <2>6, <2>10, <2>11, <2>13, <2>14
    <2>16. state' = "idle" /\ tokens' = Append(tokens, tk)
        BY <2>3
    <2> QED
        BY <2>5, <2>6, <2>12, <2>15, <2>16, Returned
<1> QED
    BY <1>6, <1>7, <1>8

LEMMA CommentTokens == ASSUME ScanInv, TokensInv, Comment PROVE TokensInv'
<1>1. state = "comment" /\ tokens' = tokens /\ token' = token
    BY DEF Comment, output
<1>2. PICK p \in Seq(Char), c \in Seq(Char) : Running(p, c)
    BY <1>1, RunningFacts
<1>3. /\ c # <<>> /\ c[1] = "/" /\ \A i \in 1 .. Len(c) : c[i] # "nl"
      /\ IF Len(c) = 1 THEN ~eof /\ x = "/" ELSE c[2] = "/"
      /\ Len(c) \in Nat \ {0} /\ token = <<>>
    BY <1>1, <1>2 DEF Running, Held
<1>4. text = p \o (c \o Ahead) /\ Boundary(p, tokens, First(c \o Ahead))
      /\ Ahead \in Seq(Char)
    BY <1>1, <1>2, RunningFacts DEF Running
<1>5. CASE InComment
    <2>1. ScanChar /\ ~eof /\ x # "nl" /\ state' = "comment"
        BY <1>1, <1>5 DEF Comment, InComment
    <2>2. x \in Char
        BY <1>1, <2>1, RunningFacts
    <2>3. PICK d : d = c \o <<x>>
        OBVIOUS
    <2>4. PICK y \in Char : y = x
        BY <2>2
    <2>5. /\ d \in Seq(Char) /\ Len(d) = Len(c) + 1 /\ d[Len(c) + 1] = x
          /\ \A i \in 1 .. Len(c) : d[i] = c[i]
        <3>1. <<y>> \in Seq(Char) /\ Len(<<y>>) = 1 /\ <<y>>[1] = y
            OBVIOUS
        <3>2. d = c \o <<y>>
            BY <2>3, <2>4
        <3> QED
            BY <2>4, <3>1, <3>2
    <2>6. d # <<>> /\ d[1] = "/" /\ Len(d) # 1
        BY <1>3, <2>5
    <2>7. d[2] = "/"
        <3>1. CASE Len(c) = 1
            BY <1>3, <2>5, <3>1
        <3>2. CASE Len(c) # 1
            <4>0. Len(c) \in Nat \ {0}
                BY <1>3
            <4>1. 2 \in 1 .. Len(c)
                <5>1. \A n \in Nat \ {0} : n # 1 => 2 \in 1 .. n
                    OBVIOUS
                <5> QED
                    BY <3>2, <4>0, <5>1, Zenon
            <4> QED
                BY <1>3, <2>5, <3>2, <4>1
        <3> QED
            BY <3>1, <3>2
    <2>8. \A i \in 1 .. Len(d) : d[i] # "nl"
        <3>1. \A i \in 1 .. Len(d) : i \in 1 .. Len(c) \/ i = Len(c) + 1
            BY <1>3, <2>5
        <3> QED
            BY <1>3, <2>1, <2>5, <3>1
    <2>9. Held(d)'
        BY <1>1, <1>3, <2>1, <2>6, <2>7, <2>8 DEF Held, Classes
    <2> QED
        BY <1>1, <1>2, <2>1, <2>3, <2>9, ReadsOn
<1>6. CASE ~InComment
    <2>1. state' = "top" /\ UNCHANGED <<eof, text, x, token, tokens>>
        BY <1>1, <1>6 DEF Comment, input, output
    <2>2. eof \/ x = "nl"
        BY <1>6 DEF InComment
    <2>3. Len(c) > 1 /\ c[2] = "/"
        <3>1. Len(c) # 1
            BY <1>3, <2>2
        <3>2. Len(c) \in Nat \ {0}
            BY <1>3
        <3>3. Len(c) > 1
            <4>1. \A n \in Nat \ {0} : n # 1 => n > 1
                OBVIOUS
            <4> QED
                BY <3>1, <3>2, <4>1, Zenon
        <3> QED
            BY <1>3, <3>1, <3>3
    <2>4. First(c \o Ahead) = {c[1]}
        <3>1. 1 \in 1 .. Len(c)
            BY <1>3
        <3>2. (c \o Ahead)[1] = c[1] /\ Len(c \o Ahead) = Len(c) + Len(Ahead) /\ Len(Ahead) \in Nat
            BY <1>4, <3>1, Joined
        <3>3. Len(c \o Ahead) # 0
            BY <1>3, <3>2
        <3>4. c \o Ahead # <<>>
            BY <3>3
        <3> QED
            BY <3>2, <3>4 DEF First
    <2>5. ASSUME NEW q \in Seq(Char), q = <<>> \/ q[1] \in {"nl"}
          PROVE  TokensOf[c \o q] = <<>> \o TokensOf[q]
        <3>1. TokensOf[c \o q] = TokensOf[q]
            BY <1>3, <2>3, <2>5, CommentFirst
        <3>2. TokensOf[q] \in Seq(Token)
            BY TokensOfIs
        <3> QED
            BY <3>1, <3>2, NoneFits
    <2>6. tokens \in Seq(Token)
        BY <1>1, RunningFacts
    <2>7. Boundary(p \o c, tokens \o <<>>, {"nl"})
        BY ZenonT(60), <1>3, <1>4, <2>4, <2>5, <2>6, BoundaryNext, NoneFits
    <2>8. PICK r : r = p \o c
        OBVIOUS
    <2>9. PICK e : e = <<>>
        OBVIOUS
    <2>10. /\ r \in Seq(Char) /\ e \in Seq(Char) /\ Ahead' = Ahead /\ e \o Ahead = Ahead
           /\ Boundary(r, tokens, {"nl"})
        BY <1>4, <2>1, <2>6, <2>7, <2>8, <2>9, NoneFits, Joined DEF Ahead
    <2>11. text' = r \o (e \o Ahead')
        <3>1. PICK a : a = Ahead
            OBVIOUS
        <3>2. a \in Seq(Char) /\ text' = p \o (c \o a) /\ e \o Ahead' = a
            BY <1>4, <2>1, <2>10, <3>1
        <3>3. text' = r \o a
            BY <2>8, <3>2, Assoc
        <3> QED
            BY <3>2, <3>3
    <2>12. First(e \o Ahead') \subseteq {"nl"}
        <3>1. eof => Ahead = <<>>
            BY <1>1, RunningFacts
        <3>2. ~eof => Ahead = <<"nl">>
            BY <1>1, <2>2, RunningFacts
        <3>3. eof \in BOOLEAN /\ First(<<"nl">>) = {"nl"} /\ First(<<>>) = {}
            BY <1>1, RunningFacts, OneChar, CharIs DEF First
        <3> QED
            BY <2>10, <3>1, <3>2, <3>3
    <2>13. Held(e)'
        BY <1>3, <2>1, <2>9 DEF Held, Classes
    <2>14. eof' => x' = EOF
        BY <1>1, <2>1, RunningFacts
    <2>15. state' # "idle"
        BY <2>1
    <2> QED
        BY <2>1, <2>10, <2>11, <2>12, <2>13, <2>14, <2>15, GoesOn
<1> QED
    BY <1>5, <1>6

(* The loops for the tokens of Classes, and that for a string. *)
LEMMA LoopIs ==
    /\ Loop = DOMAIN Classes \cup {"string"} /\ "string" \notin DOMAIN Classes
    /\ DOMAIN Classes = {"number", "word", "symbol"}
    /\ \A k \in DOMAIN Classes : FirstOf[k] \subseteq Classes[k]
    /\ state \in DOMAIN Classes =>
          (Belongs <=> /\ ~eof /\ x \in Classes[state]
                       /\ state = "symbol" => Len(token) < MaxToken)
    /\ state = "string" => (Belongs <=> ~eof /\ x # "quote" /\ Len(token) < MaxToken)
<1>1. DOMAIN Classes = {"number", "word", "symbol"}
    BY DEF Classes
<1>2. /\ Classes["number"] = NumberChar /\ Classes["word"] = WordChar
      /\ Classes["symbol"] = SymbolChar
      /\ FirstOf["number"] = {"digit"} /\ FirstOf["word"] = {"letter"}
      /\ FirstOf["symbol"] = SymbolChar
    BY DEF Classes, FirstOf
<1>3. \A k \in DOMAIN Classes : FirstOf[k] \subseteq Classes[k]
    BY <1>1, <1>2 DEF NumberChar, WordChar
<1>4. state = "number" => (Belongs <=> ~eof /\ x \in NumberChar)
    BY DEF Belongs
<1>5. state = "word" => (Belongs <=> ~eof /\ x \in WordChar)
    BY DEF Belongs
<1>6. state = "symbol" => (Belongs <=> ~eof /\ x \in SymbolChar /\ Len(token) < MaxToken)
    BY DEF Belongs
<1>7. state = "string" => (Belongs <=> ~eof /\ x # "quote" /\ Len(token) < MaxToken)
    BY DEF Belongs
<1>8. state \in DOMAIN Classes =>
          (Belongs <=> /\ ~eof /\ x \in Classes[state]
                       /\ state = "symbol" => Len(token) < MaxToken)
    BY <1>1, <1>2, <1>4, <1>5, <1>6
<1> QED
    BY <1>1, <1>3, <1>7, <1>8 DEF Loop

LEMMA Appended ==
    ASSUME NEW t \in Seq(Char), NEW y \in Char
    PROVE  /\ Append(t, y) = t \o <<y>> /\ Append(t, y) \in Seq(Char) /\ Append(t, y) # <<>>
           /\ \A i \in 1 .. Len(t) : Append(t, y)[i] = t[i]
           /\ Append(t, y)[Len(t) + 1] = y /\ Len(t) \in Nat
           /\ \A i \in 1 .. Len(Append(t, y)) : i \in 1 .. Len(t) \/ i = Len(t) + 1
           /\ t = <<>> => Append(t, y)[1] = y
           /\ t # <<>> => Append(t, y)[1] = t[1]
<1>1. /\ Append(t, y) = t \o <<y>> /\ Append(t, y) \in Seq(Char)
      /\ Len(Append(t, y)) = Len(t) + 1 /\ Len(t) \in Nat
      /\ \A i \in 1 .. Len(t) : Append(t, y)[i] = t[i]
      /\ Append(t, y)[Len(t) + 1] = y
    OBVIOUS
<1>2. Append(t, y) # <<>>
    OBVIOUS
<1>3. \A i \in 1 .. Len(Append(t, y)) : i \in 1 .. Len(t) \/ i = Len(t) + 1
    BY <1>1
<1>4. t = <<>> => Append(t, y)[1] = y
    <2>1. t = <<>> => Len(t) + 1 = 1
        OBVIOUS
    <2> QED
        BY <1>1, <2>1
<1>5. t # <<>> => Append(t, y)[1] = t[1]
    BY <1>1, NoneFits
<1> QED
    BY <1>1, <1>2, <1>3, <1>4, <1>5

LEMMA BeginTokens == ASSUME ScanInv, TokensInv, Begin PROVE TokensInv'
<1>1. state = "top" /\ x \notin White \cup {"/", "quote"} /\ ~eof /\ UNCHANGED <<pb, eof, text, x>>
    BY DEF Begin, input
<1>2. PICK p \in Seq(Char), c \in Seq(Char) : Running(p, c)
    BY <1>1, RunningFacts
<1>3. c = <<>> /\ token = <<>>
    BY <1>1, <1>2 DEF Running, Held
<1>4. PICK y \in Char : y = x
    BY <1>1, RunningFacts
<1>5. PICK u : u = <<y>>
    OBVIOUS
<1>6. u \in Seq(Char) /\ u # <<>> /\ u[1] = y /\ First(u) = {y} /\ c \o u = u
    BY <1>3, <1>5, OneChar
<1>7. Ahead = u /\ text = p \o u /\ Boundary(p, tokens, {y})
    <2>1. Ahead = u
        BY <1>1, <1>4, <1>5, RunningFacts
    <2> QED
        BY <1>2, <1>6, <2>1 DEF Running
<1>8. CASE LoopFor = "idle"
    <2>1. y \in {".", "other"}
        BY <1>1, <1>4, <1>8 DEF LoopFor, Char, White, NumberChar, WordChar
    <2>2. PICK tk : tk = [type |-> "symbol", token |-> u]
        OBVIOUS
    <2>3. tk \in Token
        BY <1>6, <2>2 DEF Token
    <2>4. state' = "idle" /\ tokens' = Append(tokens, tk)
        BY <1>4, <1>5, <1>8, <2>2 DEF Begin, Return, EOF
    <2>5. Splits(u, <<tk>>, Char)
        BY <1>5, <2>1, <2>2, SymbolFirst DEF Splits
    <2>6. pb = <<>> /\ text \in Seq(Char)
        BY <1>1, RunningFacts
    <2>7. Consumed' = p \o u
        BY <1>1, <1>7, <2>6, ConsumedAll
    <2>8. Follows' = Char
        BY <1>1, <2>6 DEF Follows
    <2>9. PICK F, G : F = {y} /\ G = Char
        OBVIOUS
    <2>10. Boundary(p, tokens, F) /\ u[1] \in F /\ Splits(u, <<tk>>, G) /\ Follows' \subseteq G
        BY <1>6, <1>7, <2>5, <2>8, <2>9
    <2> QED
        BY <1>1, <1>6, <2>3, <2>4, <2>7, <2>10, Returned
<1>9. CASE LoopFor # "idle"
    <2>1. state' = LoopFor /\ UNCHANGED <<token, tokens>>
        BY <1>9 DEF Begin, output
    <2>2. LoopFor \in DOMAIN Classes /\ x \in FirstOf[LoopFor]
        BY <1>9 DEF LoopFor, Classes, FirstOf
    <2>3. Held(c)'
        <3>1. state' \in DOMAIN Classes /\ x' \in FirstOf[state']
            BY <1>1, <2>1, <2>2
        <3>2. c = token' /\ token' = <<>> /\ ~eof'
            BY <1>1, <1>3, <2>1
        <3>3. \A i \in 1 .. Len(token') : token'[i] \in Classes[state']
            BY <3>2
        <3>4. state' \in {"number", "word", "symbol"}
            BY <3>1, LoopIs
        <3> QED
            BY <3>1, <3>2, <3>3, <3>4 DEF Held
    <2>4. Ahead' = u
        BY <1>1, <1>7 DEF Ahead
    <2>5. text' = p \o (c \o Ahead') /\ First(c \o Ahead') \subseteq {y} /\ ~eof'
        BY <1>1, <1>6, <1>7, <2>4
    <2>6. state' # "idle" /\ tokens' = tokens
        BY <1>9, <2>1
    <2> QED
        BY <1>7, <2>3, <2>5, <2>6, GoesOn
<1> QED
    BY <1>8, <1>9

LEMMA MoreTokens == ASSUME ScanInv, TokensInv, More PROVE TokensInv'
<1>1. /\ state \in Loop /\ Belongs /\ token' = Append(token, x) /\ ScanChar
      /\ UNCHANGED <<state, tokens>>
    BY DEF More
<1>2. state # "idle" /\ ~eof
    BY <1>1 DEF Loop, Belongs
<1>3. PICK p \in Seq(Char), c \in Seq(Char) : Running(p, c)
    BY <1>2, RunningFacts
<1>4. PICK t \in Seq(Char), y \in Char : t = token /\ y = x
    BY <1>2, RunningFacts
<1>5. PICK a : a = Append(t, y)
    OBVIOUS
<1>6. /\ a = t \o <<y>> /\ a \in Seq(Char) /\ a # <<>> /\ <<y>> \in Seq(Char)
      /\ \A i \in 1 .. Len(t) : a[i] = t[i]
      /\ a[Len(t) + 1] = y
      /\ \A i \in 1 .. Len(a) : i \in 1 .. Len(t) \/ i = Len(t) + 1
      /\ t = <<>> => a[1] = y
      /\ t # <<>> => a[1] = t[1]
    BY <1>5, Appended, OneChar
<1>7. token' = a /\ state' = state
    BY <1>1, <1>4, <1>5
<1>8. PICK d : d = c \o <<y>>
    OBVIOUS
<1>9. CASE state \in DOMAIN Classes
    <2>1. /\ c = t /\ \A i \in 1 .. Len(t) : t[i] \in Classes[state]
          /\ IF t = <<>> THEN ~eof /\ x \in FirstOf[state] ELSE t[1] \in FirstOf[state]
        BY <1>3, <1>4, <1>9 DEF Running, Held
    <2>2. y \in Classes[state]
        BY <1>1, <1>4, <1>9, LoopIs
    <2>3. \A i \in 1 .. Len(a) : a[i] \in Classes[state]
        BY <1>6, <2>1, <2>2
    <2>4. a[1] \in FirstOf[state]
        BY <1>4, <1>6, <2>1
    <2>5. d = a
        BY <1>6, <1>8, <2>1
    <2>6. state \in {"number", "word", "symbol"}
        BY <1>9, LoopIs
    <2>7. Held(d)'
        BY <1>6, <1>7, <1>9, <2>3, <2>4, <2>5, <2>6 DEF Held
    <2> QED
        BY <1>1, <1>2, <1>3, <1>4, <1>8, <2>7, ReadsOn
<1>10. CASE state = "string"
    <2>1. c = <<"quote">> \o t /\ \A i \in 1 .. Len(t) : t[i] # "quote"
        BY <1>3, <1>4, <1>10 DEF Running, Held
    <2>2. y # "quote"
        BY <1>1, <1>4, <1>10, LoopIs
    <2>3. \A i \in 1 .. Len(a) : a[i] # "quote"
        BY <1>6, <2>1, <2>2
    <2>4. d = <<"quote">> \o a
        <3>1. PICK Q \in Seq(Char) : Q = <<"quote">>
            BY OneChar, CharIs
        <3>2. PICK b \in Seq(Char) : b = <<y>>
            BY <1>6
        <3>3. (Q \o t) \o b = Q \o (t \o b)
            BY Assoc
        <3> QED
            BY <1>6, <1>8, <2>1, <3>1, <3>2, <3>3
    <2>5. Held(d)'
        BY <1>7, <1>10, <2>3, <2>4, LoopIs DEF Held
    <2> QED
        BY <1>1, <1>2, <1>3, <1>4, <1>8, <2>5, ReadsOn
<1> QED
    BY <1>1, <1>9, <1>10, LoopIs

(* A number, a word or a symbol ends. *)
LEMMA EndWordTokens ==
    ASSUME ScanInv, TokensInv, End, state \in DOMAIN Classes
    PROVE  TokensInv'
<1>1. /\ state \in Loop /\ ~Belongs /\ state # "string" /\ state # "idle" /\ state # EOF
      /\ state \in {"number", "word", "symbol"}
    BY LoopIs DEF End, EOF
<1>2. PICK p \in Seq(Char), c \in Seq(Char) : Running(p, c)
    BY <1>1, RunningFacts
<1>3. /\ c = token /\ \A i \in 1 .. Len(token) : token[i] \in Classes[state]
      /\ IF token = <<>> THEN ~eof /\ x \in FirstOf[state] ELSE token[1] \in FirstOf[state]
    BY <1>2 DEF Running, Held
<1>4. /\ PutBack /\ x' = x /\ state' = "idle"
      /\ tokens' = Append(tokens, [type |-> state, token |-> token])
    BY <1>1 DEF End, Return
<1>5. PICK k \in DOMAIN Classes : k = state
    OBVIOUS
<1>6. PICK tk : tk = [type |-> k, token |-> c]
    OBVIOUS
<1>7. tk \in Token /\ tokens' = Append(tokens, tk)
    BY <1>1, <1>3, <1>4, <1>5, <1>6 DEF Token
<1>8. c # <<>>
    <2> SUFFICES ASSUME c = <<>> PROVE FALSE
        OBVIOUS
    <2>1. Len(token) = 0 /\ ~eof /\ x \in FirstOf[state]
        BY <1>3
    <2>2. x \in Classes[state] /\ Len(token) < MaxToken
        BY <2>1, LoopIs, ScannerAssumption
    <2> QED
        BY <1>1, <2>1, <2>2, LoopIs
<1>9. c[1] \in FirstOf[k] /\ \A i \in 1 .. Len(c) : c[i] \in Classes[k]
    BY <1>3, <1>5, <1>8
<1>10. Boundary(p, tokens, {c[1]}) /\ text = p \o (c \o Ahead) /\ Ahead \in Seq(Char)
    <2>1. Ahead \in Seq(Char)
        BY <1>1, RunningFacts
    <2>2. 1 \in 1 .. Len(c)
        BY <1>8, NoneFits
    <2>3. (c \o Ahead)[1] = c[1] /\ Len(c \o Ahead) = Len(c) + Len(Ahead)
          /\ Len(Ahead) \in Nat /\ Len(c) \in Nat
        BY <2>1, <2>2, Joined
    <2>4. Len(c \o Ahead) # 0
        BY <2>2, <2>3
    <2>5. c \o Ahead # <<>>
        BY <2>4
    <2> QED
        BY <1>2, <2>1, <2>3, <2>5 DEF Running, First
<1>11. CASE eof
    <2>1. eof' /\ text' = p \o c
        BY <1>1, <1>4, <1>10, <1>11, RunningFacts, NoneFits DEF PutBack
    <2>2. Splits(c, <<tk>>, {})
        BY <1>6, <1>8, <1>9, WordFirst DEF Splits
    <2>3. PICK F, G : F = {c[1]} /\ G = {}
        OBVIOUS
    <2>4. Boundary(p, tokens, F) /\ c[1] \in F /\ Splits(c, <<tk>>, G)
        BY <1>10, <2>2, <2>3
    <2> QED
        BY <1>4, <1>7, <1>8, <2>1, <2>4, Returned
<1>12. CASE ~eof
    <2>1. PICK y \in Char : y = x
        BY <1>1, <1>12, RunningFacts
    <2>2. PICK b : b = <<y>>
        OBVIOUS
    <2>3. b \in Seq(Char) /\ b # <<>> /\ b[1] = y
        BY <2>2, OneChar
    <2>4. ~eof' /\ text' = text /\ pb' = b
        <3>1. ~eof' /\ text' = text /\ pb' = <<x>> \o pb /\ pb = <<>>
            BY <1>1, <1>4, <1>12, RunningFacts DEF PutBack
        <3> QED
            BY <2>1, <2>2, <2>3, <3>1, NoneFits
    <2>5. Consumed' = p \o c
        <3>1. PICK r : r = p \o c
            OBVIOUS
        <3>2. r \in Seq(Char)
            BY <3>1, Joined
        <3>3. text' = p \o (c \o b)
            BY <1>1, <1>10, <1>12, <2>1, <2>2, <2>4, RunningFacts
        <3>4. text' = r \o b
            BY <2>3, <3>1, <3>3, Assoc
        <3>5. text' = r \o <<y>> /\ pb' = <<y>>
            BY <2>2, <2>4, <3>4
        <3> QED
            BY <3>1, <3>2, <3>5, ConsumedButOne
    <2>6. Follows' = {y}
        BY <2>3, <2>4 DEF Follows
    <2>7. y \notin Classes[k] \/ (k = "symbol" /\ Len(c) >= MaxToken)
        <3>1. Len(c) \in Nat
            BY Joined
        <3>2. x \notin Classes[state] \/ (state = "symbol" /\ ~(Len(token) < MaxToken))
            BY <1>1, <1>12, LoopIs
        <3> QED
            BY <1>3, <1>5, <2>1, <3>1, <3>2, ScannerAssumption
    <2>8. Splits(c, <<tk>>, {y})
        <3> SUFFICES ASSUME NEW q \in Seq(Char), q = <<>> \/ q[1] = y, Fits(TokensOf[c \o q])
                     PROVE  TokensOf[c \o q] = <<tk>> \o TokensOf[q]
            BY DEF Splits
        <3>1. CASE q = <<>> \/ q[1] \notin Classes[k]
            BY <1>6, <1>8, <1>9, <3>1, WordFirst
        <3>2. CASE q # <<>> /\ q[1] \in Classes[k]
            BY <1>8, <1>9, <2>7, <3>2, WordFirst
        <3> QED
            BY <3>1, <3>2
    <2>9. PICK F, G : F = {c[1]} /\ G = {y}
        OBVIOUS
    <2>10. Boundary(p, tokens, F) /\ c[1] \in F /\ Splits(c, <<tk>>, G) /\ Follows' \subseteq G
        BY <1>10, <2>6, <2>8, <2>9
    <2> QED
        BY <1>4, <1>7, <1>8, <2>4, <2>5, <2>10, Returned
<1> QED
    BY <1>11, <1>12

(* A string ends, with its closing quote, at the limit or with the file.   *)
LEMMA EndStringTokens ==
    ASSUME ScanInv, TokensInv, End, state = "string"
    PROVE  TokensInv'
<1>1. ~Belongs /\ state # "idle" /\ state # EOF
    BY DEF End, EOF
<1>2. PICK p \in Seq(Char), c \in Seq(Char) : Running(p, c)
    BY <1>1, RunningFacts
<1>3. PICK Q \in Seq(Char) : Q = <<"quote">>
    BY OneChar, CharIs
<1>4. PICK t \in Seq(Char) : t = token
    BY <1>1, RunningFacts
<1>5. c = Q \o t /\ \A i \in 1 .. Len(t) : t[i] # "quote"
    BY <1>2, <1>3, <1>4 DEF Running, Held
<1>6. PICK tk : tk = [type |-> "string", token |-> t]
    OBVIOUS
<1>7. /\ state' = "idle" /\ tokens' = Append(tokens, tk) /\ tk \in Token
      /\ UNCHANGED <<pb, eof, text>>
    BY <1>1, <1>4, <1>6 DEF End, Return, input, Token
<1>8. PICK a \in Seq(Char) : a = Ahead
    BY <1>1, RunningFacts
<1>9. PICK v : v = t \o a
    OBVIOUS
<1>10. PICK u : u = Q \o v
    OBVIOUS
<1>11. v \in Seq(Char) /\ u \in Seq(Char) /\ u # <<>> /\ u[1] = "quote" /\ c \o a = u
    <2>1. v \in Seq(Char)
        BY <1>9, Joined
    <2>2. Len(Q) = 1 /\ Q[1] = "quote" /\ 1 \in 1 .. Len(Q)
        BY <1>3
    <2>3. u \in Seq(Char) /\ u[1] = "quote" /\ Len(u) = 1 + Len(v) /\ Len(v) \in Nat
        <3>1. /\ Q \o v \in Seq(Char) /\ Len(Q \o v) = Len(Q) + Len(v) /\ Len(v) \in Nat
              /\ (Q \o v)[1] = Q[1]
            BY <1>3, <2>1, <2>2, Joined
        <3> QED
            BY <1>10, <2>2, <3>1
    <2>4. Len(u) # 0
        BY <2>3
    <2>5. u # <<>>
        BY <2>4
    <2>6. c \o a = u
        BY SMTT(30), <1>5, <1>9, <1>10, Assoc
    <2> QED
        BY <2>1, <2>3, <2>5, <2>6
<1>12. text = p \o u /\ Boundary(p, tokens, {"quote"})
    BY <1>2, <1>8, <1>11 DEF Running, First
<1>13. pb = <<>> /\ text \in Seq(Char) /\ eof \in BOOLEAN
    BY <1>1, RunningFacts
<1>14. PICK F : F = {"quote"}
    OBVIOUS
<1>15. Boundary(p, tokens, F) /\ u[1] \in F
    BY <1>11, <1>12, <1>14
<1>16. CASE eof
    <2>1. u = Q \o t
        BY <1>1, <1>8, <1>9, <1>10, <1>16, RunningFacts, NoneFits
    <2>2. Splits(u, <<tk>>, {})
        <3> SUFFICES ASSUME NEW q \in Seq(Char), q = <<>>
                     PROVE  TokensOf[u \o q] = <<tk>> \o TokensOf[q]
            BY DEF Splits
        <3>1. TokensOf[Q \o t] = <<tk>>
            BY <1>3, <1>5, <1>6, StringFirst
        <3>2. <<tk>> \in Seq(Token)
            BY <1>7
        <3> QED
            BY <1>11, <2>1, <3>1, <3>2, NoneFits
    <2>3. eof' /\ text' = p \o u
        BY <1>7, <1>12, <1>16
    <2>4. PICK G : G = {}
        OBVIOUS
    <2>5. Splits(u, <<tk>>, G)
        BY <2>2, <2>4
    <2> QED
        BY <1>7, <1>11, <1>15, <2>3, <2>5, Returned
<1>17. CASE ~eof
    <2>1. PICK y \in Char : y = x
        BY <1>1, <1>17, RunningFacts
    <2>2. a = <<y>> /\ a # <<>> /\ a[1] = y
        <3>1. Ahead = <<x>>
            BY <1>1, <1>17, RunningFacts
        <3> QED
            BY <1>8, <2>1, <3>1, OneChar
    <2>3. Splits(u, <<tk>>, Char)
        <3> SUFFICES ASSUME NEW q \in Seq(Char), Fits(TokensOf[u \o q])
                     PROVE  TokensOf[u \o q] = <<tk>> \o TokensOf[q]
            BY DEF Splits
        <3>1. u \o q = Q \o (t \o (a \o q)) /\ a \o q \in Seq(Char)
            <4>1. (t \o a) \o q = t \o (a \o q)
                <5>1. Rejoins(t, a, q)
                    BY Rejoined
                <5> QED
                    BY <5>1 DEF Rejoins
            <4>2. (Q \o v) \o q = Q \o (v \o q)
                <5>1. v \in Seq(Char)
                    BY <1>11
                <5>2. Rejoins(Q, v, q)
                    BY <5>1, Rejoined
                <5> QED
                    BY <5>2 DEF Rejoins
            <4>3. a \o q \in Seq(Char)
                BY Joined
            <4> QED
                BY <1>9, <1>10, <4>1, <4>2, <4>3
        <3>2. CASE y = "quote"
            <4>1. a = Q
                BY <1>3, <2>2, <3>2
            <4>2. TokensOf[Q \o (t \o (Q \o q))] = <<tk>> \o TokensOf[q]
                BY <1>3, <1>5, <1>6, StringFirst
            <4> QED
                BY <3>1, <4>1, <4>2
        <3>3. CASE y # "quote"
            <4>1. Len(t) >= MaxToken
                <5>1. ~(Len(token) < MaxToken)
                    BY <1>1, <1>17, <2>1, <3>3, LoopIs
                <5>2. Len(t) \in Nat
                    BY Joined
                <5> QED
                    BY <1>4, <5>1, <5>2, ScannerAssumption
            <4>2. PICK r \in Seq(Char) : r = a \o q
                BY <3>1
            <4>3. r # <<>> /\ r[1] = y
                <5>1. 1 \in 1 .. Len(a) /\ Len(a) = 1
                    BY <2>2
                <5>2. r[1] = y /\ Len(r) = 1 + Len(q) /\ Len(q) \in Nat
                    BY <2>2, <4>2, <5>1, Joined
                <5>3. Len(r) # 0
                    BY <5>2
                <5> QED
                    BY <5>2, <5>3
            <4>4. ~Fits(TokensOf[Q \o (t \o r)])
                BY <1>3, <1>5, <3>3, <4>1, <4>3, StringFirst
            <4> QED
                BY <3>1, <4>2, <4>4
        <3> QED
            BY <3>2, <3>3
    <2>4. ~eof' /\ Consumed' = p \o u
        BY <1>7, <1>12, <1>13, <1>17, ConsumedAll
    <2>5. Follows' = Char
        BY <1>7, <1>13 DEF Follows
    <2>6. PICK G : G = Char
        OBVIOUS
    <2>7. Splits(u, <<tk>>, G) /\ Follows' \subseteq G
        BY <2>3, <2>5, <2>6
    <2> QED
        BY <1>7, <1>11, <1>15, <2>4, <2>7, Returned
<1> QED
    BY <1>16, <1>17

LEMMA TokensNext == ScanInv /\ TokensInv /\ [Next]_scan => TokensInv'
<1> SUFFICES ASSUME ScanInv, TokensInv, [Next]_scan PROVE TokensInv'
    OBVIOUS
<1>1. CASE End
    <2>1. state \in DOMAIN Classes \/ state = "string"
        BY <1>1, LoopIs DEF End
    <2> QED
        BY <1>1, <2>1, EndWordTokens, EndStringTokens
<1>2. CASE UNCHANGED scan
    <2>1. UNCHANGED <<pb, eof, x, state, token, text, tokens>>
        BY <1>2 DEF scan
    <2>2. CASE state = "idle"
        <3>1. Consumed' = Consumed /\ Follows' = Follows
            BY <2>1 DEF Consumed, Follows
        <3>2. EndsInSlash(TokensOf[text])' = EndsInSlash(TokensOf[text])
            BY <2>1 DEF EndsInSlash
        <3> QED
            BY <2>1, <2>2, <3>1, <3>2 DEF TokensInv
    <2>3. CASE state # "idle"
        <3>1. PICK p \in Seq(Char), c \in Seq(Char) : Running(p, c)
            BY <2>3, RunningFacts
        <3>2. Held(c)'
            BY <2>1, <3>1 DEF Running, Held
        <3>3. Ahead' = Ahead
            BY <2>1 DEF Ahead
        <3>4. text' = p \o (c \o Ahead') /\ Boundary(p, tokens, First(c \o Ahead'))
            BY <2>1, <3>1, <3>3 DEF Running
        <3>5. eof' => x' = EOF
            BY <2>1, <2>3, RunningFacts
        <3> QED
            BY <2>1, <2>3, <3>2, <3>4, <3>5, GoesOn
    <2> QED
        BY <2>2, <2>3
<1> QED
    BY <1>1, <1>2, CallTokens, SkipWhiteTokens, SlashTokens, AfterSlashTokens, CommentTokens,
       BeginTokens, BeginStringTokens, AtEndTokens, MoreTokens DEF Next

(* The tokens the parser gets are those of the text, for every text: what  *)
(* a token takes and what is put back is never lost and never read twice.  *)
THEOREM TokensAreThose == Spec => []TokensAreTheText
<1>1. Init => TokensInv
    <2> SUFFICES ASSUME Init PROVE TokensInv
        OBVIOUS
    <2>1. state = "idle" /\ ~eof /\ Consumed = <<>> /\ tokens = <<>>
        BY DEF Init, Consumed
    <2>2. ASSUME NEW q \in Seq(Char) PROVE TokensOf[<<>> \o q] = <<>> \o TokensOf[q]
        <3>1. TokensOf[q] \in Seq(Token) /\ <<>> \o q = q
            BY TokensOfIs, NoneFits
        <3> QED
            BY <3>1, NoneFits
    <2> QED
        BY <2>1, <2>2 DEF TokensInv, Boundary
<1>2. ScanInv /\ TokensInv => TokensAreTheText
    <2> SUFFICES ASSUME ScanInv, TokensInv, state = "idle",
                        Fits(TokensOf[Consumed]), ~EndsInSlash(TokensOf[Consumed])
                 PROVE  tokens = TokensOf[Consumed]
        BY DEF TokensAreTheText
    <2>1. /\ pb \in Seq(Char) /\ eof \in BOOLEAN /\ (eof => pb = <<>>)
          /\ text \in Seq(Char) /\ tokens \in Seq(Token)
        BY DEF ScanInv, TypeOK
    <2>2. CASE eof
        <3>1. Consumed = text
            <4>1. Len(pb) = 0 /\ Len(text) - 0 = Len(text)
                  /\ SubSeq(text, 1, Len(text)) = text
                BY <2>1, <2>2
            <4> QED
                BY <4>1 DEF Consumed
        <3> QED
            BY <2>2, <3>1 DEF TokensInv
    <2>3. CASE ~eof
        <3>1. Boundary(Consumed, tokens, Follows)
            BY <2>3 DEF TokensInv
        <3>2. PICK w : w = Consumed
            OBVIOUS
        <3>3. w \in Seq(Char)
            BY <2>1, <3>2, ConsumedIs, ButLastIs DEF ScanInv, AheadInv, ButLast
        <3>4. w \o <<>> = w /\ <<>> \in Seq(Char) /\ tokens \o <<>> = tokens
            BY <2>1, <3>3, NoneFits
        <3>5. Fits(TokensOf[w \o <<>>]) => TokensOf[w \o <<>>] = tokens \o TokensOf[<<>>]
            BY <3>1, <3>2, <3>4 DEF Boundary
        <3> QED
            BY <3>2, <3>4, <3>5, NoneFits
    <2> QED
        BY <2>2, <2>3
<1> QED
    BY <1>1, <1>2, TokensNext, InitInv, NextInv, PTL DEF Spec
=============================================================================
