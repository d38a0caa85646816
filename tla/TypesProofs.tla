---------------------------- MODULE TypesProofs ----------------------------
(***************************************************************************)
(* Theorems about Types, for any number of types and names: unification is *)
(* exact, what is known stays known, and the loops over types end.         *)
(*                                                                         *)
(* What is meant is the finest partition that satisfies everything asked;  *)
(* what has been done is a coarser and coarser one, and the calls still to *)
(* be made are the difference (Exact).  This needs no occurs check and no  *)
(* order of calls: a link is made before the calls for the parts, and what *)
(* they have still to do is what follows from the link (PartsFollow).      *)
(***************************************************************************)
EXTENDS Types, Induction, FiniteSetTheorems, SequenceTheorems, TLAPS

Label(T, t) == T[t].class
Parts(T, t) == T[t].parts
Up(T, t)    == T[t].unifier

(* A link of a type leads to a type, or there is none. *)
Linked(T) == \A t \in DOMAIN T : Up(T, t) \in DOMAIN T \union {Null}

(* The number of links from each type to its representative.               *)
Deep(T, depth) ==
    /\ depth \in [DOMAIN T -> Nat]
    /\ \A t \in DOMAIN T : Up(T, t) # Null => depth[Up(T, t)] < depth[t]

Forest(T) == Linked(T) /\ \E depth : Deep(T, depth)

(* What type_representative returns. *)
Represents(T) ==
    \A t \in DOMAIN T :
        /\ Representative(T, t) \in DOMAIN T
        /\ Up(T, Representative(T, t)) = Null
        /\ Up(T, t) = Null => Representative(T, t) = t
        /\ Up(T, t) # Null => Representative(T, t) = Representative(T, Up(T, t))

(* The recursive function in Representative exists, and comes to the end   *)
(* of the links.                                                           *)
LEMMA RepresentativeIs ==
    ASSUME NEW T, Forest(T)
    PROVE  Represents(T)
<1>. DEFINE D == DOMAIN T
            c == CHOOSE f : f = [p \in D |-> IF T[p].unifier = Null THEN p ELSE f[T[p].unifier]]
<1>1. PICK depth : Deep(T, depth)
  BY DEF Forest
<1>2. depth \in [D -> Nat] /\ \A t \in D : Up(T, t) # Null => Up(T, t) \in D /\ depth[Up(T, t)] < depth[t]
  BY <1>1 DEF Deep, Forest, Linked
<1>3. \E f : f = [p \in D |-> IF T[p].unifier = Null THEN p ELSE f[T[p].unifier]]
  <2>. DEFINE size == [t \in D |-> IF Up(T, t) = Null THEN 0 ELSE depth[t]]
              base == [t \in D |-> t]
              less == [t \in D |-> IF Up(T, t) = Null THEN t ELSE Up(T, t)]
              comb == [t \in D |-> [u \in D |-> u]]
  <2>1. /\ size \in [D -> Nat] /\ base \in [D -> D] /\ less \in [D -> D]
        /\ comb \in [D -> [D -> D]]
    BY <1>2
  <2>2. \A t \in D : size[t] # 0 => Up(T, t) # Null /\ less[t] = Up(T, t) /\ size[t] = depth[t]
    OBVIOUS
  <2>3. ASSUME NEW t \in D, size[t] # 0 PROVE size[less[t]] < size[t]
    <3>1. Up(T, t) \in D /\ depth[Up(T, t)] < depth[t] /\ size[t] = depth[t] /\ less[t] = Up(T, t)
      BY <1>2, <2>2, <2>3
    <3>2. size[Up(T, t)] = 0 \/ size[Up(T, t)] = depth[Up(T, t)]
      BY <3>1
    <3>. HIDE DEF size, less
    <3>3. depth[t] \in Nat /\ depth[Up(T, t)] \in Nat
      BY <1>2, <3>1
    <3>. QED BY <3>1, <3>2, <3>3
  <2>4. PICK f \in [D -> D] : \A t \in D : Recurs(f, t, size, base, less, comb)
    <3>. HIDE DEF size, base, less, comb
    <3>. QED BY <2>1, <2>3, RecursiveFunction
  <2>5. ASSUME NEW t \in D PROVE f[t] = IF T[t].unifier = Null THEN t ELSE f[T[t].unifier]
    <3>1. CASE Up(T, t) = Null
      BY <2>4, <3>1 DEF Recurs, Up
    <3>2. CASE Up(T, t) # Null
      <4>1. Up(T, t) \in D /\ depth[Up(T, t)] < depth[t] /\ depth[t] \in Nat /\ depth[Up(T, t)] \in Nat
        BY <1>2, <3>2
      <4>2. size[t] # 0 /\ less[t] = Up(T, t)
        BY <3>2, <4>1
      <4>3. f[t] = comb[t][f[Up(T, t)]]
        <5>. HIDE DEF size, less, comb, base
        <5>. QED BY <2>4, <4>2 DEF Recurs
      <4>4. f[t] = f[Up(T, t)]
        BY <2>4, <4>1, <4>3
      <4>. QED BY <3>2, <4>4 DEF Up
    <3>. QED BY <3>1, <3>2
  <2>. HIDE DEF size, base, less, comb
  <2>6. f = [t \in D |-> f[t]]
    BY <2>4
  <2>7. f = [p \in D |-> IF T[p].unifier = Null THEN p ELSE f[T[p].unifier]]
    BY <2>5, <2>6
  <2>. QED BY <2>7
<1>4. c = [p \in D |-> IF T[p].unifier = Null THEN p ELSE c[T[p].unifier]]
  BY <1>3
<1>5. \A t : Representative(T, t) = c[t]
  BY DEF Representative
<1>. HIDE DEF c
<1>6. \A t \in D : c[t] = IF Up(T, t) = Null THEN t ELSE c[Up(T, t)]
  BY <1>4 DEF Up
<1>. DEFINE Bad == {n \in Nat : \E t \in D : depth[t] = n /\ ~(c[t] \in D /\ Up(T, c[t]) = Null)}
<1>7. Bad = {}
  <2>1. SUFFICES ASSUME Bad # {} PROVE FALSE
    OBVIOUS
  <2>2. PICK n \in Bad : \A m \in Bad : n <= m
    <3>1. Bad \subseteq Nat
      OBVIOUS
    <3>. HIDE DEF Bad
    <3>. QED BY <2>1, <3>1, LeastNumber
  <2>3. PICK t \in D : depth[t] = n /\ ~(c[t] \in D /\ Up(T, c[t]) = Null)
    BY <2>2
  <2>4. Up(T, t) # Null
    BY <1>6, <2>3
  <2>5. PICK u : u = Up(T, t)
    OBVIOUS
  <2>6. u \in D /\ depth[u] < n /\ depth[u] \in Nat /\ n \in Nat /\ c[t] = c[u]
    BY <1>2, <1>6, <2>3, <2>4, <2>5
  <2>7. depth[u] \in Bad
    BY <2>3, <2>6
  <2>. HIDE DEF Bad
  <2>. QED BY <2>2, <2>6, <2>7
<1>8. \A t \in D : c[t] \in D /\ Up(T, c[t]) = Null
  <2>1. \A t \in D : depth[t] \in Nat
    BY <1>2
  <2>. QED BY <1>7, <2>1
<1>. QED BY <1>5, <1>6, <1>8 DEF Represents

(* Induction along the links. *)
LEMMA ForestInduction ==
    ASSUME NEW T, Forest(T), NEW S,
           \A t \in DOMAIN T : (Up(T, t) = Null \/ Up(T, t) \in S) => t \in S
    PROVE  DOMAIN T \subseteq S
<1>1. PICK depth : Deep(T, depth)
  BY DEF Forest
<1>2. /\ depth \in [DOMAIN T -> Nat]
      /\ \A t \in DOMAIN T : Up(T, t) # Null => Up(T, t) \in DOMAIN T /\ depth[Up(T, t)] < depth[t]
  BY <1>1 DEF Deep, Forest, Linked
<1>. DEFINE Bad == {n \in Nat : \E t \in DOMAIN T : depth[t] = n /\ t \notin S}
<1>3. SUFFICES ASSUME Bad # {} PROVE FALSE
  BY <1>2
<1>4. PICK n \in Bad : \A m \in Bad : n <= m
  <2>1. Bad \subseteq Nat
    OBVIOUS
  <2>. HIDE DEF Bad
  <2>. QED BY <1>3, <2>1, LeastNumber
<1>5. PICK t \in DOMAIN T : depth[t] = n /\ t \notin S
  BY <1>4
<1>6. PICK u : u = Up(T, t)
  OBVIOUS
<1>7. u # Null /\ u \notin S
  BY <1>5, <1>6
<1>8. u \in DOMAIN T /\ depth[u] < n /\ depth[u] \in Nat /\ n \in Nat
  BY <1>2, <1>5, <1>6, <1>7
<1>9. depth[u] \in Bad
  BY <1>7, <1>8
<1>. HIDE DEF Bad
<1>. QED BY <1>4, <1>8, <1>9

(* There is one way only to follow the links. *)
Follows(T, r) ==
    \A t \in DOMAIN T : /\ Up(T, t) = Null => r[t] = t
                        /\ Up(T, t) # Null => r[t] = r[Up(T, t)]

(* Any function that follows the links says what Representative says.      *)
LEMMA RepresentativeUnique ==
    ASSUME NEW T, Forest(T), NEW r, Follows(T, r)
    PROVE  \A t \in DOMAIN T : Representative(T, t) = r[t]
<1>. DEFINE S == {t \in DOMAIN T : Representative(T, t) = r[t]}
<1>1. Represents(T)
  BY RepresentativeIs
<1>2. ASSUME NEW t \in DOMAIN T, Up(T, t) = Null \/ Up(T, t) \in S PROVE t \in S
  BY <1>1, <1>2 DEF Represents, Follows
<1>3. DOMAIN T \subseteq S
  <2>. HIDE DEF S
  <2>. QED BY <1>2, ForestInduction
<1>. QED BY <1>3

(***************************************************************************)
(* The two ways in which the graph of types changes.                       *)
(***************************************************************************)
Kind == Compound \union {"var"} \union {Base[b] : b \in DOMAIN Base}
Type == [class : Kind, parts : Seq(Nat), unifier : Nat]

(* The same types, whatever their links. *)
SameShape(T, V) ==
    /\ DOMAIN V = DOMAIN T
    /\ \A t \in DOMAIN T : Label(V, t) = Label(T, t) /\ Parts(V, t) = Parts(T, t)

Links(T, V, s, t) == V = [T EXCEPT ![s].unifier = t]

(* A link changes nothing but itself.                                      *)
LEMMA LinkFacts ==
    ASSUME NEW T \in Seq(Type), NEW s \in DOMAIN T, NEW t \in DOMAIN T,
           NEW V, Links(T, V, s, t)
    PROVE  /\ V \in Seq(Type) /\ Len(V) = Len(T) /\ SameShape(T, V)
           /\ \A x \in DOMAIN T : Up(V, x) = IF x = s THEN t ELSE Up(T, x)
<1>1. T[s] \in Type /\ t \in Nat
  OBVIOUS
<1>2. PICK q : q = [T[s] EXCEPT !.unifier = t]
  OBVIOUS
<1>3. q \in Type /\ q.class = T[s].class /\ q.parts = T[s].parts /\ q.unifier = t
  BY <1>1, <1>2 DEF Type
<1>4. V = [T EXCEPT ![s] = q]
  BY <1>2 DEF Links
<1>5. /\ V \in Seq(Type) /\ Len(V) = Len(T) /\ DOMAIN V = DOMAIN T
      /\ \A x \in DOMAIN T : V[x] = IF x = s THEN q ELSE T[x]
  BY <1>3, <1>4
<1>. QED BY <1>3, <1>5 DEF SameShape, Label, Parts, Up

(* A representative gets a link to another one. *)
LEMMA LinkRepresentatives ==
    ASSUME NEW T \in Seq(Type), Forest(T), NEW s \in DOMAIN T, NEW t \in DOMAIN T,
           s # t, Up(T, s) = Null, Up(T, t) = Null,
           NEW V, Links(T, V, s, t)
    PROVE  /\ Forest(V)
           /\ \A x \in DOMAIN T :
                 Representative(V, x) =
                     IF Representative(T, x) = s THEN t ELSE Representative(T, x)
<1>. DEFINE D == DOMAIN T
<1>1. /\ DOMAIN V = D
      /\ \A x \in D : Up(V, x) = IF x = s THEN t ELSE Up(T, x)
  BY LinkFacts DEF SameShape
<1>2. Represents(T)
  BY RepresentativeIs
<1>3. PICK depth : Deep(T, depth)
  BY DEF Forest
<1>4. /\ depth \in [D -> Nat]
      /\ \A x \in D : Up(T, x) # Null => Up(T, x) \in D /\ depth[Up(T, x)] < depth[x]
  BY <1>3 DEF Deep, Forest, Linked
<1>5. 0 \notin D
  OBVIOUS
<1>6. Forest(V)
  <2>. DEFINE deeper == [x \in D |-> IF Representative(T, x) = s THEN depth[x] + depth[t] + 1
                                                                 ELSE depth[x]]
  <2>1. deeper \in [D -> Nat]
    BY <1>4
  <2>2. ASSUME NEW x \in D, Up(V, x) # Null PROVE Up(V, x) \in D /\ deeper[Up(V, x)] < deeper[x]
    <3>1. CASE x = s
      <4>1. Up(V, x) = t /\ Representative(T, x) = s /\ Representative(T, t) = t
        BY <1>1, <1>2, <3>1 DEF Represents
      <4>2. deeper[t] = depth[t] /\ deeper[x] = depth[x] + depth[t] + 1
        BY <4>1
      <4>3. depth[t] \in Nat /\ depth[x] \in Nat
        BY <1>4
      <4>. HIDE DEF deeper
      <4>. QED BY <4>1, <4>2, <4>3
    <3>2. CASE x # s
      <4>1. PICK u : u = Up(T, x)
        OBVIOUS
      <4>2. /\ Up(V, x) = u /\ u # Null /\ u \in D /\ depth[u] < depth[x]
            /\ depth[u] \in Nat /\ depth[x] \in Nat /\ depth[t] \in Nat
        BY <1>1, <1>4, <2>2, <3>2, <4>1
      <4>3. Representative(T, x) = Representative(T, u)
        BY <1>2, <4>1, <4>2 DEF Represents
      <4>4. CASE Representative(T, x) = s
        <5>1. deeper[x] = depth[x] + depth[t] + 1 /\ deeper[u] = depth[u] + depth[t] + 1
          BY <4>2, <4>3, <4>4
        <5>. HIDE DEF deeper
        <5>. QED BY <4>2, <5>1
      <4>5. CASE Representative(T, x) # s
        <5>1. deeper[x] = depth[x] /\ deeper[u] = depth[u]
          BY <4>2, <4>3, <4>5
        <5>. HIDE DEF deeper
        <5>. QED BY <4>2, <5>1
      <4>. QED BY <4>4, <4>5
    <3>. QED BY <3>1, <3>2
  <2>. HIDE DEF deeper
  <2>3. Deep(V, deeper) /\ Linked(V)
    BY <1>1, <2>1, <2>2 DEF Deep, Linked
  <2>. QED BY <2>3 DEF Forest
<1>. DEFINE r == [x \in D |-> IF Representative(T, x) = s THEN t ELSE Representative(T, x)]
<1>7. ASSUME NEW x \in D
      PROVE  /\ Up(V, x) = Null => r[x] = x
             /\ Up(V, x) # Null => r[x] = r[Up(V, x)]
  <2>1. CASE x = s
    <3>1. Up(V, x) = t /\ t # Null
      BY <1>1, <1>5, <2>1 DEF Null
    <3>2. Representative(T, x) = s /\ Representative(T, t) = t
      BY <1>2, <2>1 DEF Represents
    <3>. QED BY <3>1, <3>2
  <2>2. CASE x # s
    <3>1. Up(V, x) = Up(T, x)
      BY <1>1, <2>2
    <3>2. CASE Up(T, x) = Null
      <4>1. Representative(T, x) = x
        BY <1>2, <3>2 DEF Represents
      <4>. QED BY <2>2, <3>1, <3>2, <4>1
    <3>3. CASE Up(T, x) # Null
      <4>1. Up(T, x) \in D /\ Representative(T, x) = Representative(T, Up(T, x))
        BY <1>2, <1>4, <3>3 DEF Represents
      <4>. QED BY <3>1, <3>3, <4>1
    <3>. QED BY <3>2, <3>3
  <2>. QED BY <2>1, <2>2
<1>8. \A x \in D : Representative(V, x) = r[x]
  <2>. HIDE DEF r, D
  <2>1. Follows(V, r)
    BY <1>1, <1>7 DEF Follows
  <2>2. \A x \in DOMAIN V : Representative(V, x) = r[x]
    BY <1>6, <2>1, RepresentativeUnique
  <2>. QED BY <1>1, <2>2
<1>. QED BY <1>6, <1>8

(* More types that are their own representatives. *)
Extends(T, V) ==
    /\ V \in Seq(Type) /\ Len(T) <= Len(V)
    /\ \A t \in DOMAIN T : V[t] = T[t]
    /\ \A t \in DOMAIN V : t \notin DOMAIN T => Up(V, t) = Null

(* New types without links leave the representatives of the others alone.  *)
LEMMA ExtendRepresentatives ==
    ASSUME NEW T \in Seq(Type), Forest(T), NEW V, Extends(T, V)
    PROVE  /\ Forest(V)
           /\ \A t \in DOMAIN T : Representative(V, t) = Representative(T, t)
           /\ \A t \in DOMAIN V : t \notin DOMAIN T => Representative(V, t) = t
<1>1. /\ DOMAIN T \subseteq DOMAIN V
      /\ \A t \in DOMAIN T : Up(V, t) = Up(T, t)
      /\ \A t \in DOMAIN V : t \notin DOMAIN T => Up(V, t) = Null
  <2>1. Len(T) \in Nat /\ Len(V) \in Nat /\ DOMAIN T = 1 .. Len(T) /\ DOMAIN V = 1 .. Len(V)
    BY DEF Extends
  <2>2. DOMAIN T \subseteq DOMAIN V
    BY <2>1 DEF Extends
  <2>. QED BY <2>2 DEF Extends, Up
<1>2. Represents(T)
  BY RepresentativeIs
<1>3. PICK depth : Deep(T, depth)
  BY DEF Forest
<1>4. /\ depth \in [DOMAIN T -> Nat]
      /\ \A x \in DOMAIN T : Up(T, x) # Null => Up(T, x) \in DOMAIN T /\ depth[Up(T, x)] < depth[x]
  BY <1>3 DEF Deep, Forest, Linked
<1>5. Forest(V)
  <2>. DEFINE deeper == [t \in DOMAIN V |-> IF t \in DOMAIN T THEN depth[t] ELSE 0]
  <2>1. Deep(V, deeper)
    <3>1. deeper \in [DOMAIN V -> Nat]
      BY <1>4
    <3>2. ASSUME NEW t \in DOMAIN V, Up(V, t) # Null PROVE deeper[Up(V, t)] < deeper[t]
      <4>1. t \in DOMAIN T /\ Up(V, t) = Up(T, t) /\ Up(T, t) \in DOMAIN T /\ depth[Up(T, t)] < depth[t]
        BY <1>1, <1>4, <3>2
      <4>2. deeper[t] = depth[t] /\ deeper[Up(T, t)] = depth[Up(T, t)]
        BY <1>1, <4>1
      <4>. HIDE DEF deeper
      <4>. QED BY <4>1, <4>2
    <3>. HIDE DEF deeper
    <3>. QED BY <3>1, <3>2 DEF Deep
  <2>2. Linked(V)
    BY <1>1, <1>4 DEF Linked
  <2>. HIDE DEF deeper
  <2>. QED BY <2>1, <2>2 DEF Forest
<1>. DEFINE r == [t \in DOMAIN V |-> IF t \in DOMAIN T THEN Representative(T, t) ELSE t]
<1>6. ASSUME NEW t \in DOMAIN V
      PROVE  /\ Up(V, t) = Null => r[t] = t
             /\ Up(V, t) # Null => r[t] = r[Up(V, t)]
  <2>1. CASE t \in DOMAIN T
    <3>1. CASE Up(T, t) = Null
      <4>1. Representative(T, t) = t
        BY <1>2, <2>1, <3>1 DEF Represents
      <4>. QED BY <1>1, <2>1, <3>1, <4>1
    <3>2. CASE Up(T, t) # Null
      <4>1. Up(T, t) \in DOMAIN T /\ Representative(T, t) = Representative(T, Up(T, t))
        BY <1>2, <1>4, <2>1, <3>2 DEF Represents
      <4>. QED BY <1>1, <2>1, <3>2, <4>1
    <3>. QED BY <3>1, <3>2
  <2>2. CASE t \notin DOMAIN T
    BY <1>1, <2>2
  <2>. QED BY <2>1, <2>2
<1>7. \A t \in DOMAIN V : Representative(V, t) = r[t]
  <2>. HIDE DEF r
  <2>1. Follows(V, r)
    BY <1>6 DEF Follows
  <2>. QED BY <1>5, <2>1, RepresentativeUnique
<1>. QED BY <1>1, <1>5, <1>7

(***************************************************************************)
(* Partitions of the types, and the one that a set of equations means.     *)
(***************************************************************************)

(* Types as the constructors make them: two earlier types as parts, or none. *)
Shaped(T) ==
    /\ T \in Seq(Type)
    /\ \A t \in DOMAIN T :
          /\ Label(T, t) \in Compound => DOMAIN Parts(T, t) = {1, 2}
          /\ Label(T, t) \notin Compound => DOMAIN Parts(T, t) = {}
          /\ \A i \in DOMAIN Parts(T, t) : Parts(T, t)[i] \in 1 .. t - 1

Finer(c, q) == \A a \in DOMAIN c : c[a] \subseteq q[a]

(* With two types of one class their parts are together.                   *)
Kept(T, c) ==
    \A a \in DOMAIN T : \A b \in c[a] : Label(T, a) = Label(T, b) =>
        \A i \in DOMAIN Parts(T, a) : c[Parts(T, a)[i]] = c[Parts(T, b)[i]]

(* Parts are older types, and types of one class have as many.             *)
LEMMA ShapedFacts ==
    ASSUME NEW T, Shaped(T)
    PROVE  /\ T \in Seq(Type) /\ Len(T) \in Nat /\ DOMAIN T = 1 .. Len(T)
           /\ \A t \in DOMAIN T : \A i \in DOMAIN Parts(T, t) :
                /\ Parts(T, t)[i] \in DOMAIN T /\ Parts(T, t)[i] < t
                /\ \A u \in DOMAIN T : Label(T, t) = Label(T, u) => i \in DOMAIN Parts(T, u)
<1>1. T \in Seq(Type) /\ Len(T) \in Nat /\ DOMAIN T = 1 .. Len(T)
  BY DEF Shaped
<1>2. ASSUME NEW t \in DOMAIN T, NEW i \in DOMAIN Parts(T, t)
      PROVE  Parts(T, t)[i] \in DOMAIN T /\ Parts(T, t)[i] < t
  <2>1. Parts(T, t)[i] \in 1 .. t - 1 /\ t \in 1 .. Len(T)
    BY <1>1 DEF Shaped
  <2>. QED BY <1>1, <2>1
<1>3. ASSUME NEW t \in DOMAIN T, NEW i \in DOMAIN Parts(T, t), NEW u \in DOMAIN T,
             Label(T, t) = Label(T, u)
      PROVE  i \in DOMAIN Parts(T, u)
  BY <1>3 DEF Shaped
<1>. QED BY <1>1, <1>2, <1>3

(* What a partition is, element by element.                                *)
LEMMA PartitionFacts ==
    ASSUME NEW D, NEW c \in Partitions(D)
    PROVE  /\ c \in [D -> SUBSET D] /\ DOMAIN c = D
           /\ \A a \in D : a \in c[a] /\ c[a] \subseteq D
           /\ \A a, b \in D : b \in c[a] <=> c[a] = c[b]
           /\ \A a, b \in D : b \in c[a] => a \in c[b]
BY DEF Partitions

(* Parts that are torn have to be together in every partition that keeps   *)
(* parts together.                                                         *)
LEMMA TornIs ==
    ASSUME NEW T, Shaped(T), NEW c \in Partitions(DOMAIN T), NEW p \in Torn(T, c)
    PROVE  /\ p[1] \in DOMAIN T /\ p[2] \in DOMAIN T /\ c[p[1]] # c[p[2]]
           /\ \A q \in Partitions(DOMAIN T) : Finer(c, q) /\ Kept(T, q) => q[p[1]] = q[p[2]]
<1>1. /\ c \in [DOMAIN T -> SUBSET DOMAIN T] /\ DOMAIN c = DOMAIN T
      /\ \A a \in DOMAIN T : c[a] \subseteq DOMAIN T
  BY PartitionFacts
<1>0. PICK x \in (DOMAIN T) \X (DOMAIN T) :
          /\ x[2] \in c[x[1]] /\ T[x[1]].class = T[x[2]].class
          /\ \E i \in DOMAIN T[x[1]].parts : p = <<T[x[1]].parts[i], T[x[2]].parts[i]>>
          /\ c[p[1]] # c[p[2]]
  BY <1>1 DEF Torn
<1>2. PICK i \in DOMAIN T[x[1]].parts :
          /\ x[2] \in c[x[1]] /\ T[x[1]].class = T[x[2]].class
          /\ p = <<T[x[1]].parts[i], T[x[2]].parts[i]>> /\ c[p[1]] # c[p[2]]
  BY <1>0
<1>3. PICK a, b : a = x[1] /\ b = x[2]
  OBVIOUS
<1>4. /\ a \in DOMAIN T /\ b \in DOMAIN T /\ b \in c[a] /\ Label(T, a) = Label(T, b)
      /\ i \in DOMAIN Parts(T, a)
      /\ p[1] = Parts(T, a)[i] /\ p[2] = Parts(T, b)[i]
  BY <1>2, <1>3 DEF Label, Parts
<1>5. p[1] \in DOMAIN T /\ p[2] \in DOMAIN T
  BY <1>4, ShapedFacts
<1>6. ASSUME NEW q \in Partitions(DOMAIN T), Finer(c, q), Kept(T, q)
      PROVE  q[p[1]] = q[p[2]]
  BY <1>1, <1>4, <1>6 DEF Finer, Kept
<1>. QED BY <1>2, <1>5, <1>6

(* Nothing is torn if and only if types of one class have their parts      *)
(* together.                                                               *)
LEMMA ClosedIsKept ==
    ASSUME NEW T, Shaped(T), NEW c \in Partitions(DOMAIN T)
    PROVE  Torn(T, c) = {} <=> Kept(T, c)
<1>1. DOMAIN c = DOMAIN T /\ \A a \in DOMAIN T : c[a] \subseteq DOMAIN T
  BY PartitionFacts
<1>2. ASSUME Kept(T, c), NEW p \in Torn(T, c) PROVE FALSE
  <2>1. Finer(c, c)
    BY DEF Finer
  <2>. QED BY <1>2, <2>1, TornIs
<1>3. ASSUME Torn(T, c) = {}, NEW a \in DOMAIN T, NEW b \in c[a], Label(T, a) = Label(T, b),
             NEW i \in DOMAIN Parts(T, a)
      PROVE  c[Parts(T, a)[i]] = c[Parts(T, b)[i]]
  <2>1. PICK x : x = <<a, b>>
    OBVIOUS
  <2>2. /\ x \in (DOMAIN T) \X (DOMAIN T) /\ x[1] = a /\ x[2] = b
        /\ x[2] \in c[x[1]] /\ T[x[1]].class = T[x[2]].class
    BY <1>1, <1>3, <2>1 DEF Label
  <2>3. PICK p : p = <<T[x[1]].parts[i], T[x[2]].parts[i]>>
    OBVIOUS
  <2>4. T[a].parts # <<>> /\ T[b].parts # <<>>
    <3>1. i \in DOMAIN T[a].parts /\ i \in DOMAIN T[b].parts
      BY <1>1, <1>3, ShapedFacts DEF Parts
    <3>2. DOMAIN <<>> = {}
      OBVIOUS
    <3>. QED BY <3>1, <3>2
  <2>5. x \in {t \in DOMAIN c : T[t].parts # <<>>} \X {t \in DOMAIN c : T[t].parts # <<>>}
    BY <1>1, <1>3, <2>1, <2>4
  <2>6. c[p[1]] # c[p[2]] => p \in Torn(T, c)
    BY <1>1, <1>3, <2>2, <2>3, <2>5 DEF Torn, Parts
  <2>7. p[1] = Parts(T, a)[i] /\ p[2] = Parts(T, b)[i]
    BY <2>2, <2>3 DEF Parts
  <2>. QED BY <1>3, <2>6, <2>7
<1>. QED BY <1>2, <1>3 DEF Kept

(* Two classes of a partition become one. *)
LEMMA MergedIs ==
    ASSUME NEW D, NEW c \in Partitions(D), NEW a \in D, NEW b \in D
    PROVE  /\ Merged(c, a, b) \in Partitions(D)
           /\ Finer(c, Merged(c, a, b))
           /\ b \in Merged(c, a, b)[a]
           /\ \A q \in Partitions(D) : Finer(c, q) /\ q[a] = q[b] => Finer(Merged(c, a, b), q)
<1>. DEFINE both == c[a] \union c[b]
<1>1. PICK m : m = Merged(c, a, b)
  OBVIOUS
<1>2. DOMAIN c = D /\ \A x \in D : x \in c[x] /\ c[x] \subseteq D
  BY PartitionFacts
<1>3. \A x, y \in D : y \in c[x] <=> c[x] = c[y]
  BY PartitionFacts
<1>4. m = [x \in D |-> IF x \in both THEN both ELSE c[x]]
  BY <1>1, <1>2 DEF Merged
<1>5. both \subseteq D /\ a \in both /\ b \in both
  BY <1>2
<1>6. ASSUME NEW x \in D PROVE x \in both <=> c[x] = c[a] \/ c[x] = c[b]
  BY <1>2, <1>3
<1>7. m \in Partitions(D)
  <2>1. m \in [D -> SUBSET D]
    BY <1>2, <1>4, <1>5
  <2>2. ASSUME NEW x \in D PROVE x \in m[x] /\ \A y \in m[x] : m[y] = m[x]
    <3>1. CASE x \in both
      BY <1>4, <1>5, <3>1
    <3>2. CASE x \notin both
      <4>1. m[x] = c[x]
        BY <1>4, <3>2
      <4>2. ASSUME NEW y \in c[x] PROVE y \in D /\ c[y] = c[x] /\ y \notin both
        <5>1. y \in D /\ c[y] = c[x]
          BY <1>2, <1>3
        <5>. QED BY <1>6, <3>2, <5>1
      <4>. HIDE DEF both
      <4>. QED BY <1>2, <1>4, <4>1, <4>2
    <3>. QED BY <3>1, <3>2
  <2>. QED BY <2>1, <2>2 DEF Partitions
<1>8. Finer(c, m)
  <2>1. ASSUME NEW x \in D PROVE c[x] \subseteq m[x]
    <3>1. x \in both => c[x] \subseteq both
      BY <1>6
    <3>. QED BY <1>4, <3>1
  <2>. QED BY <1>2, <2>1 DEF Finer
<1>9. b \in m[a]
  BY <1>4, <1>5
<1>10. ASSUME NEW q \in Partitions(D), Finer(c, q), q[a] = q[b] PROVE Finer(m, q)
  <2>1. /\ \A x \in D : x \in q[x]
        /\ \A x, y \in D : y \in q[x] <=> q[x] = q[y]
    BY PartitionFacts
  <2>2. \A x \in D : c[x] \subseteq q[x]
    BY <1>2, <1>10 DEF Finer
  <2>3. both \subseteq q[a]
    BY <1>10, <2>2
  <2>4. ASSUME NEW x \in D PROVE m[x] \subseteq q[x]
    <3>1. CASE x \in both
      <4>1. q[x] = q[a]
        BY <2>1, <2>3, <3>1
      <4>. QED BY <1>4, <2>3, <3>1, <4>1
    <3>2. CASE x \notin both
      BY <1>4, <2>2, <3>2
    <3>. QED BY <3>1, <3>2
  <2>5. DOMAIN m = D
    BY <1>4
  <2>. QED BY <2>4, <2>5 DEF Finer
<1>. QED BY <1>1, <1>7, <1>8, <1>9, <1>10

(* The finest partition that is coarser than c and keeps parts together.   *)
Least(T, c, m) ==
    /\ m \in Partitions(DOMAIN T) /\ Finer(c, m) /\ Kept(T, m)
    /\ \A q \in Partitions(DOMAIN T) : Finer(c, q) /\ Kept(T, q) => Finer(m, q)

(* Merging two classes leaves fewer pairs apart. *)
Apart(D, c) == {p \in D \X D : c[p[1]] # c[p[2]]}

(* Each step of Closure leaves fewer pairs of types apart, so that it      *)
(* comes to an end.                                                        *)
LEMMA FewerApart ==
    ASSUME NEW D, IsFiniteSet(D), NEW c \in Partitions(D), NEW a \in D, NEW b \in D, c[a] # c[b]
    PROVE  /\ Cardinality(Apart(D, c)) \in Nat /\ Cardinality(Apart(D, Merged(c, a, b))) \in Nat
           /\ Cardinality(Apart(D, Merged(c, a, b))) < Cardinality(Apart(D, c))
<1>1. PICK m \in Partitions(D) : m = Merged(c, a, b)
  BY MergedIs
<1>2. Finer(c, m) /\ b \in m[a]
  BY <1>1, MergedIs
<1>3. m[a] = m[b] /\ DOMAIN c = D
  BY <1>2, PartitionFacts
<1>4. ASSUME NEW x \in D, NEW y \in D, c[x] = c[y] PROVE m[x] = m[y]
  <2>1. y \in c[x]
    BY <1>4, PartitionFacts
  <2>2. y \in m[x]
    BY <1>2, <1>3, <2>1 DEF Finer
  <2>. QED BY <2>2, PartitionFacts
<1>5. Apart(D, m) \subseteq Apart(D, c)
  BY <1>4 DEF Apart
<1>6. <<a, b>> \in Apart(D, c) /\ <<a, b>> \notin Apart(D, m)
  BY <1>3 DEF Apart
<1>7. IsFiniteSet(D \X D)
  BY FS_Product
<1>8. Apart(D, c) \subseteq D \X D
  BY DEF Apart
<1>9. IsFiniteSet(Apart(D, c)) /\ Cardinality(Apart(D, c)) \in Nat
  BY <1>7, <1>8, FS_Subset, FS_CardinalityType
<1>10. IsFiniteSet(Apart(D, m)) /\ Cardinality(Apart(D, m)) \in Nat
  BY <1>5, <1>9, FS_Subset, FS_CardinalityType
<1>11. /\ Cardinality(Apart(D, m)) <= Cardinality(Apart(D, c))
       /\ Cardinality(Apart(D, m)) = Cardinality(Apart(D, c)) => Apart(D, m) = Apart(D, c)
  BY <1>5, <1>9, FS_Subset
<1>. QED BY <1>1, <1>6, <1>9, <1>10, <1>11

(* Closure exists, for every partition, and is the finest that keeps parts *)
(* together.                                                               *)
LEMMA ClosureIsLeast ==
    ASSUME NEW T, Shaped(T)
    PROVE  \A c \in Partitions(DOMAIN T) : Least(T, c, Closure(T, c))
<1>. DEFINE D == DOMAIN T
            P == Partitions(D)
            pair(c) == CHOOSE p \in Torn(T, c) : TRUE
            next(c) == Merged(c, pair(c)[1], pair(c)[2])
            close == CHOOSE f : f = [c \in P |->
                        LET torn == Torn(T, c) IN
                        IF torn = {} THEN c
                        ELSE LET p == CHOOSE p \in torn : TRUE IN f[Merged(c, p[1], p[2])]]
            size == [c \in P |-> IF Torn(T, c) = {} THEN 0 ELSE Cardinality(Apart(D, c)) + 1]
<1>1. D = 1 .. Len(T) /\ Len(T) \in Nat /\ IsFiniteSet(D)
  BY ShapedFacts, FS_Interval
<1>2. ASSUME NEW c \in P, Torn(T, c) # {}
      PROVE  /\ pair(c) \in Torn(T, c) /\ pair(c)[1] \in D /\ pair(c)[2] \in D
             /\ c[pair(c)[1]] # c[pair(c)[2]]
  <2>1. pair(c) \in Torn(T, c)
    BY <1>2
  <2>. HIDE DEF pair
  <2>. QED BY <2>1, TornIs
<1>3. ASSUME NEW c \in P, Torn(T, c) # {} PROVE next(c) \in P
  <2>. HIDE DEF pair
  <2>. QED BY <1>2, <1>3, MergedIs
<1>4. ASSUME NEW c \in P PROVE Cardinality(Apart(D, c)) \in Nat
  <2>1. IsFiniteSet(D \X D)
    BY <1>1, FS_Product
  <2>2. Apart(D, c) \subseteq D \X D
    BY DEF Apart
  <2>. QED BY <2>1, <2>2, FS_Subset, FS_CardinalityType
<1>5. size \in [P -> Nat]
  <2>. HIDE DEF P
  <2>. QED BY <1>4
<1>6. ASSUME NEW c \in P, Torn(T, c) # {} PROVE size[c] # 0 /\ size[next(c)] < size[c]
  <2>1. PICK a, b : a = pair(c)[1] /\ b = pair(c)[2]
    OBVIOUS
  <2>2. a \in D /\ b \in D /\ c[a] # c[b]
    BY <1>2, <1>6, <2>1
  <2>3. PICK n : n = next(c)
    OBVIOUS
  <2>4. n = Merged(c, a, b) /\ n \in P
    BY <1>3, <1>6, <2>1, <2>3
  <2>5. /\ Cardinality(Apart(D, c)) \in Nat /\ Cardinality(Apart(D, n)) \in Nat
        /\ Cardinality(Apart(D, n)) < Cardinality(Apart(D, c))
    BY <1>1, <2>2, <2>4, FewerApart
  <2>6. size[c] = Cardinality(Apart(D, c)) + 1
    BY <1>6
  <2>7. size[n] = 0 \/ size[n] = Cardinality(Apart(D, n)) + 1
    BY <2>4
  <2>. HIDE DEF size, next
  <2>8. size[n] < size[c] /\ size[c] # 0
    BY <2>5, <2>6, <2>7
  <2>. QED BY <2>3, <2>8
<1>7. \E f : f = [c \in P |->
                    LET torn == Torn(T, c) IN
                    IF torn = {} THEN c
                    ELSE LET p == CHOOSE p \in torn : TRUE IN f[Merged(c, p[1], p[2])]]
  <2>. DEFINE base == [c \in P |-> c]
              less == [c \in P |-> IF Torn(T, c) = {} THEN c ELSE next(c)]
              comb == [c \in P |-> [d \in P |-> d]]
  <2>1. base \in [P -> P] /\ comb \in [P -> [P -> P]]
    OBVIOUS
  <2>2. less \in [P -> P]
    <3>. HIDE DEF next, P
    <3>. QED BY <1>3
  <2>3. \A c \in P : size[c] # 0 => Torn(T, c) # {}
    OBVIOUS
  <2>4. \A c \in P : Torn(T, c) # {} => less[c] = next(c)
    OBVIOUS
  <2>5. \A c \in P : size[c] # 0 => size[less[c]] < size[c]
    <3>. HIDE DEF size, next, less, P
    <3>. QED BY <1>6, <2>3, <2>4
  <2>6. PICK f \in [P -> P] : \A c \in P : Recurs(f, c, size, base, less, comb)
    <3>. HIDE DEF size, base, less, comb, P
    <3>. QED BY <1>5, <2>1, <2>2, <2>5, RecursiveFunction
  <2>7. ASSUME NEW c \in P PROVE f[c] = IF Torn(T, c) = {} THEN c ELSE f[next(c)]
    <3>1. CASE Torn(T, c) = {}
      <4>1. size[c] = 0 /\ base[c] = c
        BY <3>1
      <4>. HIDE DEF size, base, less, comb
      <4>. QED BY <2>6, <3>1, <4>1 DEF Recurs
    <3>2. CASE Torn(T, c) # {}
      <4>1. size[c] # 0 /\ less[c] = next(c) /\ next(c) \in P
        BY <1>3, <1>6, <3>2
      <4>2. f[c] = comb[c][f[next(c)]]
        <5>. HIDE DEF size, base, less, comb, next
        <5>. QED BY <2>6, <4>1 DEF Recurs
      <4>3. f[next(c)] \in P
        <5>. HIDE DEF next, P
        <5>. QED BY <2>6, <4>1
      <4>. HIDE DEF next
      <4>. QED BY <3>2, <4>2, <4>3
    <3>. QED BY <3>1, <3>2
  <2>8. f = [c \in P |-> f[c]]
    BY <2>6
  <2>9. f = [c \in P |-> IF Torn(T, c) = {} THEN c ELSE f[next(c)]]
    <3>. HIDE DEF next, P
    <3>. QED BY <2>7, <2>8
  <2>. QED BY <2>9
<1>8. close = [c \in P |->
                 LET torn == Torn(T, c) IN
                 IF torn = {} THEN c
                 ELSE LET p == CHOOSE p \in torn : TRUE IN close[Merged(c, p[1], p[2])]]
  <2>. QED BY <1>7
<1>9. \A c : Closure(T, c) = close[c]
  BY DEF Closure
<1>. HIDE DEF close
<1>10. \A c \in P : close[c] = IF Torn(T, c) = {} THEN c ELSE close[next(c)]
  BY <1>8
<1>. DEFINE Bad == {n \in Nat : \E c \in P : size[c] = n /\ ~Least(T, c, close[c])}
<1>11. Bad = {}
  <2>1. SUFFICES ASSUME Bad # {} PROVE FALSE
    OBVIOUS
  <2>2. PICK n \in Bad : \A k \in Bad : n <= k
    <3>1. Bad \subseteq Nat
      OBVIOUS
    <3>. HIDE DEF Bad
    <3>. QED BY <2>1, <3>1, LeastNumber
  <2>3. PICK c \in P : size[c] = n /\ ~Least(T, c, close[c])
    BY <2>2
  <2>4. DOMAIN c = D
    BY PartitionFacts
  <2>5. CASE Torn(T, c) = {}
    <3>1. close[c] = c
      BY <1>10, <2>5
    <3>2. Kept(T, c) /\ Finer(c, c)
      BY <2>5, ClosedIsKept DEF Finer
    <3>3. Least(T, c, c)
      BY <3>2 DEF Least
    <3>. QED BY <2>3, <3>1, <3>3
  <2>6. CASE Torn(T, c) # {}
    <3>1. PICK d : d = next(c)
      OBVIOUS
    <3>2. d \in P /\ size[d] < size[c] /\ close[c] = close[d]
      BY <1>3, <1>6, <1>10, <2>6, <3>1
    <3>3. size[d] \in Nat /\ size[c] \in Nat
      BY <1>5, <3>2
    <3>4. Least(T, d, close[d])
      <4>1. size[d] \notin Bad
        <5>. HIDE DEF Bad, size
        <5>. QED BY <2>2, <2>3, <3>2, <3>3
      <4>. HIDE DEF size
      <4>. QED BY <3>2, <3>3, <4>1
    <3>5. PICK a, b : a = pair(c)[1] /\ b = pair(c)[2]
      OBVIOUS
    <3>6. a \in D /\ b \in D /\ d = Merged(c, a, b) /\ pair(c) \in Torn(T, c)
      BY <1>2, <2>6, <3>1, <3>5
    <3>7. Finer(c, d) /\ DOMAIN d = D
      BY <3>2, <3>6, MergedIs, PartitionFacts
    <3>8. ASSUME NEW q \in P, Finer(c, q), Kept(T, q) PROVE Finer(d, q)
      <4>1. q[a] = q[b]
        <5>. HIDE DEF pair
        <5>. QED BY <3>5, <3>6, <3>8, TornIs
      <4>. QED BY <3>6, <3>8, <4>1, MergedIs
    <3>9. PICK m : m = close[d]
      OBVIOUS
    <3>10. Least(T, d, m) /\ ~Least(T, c, m)
      BY <2>3, <3>2, <3>4, <3>9
    <3>11. Finer(c, m)
      BY <2>4, <3>7, <3>10 DEF Least, Finer
    <3>. HIDE DEF next, size, pair
    <3>12. Least(T, c, m)
      BY <3>8, <3>10, <3>11 DEF Least
    <3>. QED BY <3>10, <3>12
  <2>. QED BY <2>5, <2>6
<1>12. \A c \in P : size[c] \in Nat
  BY <1>5
<1>13. \A c \in P : Least(T, c, close[c])
  <2>. HIDE DEF size, P
  <2>. QED BY <1>11, <1>12
<1>. QED BY <1>9, <1>13

(***************************************************************************)
(* One call of type_unify.                                                 *)
(***************************************************************************)

(* A known type is in a class of its own kind. *)
Honest(T) == \A t \in DOMAIN T : Label(T, t) # "var" => ClassOf(T, t) = Label(T, t)

(* Types without parts exist once, from the beginning. *)
Simple(T) ==
    /\ DOMAIN Base \subseteq DOMAIN T
    /\ \A b \in DOMAIN Base : Label(T, b) = Base[b]
    /\ \A t \in DOMAIN T : Label(T, t) \notin Compound \union {"var"} => t \in DOMAIN Base

Graph(T) == Shaped(T) /\ Forest(T) /\ Honest(T) /\ Simple(T)

Same(T, a, b) == Representative(T, a) = Representative(T, b)

(* m and n are now in one class, and otherwise nothing has changed. *)
Joins(T, V, m, n) ==
    \A x, y \in DOMAIN T :
        Same(V, x, y) <=> \/ Same(T, x, y)
                          \/ Same(T, x, m) /\ Same(T, y, n)
                          \/ Same(T, x, n) /\ Same(T, y, m)

KnownStay(T, V) == \A t \in DOMAIN T : IsKnown(T, t) => ClassOf(V, t) = ClassOf(T, t)

(* What is never undone, and nothing made that is a set.                   *)
Keeps(T, V) ==
    /\ DOMAIN T \subseteq DOMAIN V
    /\ \A x \in DOMAIN T : Label(V, x) = Label(T, x) /\ Parts(V, x) = Parts(T, x)
    /\ \A x, y \in DOMAIN T : Same(T, x, y) => Same(V, x, y)
    /\ \A x \in DOMAIN V : x \notin DOMAIN T => Label(V, x) # "set"

(* One after the other, two steps keep what each of them keeps.            *)
LEMMA KeepsTransitive ==
    ASSUME NEW T, NEW U, NEW V, Keeps(T, U), Keeps(U, V)
    PROVE  Keeps(T, V)
BY DEF Keeps

(* Class and parts of a type are those of its representative.              *)
LEMMA ClassIs ==
    ASSUME NEW T, Graph(T)
    PROVE  /\ Represents(T)
           /\ \A t \in DOMAIN T : /\ Representative(T, t) \in DOMAIN T
                                  /\ ClassOf(T, t) = Label(T, Representative(T, t))
                                  /\ PartsOf(T, t) = Parts(T, Representative(T, t))
                                  /\ Up(T, Representative(T, t)) = Null
                                  /\ Representative(T, Representative(T, t)) = Representative(T, t)
<1>1. Represents(T)
  BY RepresentativeIs DEF Graph
<1>. QED BY <1>1 DEF Represents, ClassOf, PartsOf, Label, Parts

(* Of two classes that are merged, a known one keeps its representative.   *)
LEMMA LinkedGraph ==
    ASSUME NEW T, Graph(T), NEW s \in DOMAIN T, NEW t \in DOMAIN T, s # t,
           Up(T, s) = Null, Up(T, t) = Null,
           Label(T, s) # "var" => Label(T, t) = Label(T, s),
           NEW V, Links(T, V, s, t)
    PROVE  Graph(V) /\ SameShape(T, V) /\ Joins(T, V, s, t) /\ KnownStay(T, V)
<1>1. T \in Seq(Type) /\ Forest(T)
  BY DEF Graph, Shaped
<1>2. V \in Seq(Type) /\ SameShape(T, V)
  BY <1>1, LinkFacts
<1>3. /\ Forest(V)
      /\ \A x \in DOMAIN T :
            Representative(V, x) = IF Representative(T, x) = s THEN t ELSE Representative(T, x)
  BY <1>1, LinkRepresentatives
<1>4. /\ DOMAIN V = DOMAIN T
      /\ \A x \in DOMAIN T : Label(V, x) = Label(T, x) /\ Parts(V, x) = Parts(T, x)
  BY <1>2 DEF SameShape
<1>5. Represents(T) /\ Representative(T, s) = s /\ Representative(T, t) = t
  BY ClassIs DEF Represents
<1>6. ASSUME NEW x \in DOMAIN T
      PROVE  /\ ClassOf(T, x) = Label(T, Representative(T, x))
             /\ ClassOf(V, x) = Label(T, Representative(V, x))
  <2>1. Representative(T, x) \in DOMAIN T /\ ClassOf(T, x) = Label(T, Representative(T, x))
    BY ClassIs
  <2>2. Representative(V, x) \in DOMAIN T
    BY <1>3, <2>1
  <2>. QED BY <1>4, <2>1, <2>2 DEF ClassOf, Label
<1>7. KnownStay(T, V)
  <2>1. ASSUME NEW x \in DOMAIN T, IsKnown(T, x) PROVE ClassOf(V, x) = ClassOf(T, x)
    <3>1. CASE Representative(T, x) = s
      BY <1>3, <1>6, <2>1, <3>1 DEF IsKnown
    <3>2. CASE Representative(T, x) # s
      BY <1>3, <1>6, <3>2
    <3>. QED BY <3>1, <3>2
  <2>. QED BY <2>1 DEF KnownStay
<1>8. Joins(T, V, s, t)
  <2>1. ASSUME NEW x \in DOMAIN T, NEW y \in DOMAIN T
        PROVE  Same(V, x, y) <=> \/ Same(T, x, y)
                                 \/ Same(T, x, s) /\ Same(T, y, t)
                                 \/ Same(T, x, t) /\ Same(T, y, s)
    <3>. DEFINE a == Representative(T, x)
                b == Representative(T, y)
    <3>1. /\ Same(V, x, y) <=> (IF a = s THEN t ELSE a) = (IF b = s THEN t ELSE b)
          /\ Same(T, x, y) <=> a = b
          /\ Same(T, x, s) <=> a = s
          /\ Same(T, x, t) <=> a = t
          /\ Same(T, y, s) <=> b = s
          /\ Same(T, y, t) <=> b = t
      BY <1>3, <1>5 DEF Same
    <3>. HIDE DEF a, b
    <3>. QED BY <3>1
  <2>. QED BY <2>1 DEF Joins
<1>9. Shaped(V)
  BY <1>2, <1>4 DEF Graph, Shaped
<1>10. Honest(V)
  <2>1. ASSUME NEW x \in DOMAIN T, Label(T, x) # "var" PROVE ClassOf(V, x) = Label(T, x)
    <3>1. ClassOf(T, x) = Label(T, x)
      BY <2>1 DEF Graph, Honest
    <3>. QED BY <1>7, <2>1, <3>1 DEF KnownStay, IsKnown
  <2>. QED BY <1>4, <2>1 DEF Honest
<1>11. Simple(V)
  <2>1. Simple(T)
    BY DEF Graph
  <2>. QED BY <1>4, <2>1 DEF Simple
<1>. QED BY <1>2, <1>3, <1>7, <1>8, <1>9, <1>10, <1>11 DEF Graph

(* Types without parts that have the same class are the same type.         *)
LEMMA SimpleOnce ==
    ASSUME NEW T, Graph(T), NEW s \in DOMAIN T, NEW t \in DOMAIN T,
           Label(T, s) = Label(T, t), Label(T, s) \notin Compound \union {"var"}
    PROVE  s = t
<1>1. s \in DOMAIN Base /\ t \in DOMAIN Base /\ Base[s] = Base[t]
  BY DEF Graph, Simple
<1>. QED BY <1>1, BaseAssumption

(* One call of type_unify makes two classes one, or finds them to be one.  *)
LEMMA UnifiedIs ==
    ASSUME NEW T, Graph(T), NEW m \in DOMAIN T, NEW n \in DOMAIN T, ~Clash(T, m, n)
    PROVE  /\ Graph(Unified(T, m, n)) /\ SameShape(T, Unified(T, m, n))
           /\ Joins(T, Unified(T, m, n), m, n) /\ KnownStay(T, Unified(T, m, n))
           /\ Merges(T, m, n) <=> ~Same(T, m, n)
<1>1. PICK s, t : s = Representative(T, m) /\ t = Representative(T, n)
  OBVIOUS
<1>2. /\ s \in DOMAIN T /\ t \in DOMAIN T /\ Up(T, s) = Null /\ Up(T, t) = Null
      /\ ClassOf(T, m) = Label(T, s) /\ ClassOf(T, n) = Label(T, t)
      /\ Representative(T, s) = s /\ Representative(T, t) = t
  BY <1>1, ClassIs
<1>3. Merges(T, m, n) <=> s # t /\ (Label(T, s) = Label(T, t) =>
                                       Label(T, s) \in Compound \union {"var"})
  BY <1>1, <1>2 DEF Merges
<1>4. Same(T, m, n) <=> s = t
  BY <1>1 DEF Same
<1>5. Merges(T, m, n) <=> ~Same(T, m, n)
  BY <1>2, <1>3, <1>4, SimpleOnce
<1>6. CASE ~Merges(T, m, n)
  <2>1. Unified(T, m, n) = T /\ Same(T, m, n)
    BY <1>5, <1>6 DEF Unified
  <2>2. SameShape(T, T) /\ KnownStay(T, T)
    BY DEF SameShape, KnownStay
  <2>3. Joins(T, T, m, n)
    BY <2>1 DEF Joins, Same
  <2>. QED BY <1>5, <2>1, <2>2, <2>3
<1>7. CASE Merges(T, m, n)
  <2>1. PICK V : V = Unified(T, m, n)
    OBVIOUS
  <2>2. V = IF Label(T, s) # "var" THEN [T EXCEPT ![t].unifier = s]
                                   ELSE [T EXCEPT ![s].unifier = t]
    BY <1>1, <1>7, <2>1 DEF Unified, Union, Label
  <2>3. s # t
    BY <1>3, <1>7
  <2>4. Joins(T, V, s, t) \/ Joins(T, V, t, s) => Joins(T, V, m, n)
    <3>1. \A x : (Same(T, x, m) <=> Same(T, x, s)) /\ (Same(T, x, n) <=> Same(T, x, t))
      BY <1>1, <1>2 DEF Same
    <3>. QED BY <3>1 DEF Joins
  <2>5. CASE Label(T, s) # "var"
    <3>1. Links(T, V, t, s)
      BY <2>2, <2>5 DEF Links
    <3>2. Label(T, t) # "var" => Label(T, s) = Label(T, t)
      BY <1>2, <2>5 DEF Clash
    <3>3. Graph(V) /\ SameShape(T, V) /\ Joins(T, V, t, s) /\ KnownStay(T, V)
      BY <1>2, <2>3, <3>1, <3>2, LinkedGraph
    <3>. QED BY <1>5, <2>1, <2>4, <3>3
  <2>6. CASE Label(T, s) = "var"
    <3>1. Links(T, V, s, t)
      BY <2>2, <2>6 DEF Links
    <3>2. Graph(V) /\ SameShape(T, V) /\ Joins(T, V, s, t) /\ KnownStay(T, V)
      BY <1>2, <2>3, <2>6, <3>1, LinkedGraph
    <3>. QED BY <1>5, <2>1, <2>4, <3>2
  <2>. QED BY <2>5, <2>6
<1>. QED BY <1>6, <1>7

(* The classes of Representative are a partition.                          *)
LEMMA PartitionIs ==
    ASSUME NEW T, Forest(T)
    PROVE  /\ Partition(T) \in Partitions(DOMAIN T)
           /\ \A a \in DOMAIN T : \A b : b \in Partition(T)[a] <=> b \in DOMAIN T /\ Same(T, a, b)
<1>1. PICK c : c = Partition(T)
  OBVIOUS
<1>2. /\ c = [t \in DOMAIN T |-> c[t]]
      /\ \A a \in DOMAIN T : \A b : b \in c[a] <=> b \in DOMAIN T /\ Same(T, a, b)
  BY <1>1 DEF Partition, Same
<1>3. ASSUME NEW a \in DOMAIN T
      PROVE  a \in c[a] /\ c[a] \subseteq DOMAIN T /\ \A b \in c[a] : c[b] = c[a]
  BY <1>2 DEF Same
<1>4. c \in [DOMAIN T -> SUBSET DOMAIN T]
  BY <1>2, <1>3
<1>. QED BY <1>1, <1>2, <1>3, <1>4 DEF Partitions

(* A partition in which everything is together that is already, or has     *)
(* been asked to be and is still to be done.                               *)
Satisfies(T, C, q) ==
    /\ q \in Partitions(DOMAIN T)
    /\ \A a, b \in DOMAIN T : Same(T, a, b) => q[a] = q[b]
    /\ \A p \in C : q[p[1]] = q[p[2]]

(* What has been done and what is still to be done is just what is meant.  *)
Justified(T, C, m) ==
    \A q : Satisfies(T, C, q) /\ Kept(T, q) => Finer(m, q)

PartsFollow(T, C) ==
    \A q : Satisfies(T, C, q) =>
        \A a, b \in DOMAIN T : Same(T, a, b) /\ Label(T, a) = Label(T, b) =>
            \A i \in DOMAIN Parts(T, a) : q[Parts(T, a)[i]] = q[Parts(T, b)[i]]

Exact(T, C, m) ==
    /\ C \subseteq (DOMAIN T) \X (DOMAIN T)
    /\ Satisfies(T, C, m) /\ Kept(T, m)
    /\ Justified(T, C, m)
    /\ PartsFollow(T, C)

(* Functions of 1 .. 2 are sequences.                                      *)
LEMMA TwoAreSequence ==
    ASSUME NEW X, NEW c \in [1 .. 2 -> X]
    PROVE  c \in Seq(X)
BY SeqDef

(* The calls that a call makes are about the parts of the two              *)
(* representatives.                                                        *)
LEMMA SubcallsAre ==
    ASSUME NEW T, Graph(T), NEW m \in DOMAIN T, NEW n \in DOMAIN T, ~Clash(T, m, n),
           NEW s, NEW t, s = Representative(T, m), t = Representative(T, n)
    PROVE  /\ Subcalls(T, m, n) \in Seq((DOMAIN T) \X (DOMAIN T))
           /\ ~Same(T, m, n) /\ IsKnown(T, m) /\ IsKnown(T, n) =>
                 /\ Label(T, s) = Label(T, t) /\ DOMAIN Subcalls(T, m, n) = DOMAIN Parts(T, s)
                 /\ \A i \in DOMAIN Parts(T, s) :
                       Subcalls(T, m, n)[i] = <<Parts(T, s)[i], Parts(T, t)[i]>>
           /\ ~(~Same(T, m, n) /\ IsKnown(T, m) /\ IsKnown(T, n)) =>
                 Subcalls(T, m, n) = <<>>
<1>1. /\ s \in DOMAIN T /\ t \in DOMAIN T /\ PartsOf(T, m) = Parts(T, s) /\ PartsOf(T, n) = Parts(T, t)
      /\ ClassOf(T, m) = Label(T, s) /\ ClassOf(T, n) = Label(T, t)
  BY ClassIs
<1>2. Merges(T, m, n) <=> ~Same(T, m, n)
  BY UnifiedIs
<1>3. CASE Merges(T, m, n) /\ IsKnown(T, m) /\ IsKnown(T, n)
  <2>1. Label(T, s) = Label(T, t) /\ Label(T, s) # "var"
    BY <1>1, <1>3 DEF Clash, IsKnown
  <2>2. Label(T, s) \in Compound
    BY <1>1, <1>3, <2>1 DEF Merges
  <2>3. DOMAIN Parts(T, s) = 1 .. 2
    BY <1>1, <2>2 DEF Graph, Shaped
  <2>4. \A i \in DOMAIN Parts(T, s) : Parts(T, s)[i] \in DOMAIN T /\ Parts(T, t)[i] \in DOMAIN T
    <3>1. ASSUME NEW i \in DOMAIN Parts(T, s)
          PROVE  Parts(T, s)[i] \in DOMAIN T /\ Parts(T, t)[i] \in DOMAIN T
      <4>1. Shaped(T)
        BY DEF Graph
      <4>2. i \in DOMAIN Parts(T, t)
        BY <1>1, <2>1, <4>1, ShapedFacts
      <4>. QED BY <1>1, <4>1, <4>2, ShapedFacts
    <3>. QED BY <3>1
  <2>5. PICK c : c = Subcalls(T, m, n)
    OBVIOUS
  <2>6. c = [i \in DOMAIN Parts(T, s) |-> <<Parts(T, s)[i], Parts(T, t)[i]>>]
    BY <1>1, <1>3, <2>5 DEF Subcalls
  <2>7. c \in [1 .. 2 -> (DOMAIN T) \X (DOMAIN T)]
    BY <2>3, <2>4, <2>6
  <2>8. c \in Seq((DOMAIN T) \X (DOMAIN T))
    BY <2>7, TwoAreSequence
  <2>. QED BY <1>2, <1>3, <2>1, <2>5, <2>6, <2>8
<1>4. CASE ~(Merges(T, m, n) /\ IsKnown(T, m) /\ IsKnown(T, n))
  BY <1>2, <1>4 DEF Subcalls
<1>. QED BY <1>3, <1>4

Pairs(s) == {s[i] : i \in DOMAIN s}

(* A call does its part of what has been asked, and passes on the rest.    *)
LEMMA UnifyExact ==
    ASSUME NEW T, Graph(T), NEW m \in DOMAIN T, NEW n \in DOMAIN T, ~Clash(T, m, n),
           NEW R, NEW c, Exact(T, {<<m, n>>} \union R, c)
    PROVE  Exact(Unified(T, m, n), Pairs(Subcalls(T, m, n)) \union R, c)
<1>1. PICK V : V = Unified(T, m, n)
  OBVIOUS
<1>2. Graph(V) /\ SameShape(T, V) /\ Joins(T, V, m, n)
  BY <1>1, UnifiedIs
<1>3. /\ DOMAIN V = DOMAIN T
      /\ \A x \in DOMAIN T : Label(V, x) = Label(T, x) /\ Parts(V, x) = Parts(T, x)
  BY <1>2 DEF SameShape
<1>4. PICK s, t : s = Representative(T, m) /\ t = Representative(T, n)
  OBVIOUS
<1>5. PICK S : S = Subcalls(T, m, n)
  OBVIOUS
<1>6. /\ S \in Seq((DOMAIN T) \X (DOMAIN T))
      /\ ~Same(T, m, n) /\ IsKnown(T, m) /\ IsKnown(T, n) =>
                 /\ Label(T, s) = Label(T, t) /\ DOMAIN S = DOMAIN Parts(T, s)
                 /\ \A i \in DOMAIN Parts(T, s) : S[i] = <<Parts(T, s)[i], Parts(T, t)[i]>>
      /\ ~(~Same(T, m, n) /\ IsKnown(T, m) /\ IsKnown(T, n)) => S = <<>>
  BY <1>4, <1>5, SubcallsAre
<1>7. /\ s \in DOMAIN T /\ t \in DOMAIN T /\ Same(T, m, s) /\ Same(T, n, t)
      /\ ClassOf(T, m) = Label(T, s) /\ ClassOf(T, n) = Label(T, t)
  BY <1>4, ClassIs DEF Same
<1>8. PICK C : C = {<<m, n>>} \union R
  OBVIOUS
<1>9. PICK N : N = Pairs(S) \union R
  OBVIOUS
<1>10. Exact(T, C, c)
  BY <1>8
<1>11. N \subseteq (DOMAIN T) \X (DOMAIN T)
  BY <1>6, <1>8, <1>9, <1>10 DEF Exact, Pairs
<1>12. Kept(V, c)
  BY <1>3, <1>10 DEF Exact, Kept, Satisfies, Partitions
<1>13. ASSUME NEW q, Satisfies(V, N, q) PROVE Satisfies(T, C, q)
  <2>1. q \in Partitions(DOMAIN T)
    BY <1>3, <1>13 DEF Satisfies
  <2>2. ASSUME NEW a \in DOMAIN T, NEW b \in DOMAIN T, Same(T, a, b) PROVE q[a] = q[b]
    <3>1. Same(V, a, b)
      BY <1>2, <2>2 DEF Joins
    <3>. QED BY <1>3, <1>13, <3>1 DEF Satisfies
  <2>3. Same(V, m, n)
    BY <1>2 DEF Joins, Same
  <2>4. q[m] = q[n]
    BY <1>3, <1>13, <2>3 DEF Satisfies
  <2>5. ASSUME NEW p \in C PROVE q[p[1]] = q[p[2]]
    <3>1. CASE p = <<m, n>>
      BY <2>4, <3>1
    <3>2. CASE p \in R
      BY <1>9, <1>13, <3>2 DEF Satisfies
    <3>. QED BY <1>8, <2>5, <3>1, <3>2
  <2>. QED BY <2>1, <2>2, <2>5 DEF Satisfies
<1>14. Justified(V, N, c)
  <2>1. ASSUME NEW q, Satisfies(V, N, q), Kept(V, q) PROVE Finer(c, q)
    <3>1. Satisfies(T, C, q)
      BY <1>13, <2>1
    <3>2. Kept(T, q)
      BY <1>3, <2>1, <3>1 DEF Kept, Satisfies, Partitions
    <3>. QED BY <1>10, <3>1, <3>2 DEF Exact, Justified
  <2>. QED BY <2>1 DEF Justified
<1>15. Satisfies(V, N, c)
  <2>1. /\ c \in Partitions(DOMAIN T)
        /\ \A a, b \in DOMAIN T : Same(T, a, b) => c[a] = c[b]
        /\ \A p \in C : c[p[1]] = c[p[2]]
    BY <1>10 DEF Exact, Satisfies
  <2>2. c[m] = c[n]
    <3>1. <<m, n>> \in C
      BY <1>8
    <3>2. c[<<m, n>>[1]] = c[<<m, n>>[2]]
      BY <2>1, <3>1
    <3>. QED BY <3>2
  <2>3. c[s] = c[t] /\ t \in c[s]
    <3>1. c[s] = c[m] /\ c[t] = c[n]
      BY <1>7, <2>1
    <3>2. c[s] = c[t]
      BY <2>2, <3>1
    <3>. QED BY <1>7, <2>1, <3>2, PartitionFacts
  <2>4. ASSUME NEW a \in DOMAIN T, NEW b \in DOMAIN T, Same(V, a, b) PROVE c[a] = c[b]
    BY <1>2, <2>1, <2>2, <2>4 DEF Joins
  <2>5. ASSUME NEW p \in N PROVE c[p[1]] = c[p[2]]
    <3>1. CASE p \in R
      BY <1>8, <2>1, <3>1
    <3>2. CASE p \in Pairs(S)
      <4>1. PICK i \in DOMAIN S : p = S[i]
        BY <3>2 DEF Pairs
      <4>2. S # <<>>
        BY <4>1
      <4>3. /\ Label(T, s) = Label(T, t) /\ i \in DOMAIN Parts(T, s)
            /\ p = <<Parts(T, s)[i], Parts(T, t)[i]>>
        BY <1>6, <4>1, <4>2
      <4>4. c[Parts(T, s)[i]] = c[Parts(T, t)[i]]
        BY <1>7, <1>10, <2>3, <4>3 DEF Exact, Kept
      <4>. QED BY <4>3, <4>4
    <3>. QED BY <1>9, <3>1, <3>2
  <2>. QED BY <1>3, <2>1, <2>4, <2>5 DEF Satisfies
<1>16. PartsFollow(V, N)
  <2>1. SUFFICES ASSUME NEW q, Satisfies(V, N, q),
                        NEW a \in DOMAIN T, NEW b \in DOMAIN T, Same(V, a, b),
                        Label(T, a) = Label(T, b), NEW i \in DOMAIN Parts(T, a)
                 PROVE  q[Parts(T, a)[i]] = q[Parts(T, b)[i]]
    BY <1>3 DEF PartsFollow
  <2>2. Satisfies(T, C, q)
    BY <1>13, <2>1
  <2>3. \A x, y \in DOMAIN T : Same(T, x, y) /\ Label(T, x) = Label(T, y) =>
            \A j \in DOMAIN Parts(T, x) : q[Parts(T, x)[j]] = q[Parts(T, y)[j]]
    BY <1>10, <2>2 DEF Exact, PartsFollow
  <2>4. CASE Same(T, a, b)
    BY <2>1, <2>3, <2>4
  <2>5. CASE ~Same(T, a, b)
    <3>1. Shaped(T) /\ Honest(T)
      BY DEF Graph
    <3>2. Label(T, a) # "var" /\ Label(T, b) # "var" /\ i \in DOMAIN Parts(T, b)
      <4>1. Label(T, a) \in Compound
        BY <2>1, <3>1 DEF Shaped
      <4>2. i \in DOMAIN Parts(T, b)
        BY <2>1, <3>1, ShapedFacts
      <4>. QED BY <2>1, <4>1, <4>2 DEF Compound
    <3>3. ClassOf(T, a) = Label(T, a) /\ ClassOf(T, b) = Label(T, b)
      BY <3>1, <3>2 DEF Honest
    <3>4. ASSUME NEW x \in DOMAIN T, NEW y \in DOMAIN T, Same(T, x, m), Same(T, y, n), ~Same(T, x, y),
                 Label(T, x) = Label(T, y), ClassOf(T, x) = Label(T, x), ClassOf(T, y) = Label(T, y),
                 Label(T, x) # "var", i \in DOMAIN Parts(T, x), i \in DOMAIN Parts(T, y)
          PROVE  q[Parts(T, x)[i]] = q[Parts(T, y)[i]]
      <4>1. ~Same(T, m, n) /\ ClassOf(T, x) = ClassOf(T, m) /\ ClassOf(T, y) = ClassOf(T, n)
        BY <3>4 DEF Same, ClassOf
      <4>2. IsKnown(T, m) /\ IsKnown(T, n)
        BY <3>4, <4>1 DEF IsKnown
      <4>3. Label(T, x) = Label(T, s) /\ Label(T, y) = Label(T, t)
        BY <1>7, <3>4, <4>1
      <4>4. Same(T, x, s) /\ Same(T, y, t)
        BY <1>7, <3>4 DEF Same
      <4>5. i \in DOMAIN Parts(T, s)
        BY <1>7, <3>1, <3>4, <4>3, ShapedFacts
      <4>6. i \in DOMAIN Parts(T, t)
        BY <1>7, <3>1, <3>4, <4>3, ShapedFacts
      <4>7. q[Parts(T, x)[i]] = q[Parts(T, s)[i]]
        BY <1>7, <2>3, <3>4, <4>3, <4>4
      <4>8. q[Parts(T, y)[i]] = q[Parts(T, t)[i]]
        BY <1>7, <2>3, <3>4, <4>3, <4>4
      <4>9. S[i] = <<Parts(T, s)[i], Parts(T, t)[i]>> /\ i \in DOMAIN S
        BY <1>6, <4>1, <4>2, <4>5
      <4>10. PICK p : p = S[i]
        OBVIOUS
      <4>11. p \in N
        BY <1>9, <4>9, <4>10 DEF Pairs
      <4>12. q[p[1]] = q[p[2]]
        BY <2>1, <4>11 DEF Satisfies
      <4>. QED BY <4>7, <4>8, <4>9, <4>10, <4>12
    <3>5. \/ Same(T, a, m) /\ Same(T, b, n)
          \/ Same(T, a, n) /\ Same(T, b, m)
      BY <1>2, <2>1, <2>5 DEF Joins
    <3>6. ~Same(T, b, a)
      BY <2>5 DEF Same
    <3>7. CASE Same(T, a, m) /\ Same(T, b, n)
      BY <2>1, <2>5, <3>2, <3>3, <3>4, <3>7
    <3>8. CASE Same(T, a, n) /\ Same(T, b, m)
      BY <2>1, <3>2, <3>3, <3>4, <3>6, <3>8
    <3>. QED BY <3>5, <3>7, <3>8
  <2>. QED BY <2>4, <2>5
<1>17. Exact(V, N, c)
  BY <1>3, <1>11, <1>12, <1>14, <1>15, <1>16 DEF Exact
<1>. QED BY <1>1, <1>5, <1>9, <1>17

(***************************************************************************)
(* What is asked, and what is made.                                        *)
(***************************************************************************)
LEMMA LeastSame ==
    ASSUME NEW T, NEW V, SameShape(T, V), NEW c \in Partitions(DOMAIN T), NEW m, Least(V, c, m)
    PROVE  Least(T, c, m)
<1>1. /\ DOMAIN V = DOMAIN T
      /\ \A x \in DOMAIN T : Label(V, x) = Label(T, x) /\ Parts(V, x) = Parts(T, x)
  BY DEF SameShape
<1>2. ASSUME NEW q \in Partitions(DOMAIN T) PROVE Kept(T, q) <=> Kept(V, q)
  <2>1. \A a \in DOMAIN T : q[a] \subseteq DOMAIN T
    BY PartitionFacts
  <2>. QED BY <1>1, <2>1 DEF Kept
<1>. QED BY <1>1, <1>2 DEF Least

(* What is asked of a quiet state and what it has already is what is then  *)
(* meant.                                                                  *)
LEMMA AskExact ==
    ASSUME NEW T, NEW c, Exact(T, {}, c), NEW m \in DOMAIN T, NEW n \in DOMAIN T,
           NEW d, Least(T, Merged(c, m, n), d)
    PROVE  Exact(T, {<<m, n>>}, d)
<1>1. /\ c \in Partitions(DOMAIN T) /\ Justified(T, {}, c) /\ PartsFollow(T, {})
      /\ \A a, b \in DOMAIN T : Same(T, a, b) => c[a] = c[b]
  BY DEF Exact, Satisfies
<1>2. PICK e \in Partitions(DOMAIN T) : e = Merged(c, m, n)
  BY <1>1, MergedIs
<1>3. /\ Finer(c, e) /\ n \in e[m]
      /\ \A q \in Partitions(DOMAIN T) : Finer(c, q) /\ q[m] = q[n] => Finer(e, q)
  BY <1>1, <1>2, MergedIs
<1>4. /\ d \in Partitions(DOMAIN T) /\ Finer(e, d) /\ Kept(T, d)
      /\ \A q \in Partitions(DOMAIN T) : Finer(e, q) /\ Kept(T, q) => Finer(d, q)
  BY <1>2 DEF Least
<1>5. DOMAIN c = DOMAIN T /\ DOMAIN e = DOMAIN T
  BY <1>1, <1>2, PartitionFacts
<1>6. PICK C : C = {<<m, n>>}
  OBVIOUS
<1>7. ASSUME NEW a \in DOMAIN T, NEW b \in DOMAIN T, Same(T, a, b) PROVE d[a] = d[b]
  <2>1. b \in c[a]
    BY <1>1, <1>7, PartitionFacts
  <2>2. b \in d[a]
    BY <1>3, <1>4, <1>5, <2>1 DEF Finer
  <2>. QED BY <1>4, <2>2, PartitionFacts
<1>8. d[m] = d[n]
  <2>1. n \in d[m]
    BY <1>3, <1>4, <1>5 DEF Finer
  <2>. QED BY <1>4, <2>1, PartitionFacts
<1>9. Satisfies(T, C, d)
  BY <1>4, <1>6, <1>7, <1>8 DEF Satisfies
<1>10. \A q : Satisfies(T, C, q) => Satisfies(T, {}, q) /\ q[m] = q[n] /\ q \in Partitions(DOMAIN T)
  <2>1. ASSUME NEW q, Satisfies(T, C, q) PROVE q[m] = q[n]
    <3>1. <<m, n>> \in C
      BY <1>6
    <3>2. q[<<m, n>>[1]] = q[<<m, n>>[2]]
      BY <2>1, <3>1 DEF Satisfies
    <3>. QED BY <3>2
  <2>. QED BY <2>1 DEF Satisfies
<1>11. Justified(T, C, d)
  BY <1>1, <1>3, <1>4, <1>10 DEF Justified
<1>12. PartsFollow(T, C)
  BY <1>1, <1>10 DEF PartsFollow
<1>13. C \subseteq (DOMAIN T) \X (DOMAIN T)
  BY <1>6
<1>. QED BY <1>4, <1>6, <1>9, <1>11, <1>12, <1>13 DEF Exact

(* New types leave the graph of the others as it is.                       *)
LEMMA ExtendGraph ==
    ASSUME NEW T, Graph(T), NEW V, Extends(T, V), Shaped(V),
           \A t \in DOMAIN V : t \notin DOMAIN T => Label(V, t) \in Compound \union {"var"}
    PROVE  /\ Graph(V) /\ KnownStay(T, V) /\ DOMAIN T \subseteq DOMAIN V
           /\ \A x \in DOMAIN T : Label(V, x) = Label(T, x) /\ Parts(V, x) = Parts(T, x)
           /\ \A x \in DOMAIN T : Representative(V, x) = Representative(T, x)
           /\ \A x \in DOMAIN V : x \notin DOMAIN T => Representative(V, x) = x
<1>1. /\ Forest(V)
      /\ \A x \in DOMAIN T : Representative(V, x) = Representative(T, x)
      /\ \A x \in DOMAIN V : x \notin DOMAIN T => Representative(V, x) = x
  BY ExtendRepresentatives DEF Graph, Shaped
<1>2. DOMAIN T \subseteq DOMAIN V
  <2>1. DOMAIN T = 1 .. Len(T) /\ DOMAIN V = 1 .. Len(V) /\ Len(T) \in Nat /\ Len(V) \in Nat
    BY ShapedFacts DEF Graph
  <2>. QED BY <2>1 DEF Extends
<1>3. \A x \in DOMAIN T : Label(V, x) = Label(T, x) /\ Parts(V, x) = Parts(T, x)
  BY DEF Extends, Label, Parts
<1>4. \A x \in DOMAIN T : ClassOf(V, x) = ClassOf(T, x)
  <2>1. ASSUME NEW x \in DOMAIN T PROVE ClassOf(V, x) = ClassOf(T, x)
    <3>1. Representative(T, x) \in DOMAIN T
      BY ClassIs
    <3>. QED BY <1>1, <1>3, <3>1 DEF ClassOf, Label
  <2>. QED BY <2>1
<1>5. KnownStay(T, V)
  BY <1>4 DEF KnownStay
<1>6. Honest(V)
  <2>1. ASSUME NEW x \in DOMAIN V, Label(V, x) # "var" PROVE ClassOf(V, x) = Label(V, x)
    <3>1. CASE x \in DOMAIN T
      BY <1>3, <1>4, <2>1, <3>1 DEF Graph, Honest
    <3>2. CASE x \notin DOMAIN T
      BY <1>1, <3>2 DEF ClassOf, Label
    <3>. QED BY <3>1, <3>2
  <2>. QED BY <2>1 DEF Honest
<1>7. Simple(V)
  <2>1. Simple(T)
    BY DEF Graph
  <2>. QED BY <1>2, <1>3, <2>1 DEF Simple
<1>. QED BY <1>1, <1>2, <1>3, <1>5, <1>6, <1>7 DEF Graph

(* Grown puts each new type into a class of its own.                       *)
LEMMA GrownIs ==
    ASSUME NEW V, NEW D, D \subseteq DOMAIN V, NEW c \in Partitions(D)
    PROVE  /\ Grown(V, c) \in Partitions(DOMAIN V)
           /\ \A t \in D : Grown(V, c)[t] = c[t]
           /\ \A t \in DOMAIN V : t \notin D => Grown(V, c)[t] = {t}
           /\ D = DOMAIN V => Grown(V, c) = c
<1>1. /\ c \in [D -> SUBSET D] /\ DOMAIN c = D /\ \A a \in D : a \in c[a] /\ c[a] \subseteq D
      /\ \A a, b \in D : b \in c[a] <=> c[a] = c[b]
  BY PartitionFacts
<1>2. PICK g : g = Grown(V, c)
  OBVIOUS
<1>3. g = [t \in DOMAIN V |-> IF t \in D THEN c[t] ELSE {t}]
  BY <1>1, <1>2 DEF Grown
<1>4. (\A t \in D : g[t] = c[t]) /\ \A t \in DOMAIN V : t \notin D => g[t] = {t}
  BY <1>3
<1>5. g \in [DOMAIN V -> SUBSET DOMAIN V]
  BY <1>1, <1>3
<1>6. ASSUME NEW a \in DOMAIN V PROVE a \in g[a] /\ \A b \in g[a] : g[b] = g[a]
  <2>1. CASE a \in D
    BY <1>1, <1>4, <2>1
  <2>2. CASE a \notin D
    BY <1>4, <2>2
  <2>. QED BY <2>1, <2>2
<1>7. D = DOMAIN V => g = c
  BY <1>1, <1>3
<1>. QED BY <1>2, <1>4, <1>5, <1>6, <1>7 DEF Partitions

(* What holds of more types, taken of the first ones only. *)
Restricts(r, q, D) == r = [t \in D |-> q[t] \cap D]

(* A partition of more types is one of fewer.                              *)
LEMMA RestrictionIs ==
    ASSUME NEW D, NEW X, D \subseteq X, NEW q \in Partitions(X),
           NEW r, Restricts(r, q, D)
    PROVE  /\ r \in Partitions(D)
           /\ \A a, b \in D : r[a] = r[b] <=> q[a] = q[b]
           /\ \A a \in D : r[a] = q[a] \cap D
<1>1. /\ \A a \in X : a \in q[a]
      /\ \A a, b \in X : b \in q[a] <=> q[a] = q[b]
  BY PartitionFacts
<1>2. \A a \in D : r[a] = q[a] \cap D
  BY DEF Restricts
<1>3. \A a, b \in D : r[a] = r[b] <=> q[a] = q[b]
  <2>1. ASSUME NEW a \in D, NEW b \in D, r[a] = r[b] PROVE q[a] = q[b]
    <3>1. b \in r[b]
      BY <1>1, <1>2
    <3>2. b \in q[a]
      BY <1>2, <2>1, <3>1
    <3>. QED BY <1>1, <3>2
  <2>. QED BY <1>2, <2>1
<1>4. r \in [D -> SUBSET D]
  BY DEF Restricts
<1>5. ASSUME NEW a \in D PROVE a \in r[a] /\ \A b \in r[a] : r[b] = r[a]
  <2>1. a \in r[a]
    BY <1>1, <1>2
  <2>2. ASSUME NEW b \in r[a] PROVE r[b] = r[a]
    <3>1. b \in D /\ b \in q[a]
      BY <1>2
    <3>2. q[a] = q[b]
      BY <1>1, <3>1
    <3>. QED BY <1>3, <3>1, <3>2
  <2>. QED BY <2>1, <2>2
<1>. QED BY <1>2, <1>3, <1>4, <1>5 DEF Partitions

(* New types about which nothing has been asked mean nothing new.          *)
LEMMA GrowExact ==
    ASSUME NEW T, Graph(T), NEW V, Extends(T, V), Shaped(V),
           \A t \in DOMAIN V : t \notin DOMAIN T => Label(V, t) \in Compound \union {"var"},
           NEW c, Exact(T, {}, c)
    PROVE  Exact(V, {}, Grown(V, c))
<1>1. /\ DOMAIN T \subseteq DOMAIN V
      /\ \A x \in DOMAIN T : Label(V, x) = Label(T, x) /\ Parts(V, x) = Parts(T, x)
      /\ \A x \in DOMAIN T : Representative(V, x) = Representative(T, x)
      /\ \A x \in DOMAIN V : x \notin DOMAIN T => Representative(V, x) = x
  BY ExtendGraph
<1>2. /\ c \in Partitions(DOMAIN T) /\ Kept(T, c) /\ Justified(T, {}, c) /\ PartsFollow(T, {})
      /\ \A a, b \in DOMAIN T : Same(T, a, b) => c[a] = c[b]
  BY DEF Exact, Satisfies
<1>3. PICK g : g = Grown(V, c)
  OBVIOUS
<1>4. /\ g \in Partitions(DOMAIN V)
      /\ \A t \in DOMAIN T : g[t] = c[t]
      /\ \A t \in DOMAIN V : t \notin DOMAIN T => g[t] = {t}
  BY <1>1, <1>2, <1>3, GrownIs
<1>5. \A t \in DOMAIN T : Representative(T, t) \in DOMAIN T /\ c[t] \subseteq DOMAIN T
  BY <1>2, ClassIs, PartitionFacts
<1>6. ASSUME NEW a \in DOMAIN V, NEW b \in DOMAIN V, Same(V, a, b)
      PROVE  a = b \/ (a \in DOMAIN T /\ b \in DOMAIN T /\ Same(T, a, b))
  BY <1>1, <1>5, <1>6 DEF Same
<1>7. Satisfies(V, {}, g)
  BY <1>2, <1>4, <1>6 DEF Satisfies
<1>8. \A a \in DOMAIN T : \A i \in DOMAIN Parts(T, a) : Parts(T, a)[i] \in DOMAIN T
  BY ShapedFacts DEF Graph
<1>9. Kept(V, g)
  <2>1. ASSUME NEW a \in DOMAIN V, NEW b \in g[a], Label(V, a) = Label(V, b),
               NEW i \in DOMAIN Parts(V, a)
        PROVE  g[Parts(V, a)[i]] = g[Parts(V, b)[i]]
    <3>1. CASE a \in DOMAIN T
      <4>1. b \in c[a] /\ b \in DOMAIN T
        BY <1>4, <1>5, <2>1, <3>1
      <4>2. Label(T, a) = Label(T, b) /\ i \in DOMAIN Parts(T, a)
        BY <1>1, <2>1, <3>1, <4>1
      <4>3. c[Parts(T, a)[i]] = c[Parts(T, b)[i]]
        BY <1>2, <3>1, <4>1, <4>2 DEF Kept
      <4>4. i \in DOMAIN Parts(T, b)
        BY <3>1, <4>1, <4>2, ShapedFacts DEF Graph
      <4>5. Parts(T, a)[i] \in DOMAIN T /\ Parts(T, b)[i] \in DOMAIN T
        BY <1>8, <3>1, <4>1, <4>2, <4>4
      <4>. QED BY <1>1, <1>4, <3>1, <4>1, <4>3, <4>5
    <3>2. CASE a \notin DOMAIN T
      <4>1. b = a
        BY <1>4, <2>1, <3>2
      <4>. QED BY <4>1
    <3>. QED BY <3>1, <3>2
  <2>. QED BY <2>1 DEF Kept
<1>10. ASSUME NEW q, Satisfies(V, {}, q), NEW r, Restricts(r, q, DOMAIN T)
       PROVE  /\ Satisfies(T, {}, r) /\ q \in Partitions(DOMAIN V)
              /\ \A a, b \in DOMAIN T : r[a] = r[b] <=> q[a] = q[b]
              /\ \A a \in DOMAIN T : r[a] = q[a] \cap DOMAIN T
              /\ Kept(V, q) => Kept(T, r)
  <2>1. q \in Partitions(DOMAIN V) /\ \A a, b \in DOMAIN V : Same(V, a, b) => q[a] = q[b]
    BY <1>10 DEF Satisfies
  <2>2. /\ r \in Partitions(DOMAIN T)
        /\ \A a, b \in DOMAIN T : r[a] = r[b] <=> q[a] = q[b]
        /\ \A a \in DOMAIN T : r[a] = q[a] \cap DOMAIN T
    BY <1>1, <1>10, <2>1, RestrictionIs
  <2>3. \A a, b \in DOMAIN T : Same(T, a, b) => Same(V, a, b)
    BY <1>1 DEF Same
  <2>4. Satisfies(T, {}, r)
    BY <1>1, <2>1, <2>2, <2>3 DEF Satisfies
  <2>5. ASSUME Kept(V, q), NEW a \in DOMAIN T, NEW b \in r[a], Label(T, a) = Label(T, b),
               NEW i \in DOMAIN Parts(T, a)
        PROVE  r[Parts(T, a)[i]] = r[Parts(T, b)[i]]
    <3>1. b \in DOMAIN T /\ b \in q[a]
      BY <2>2, <2>5
    <3>2. q[Parts(T, a)[i]] = q[Parts(T, b)[i]]
      BY <1>1, <2>5, <3>1 DEF Kept
    <3>3. i \in DOMAIN Parts(T, b)
      BY <2>5, <3>1, ShapedFacts DEF Graph
    <3>4. Parts(T, a)[i] \in DOMAIN T /\ Parts(T, b)[i] \in DOMAIN T
      BY <1>8, <2>5, <3>1, <3>3
    <3>. QED BY <2>2, <3>2, <3>4
  <2>. QED BY <2>1, <2>2, <2>4, <2>5 DEF Kept
<1>11. Justified(V, {}, g)
  <2>1. ASSUME NEW q, Satisfies(V, {}, q), Kept(V, q) PROVE Finer(g, q)
    <3>1. PICK r : Restricts(r, q, DOMAIN T)
      BY DEF Restricts
    <3>2. Satisfies(T, {}, r) /\ Kept(T, r) /\ q \in Partitions(DOMAIN V)
      BY <1>10, <2>1, <3>1
    <3>3. \A a \in DOMAIN T : r[a] = q[a] \cap DOMAIN T
      BY <3>1 DEF Restricts
    <3>4. Finer(c, r)
      BY <1>2, <3>2 DEF Justified
    <3>5. \A a \in DOMAIN V : a \in q[a]
      BY <3>2, PartitionFacts
    <3>6. DOMAIN c = DOMAIN T /\ DOMAIN g = DOMAIN V
      BY <1>2, <1>4, PartitionFacts
    <3>7. ASSUME NEW a \in DOMAIN V PROVE g[a] \subseteq q[a]
      <4>1. CASE a \in DOMAIN T
        <5>1. c[a] \subseteq r[a]
          BY <3>4, <3>6, <4>1 DEF Finer
        <5>. QED BY <1>4, <3>3, <4>1, <5>1
      <4>2. CASE a \notin DOMAIN T
        BY <1>4, <3>5, <4>2
      <4>. QED BY <4>1, <4>2
    <3>. QED BY <3>6, <3>7 DEF Finer
  <2>. QED BY <2>1 DEF Justified
<1>12. PartsFollow(V, {})
  <2>1. SUFFICES ASSUME NEW q, Satisfies(V, {}, q), NEW a \in DOMAIN V, NEW b \in DOMAIN V,
                        Same(V, a, b), Label(V, a) = Label(V, b), NEW i \in DOMAIN Parts(V, a)
                 PROVE  q[Parts(V, a)[i]] = q[Parts(V, b)[i]]
    BY DEF PartsFollow
  <2>2. CASE a = b
    BY <2>2
  <2>3. CASE a # b
    <3>1. a \in DOMAIN T /\ b \in DOMAIN T /\ Same(T, a, b)
      BY <1>6, <2>1, <2>3
    <3>2. Label(T, a) = Label(T, b) /\ i \in DOMAIN Parts(T, a)
      BY <1>1, <2>1, <3>1
    <3>3. PICK r : Restricts(r, q, DOMAIN T)
      BY DEF Restricts
    <3>4. Satisfies(T, {}, r) /\ \A x, y \in DOMAIN T : r[x] = r[y] <=> q[x] = q[y]
      BY <1>10, <2>1, <3>3
    <3>5. r[Parts(T, a)[i]] = r[Parts(T, b)[i]]
      BY <1>2, <3>1, <3>2, <3>4 DEF PartsFollow
    <3>6. i \in DOMAIN Parts(T, b)
      BY <3>1, <3>2, ShapedFacts DEF Graph
    <3>7. Parts(T, a)[i] \in DOMAIN T /\ Parts(T, b)[i] \in DOMAIN T
      BY <1>8, <3>1, <3>2, <3>6
    <3>8. q[Parts(T, a)[i]] = q[Parts(T, b)[i]]
      BY <3>4, <3>5, <3>7
    <3>. QED BY <1>1, <3>1, <3>8
  <2>. QED BY <2>2, <2>3
<1>. QED BY <1>3, <1>7, <1>9, <1>11, <1>12 DEF Exact

(* With nothing left to do, the links say what is meant. *)
LEMMA StableIs ==
    ASSUME NEW T, Graph(T), NEW c, Exact(T, {}, c)
    PROVE  c = Partition(T) /\ Consistent(T, c)
<1>1. /\ c \in Partitions(DOMAIN T) /\ Justified(T, {}, c) /\ PartsFollow(T, {})
      /\ \A a, b \in DOMAIN T : Same(T, a, b) => c[a] = c[b]
  BY DEF Exact, Satisfies
<1>2. PICK p : p = Partition(T)
  OBVIOUS
<1>3. p \in Partitions(DOMAIN T) /\ \A a \in DOMAIN T : \A b : b \in p[a] <=> b \in DOMAIN T /\ Same(T, a, b)
  BY <1>2, PartitionIs DEF Graph
<1>4. \A a, b \in DOMAIN T : p[a] = p[b] <=> Same(T, a, b)
  BY <1>3, PartitionFacts
<1>5. Satisfies(T, {}, p)
  BY <1>3, <1>4 DEF Satisfies
<1>6. Kept(T, p)
  <2>1. ASSUME NEW a \in DOMAIN T, NEW b \in p[a], Label(T, a) = Label(T, b),
               NEW i \in DOMAIN Parts(T, a)
        PROVE  p[Parts(T, a)[i]] = p[Parts(T, b)[i]]
    <3>1. b \in DOMAIN T /\ Same(T, a, b)
      BY <1>3
    <3>. QED BY <1>1, <1>5, <2>1, <3>1 DEF PartsFollow
  <2>. QED BY <2>1 DEF Kept
<1>7. Finer(c, p)
  BY <1>1, <1>5, <1>6 DEF Justified
<1>8. /\ c \in [DOMAIN T -> SUBSET DOMAIN T] /\ DOMAIN c = DOMAIN T
      /\ \A a \in DOMAIN T : c[a] \subseteq DOMAIN T
      /\ \A a, b \in DOMAIN T : b \in c[a] <=> c[a] = c[b]
  BY <1>1, PartitionFacts
<1>9. p \in [DOMAIN T -> SUBSET DOMAIN T]
  BY <1>3, PartitionFacts
<1>10. ASSUME NEW a \in DOMAIN T PROVE c[a] = p[a]
  <2>1. c[a] \subseteq p[a]
    BY <1>7, <1>8 DEF Finer
  <2>2. p[a] \subseteq c[a]
    BY <1>1, <1>3, <1>8
  <2>. QED BY <2>1, <2>2
<1>11. c = p
  BY <1>8, <1>9, <1>10
<1>12. Consistent(T, c)
  <2>1. ASSUME NEW a \in DOMAIN T, NEW b \in c[a], Label(T, a) # "var", Label(T, b) # "var"
        PROVE  Label(T, a) = Label(T, b)
    <3>1. b \in DOMAIN T /\ Same(T, a, b)
      BY <1>3, <1>11
    <3>2. ClassOf(T, a) = ClassOf(T, b)
      BY <3>1 DEF Same, ClassOf
    <3>3. ClassOf(T, a) = Label(T, a) /\ ClassOf(T, b) = Label(T, b)
      BY <2>1, <3>1 DEF Graph, Honest
    <3>. QED BY <3>2, <3>3
  <2>2. \A a \in DOMAIN c : \A b \in c[a] :
            Label(T, a) = "var" \/ Label(T, b) = "var" \/ Label(T, a) = Label(T, b)
    BY <1>8, <2>1
  <2>. QED BY <2>2 DEF Consistent, Label
<1>. QED BY <1>2, <1>11, <1>12

(* A report means that two known types of different classes are to be one. *)
LEMMA ClashIs ==
    ASSUME NEW T, Graph(T), NEW C, NEW c, Exact(T, C, c), NEW m \in DOMAIN T, NEW n \in DOMAIN T,
           <<m, n>> \in C, Clash(T, m, n)
    PROVE  c \in Partitions(DOMAIN T) /\ ~Consistent(T, c)
<1>1. /\ c \in Partitions(DOMAIN T) /\ \A p \in C : c[p[1]] = c[p[2]]
      /\ \A a, b \in DOMAIN T : Same(T, a, b) => c[a] = c[b]
  BY DEF Exact, Satisfies
<1>2. PICK s, t : s = Representative(T, m) /\ t = Representative(T, n)
  OBVIOUS
<1>3. /\ s \in DOMAIN T /\ t \in DOMAIN T /\ Same(T, m, s) /\ Same(T, n, t)
      /\ ClassOf(T, m) = Label(T, s) /\ ClassOf(T, n) = Label(T, t)
  BY <1>2, ClassIs DEF Same
<1>4. c[m] = c[n]
  <2>1. c[<<m, n>>[1]] = c[<<m, n>>[2]]
    BY <1>1
  <2>. QED BY <2>1
<1>5. c[m] = c[s] /\ c[n] = c[t]
  BY <1>1, <1>3
<1>6. t \in c[s] /\ DOMAIN c = DOMAIN T
  BY <1>1, <1>3, <1>4, <1>5, PartitionFacts
<1>7. Label(T, s) # "var" /\ Label(T, t) # "var" /\ Label(T, s) # Label(T, t)
  BY <1>3 DEF Clash
<1>. QED BY <1>1, <1>3, <1>6, <1>7 DEF Consistent, Label

(***************************************************************************)
(* The invariant.                                                          *)
(***************************************************************************)

(* What is kept in `meant': exactly what was asked, or after an error      *)
(* either nothing or something that cannot be.                             *)
MeantOK(T, C, c, f) ==
    /\ ~f => Exact(T, C, c)
    /\ f => c = <<>> \/ (C = {} /\ c \in Partitions(DOMAIN T) /\ ~Consistent(T, c))

Good(T, N, C, j, c, f) ==
    /\ Graph(T) /\ Len(T) <= TypeBound
    /\ N \subseteq {t \in DOMAIN T : T[t].class = "var"}
    /\ C \in Seq((DOMAIN T) \X (DOMAIN T))
    /\ j \in BOOLEAN /\ (j => Len(T) + 1 <= TypeBound)
    /\ f \in BOOLEAN
    /\ MeantOK(T, Pairs(C), c, f)

TypesInv == Good(types, names, calls, joining, meant, failed)

(* The calls still to be made are the next one and the rest.               *)
LEMMA PairsOf ==
    ASSUME NEW X
    PROVE  /\ Pairs(<<>>) = {}
           /\ \A s \in Seq(X) : s # <<>> =>
                 Pairs(s) = {Head(s)} \union Pairs(Tail(s)) /\ Head(s) \in X /\ Tail(s) \in Seq(X)
           /\ \A s, r \in Seq(X) : Pairs(s \o r) = Pairs(s) \union Pairs(r) /\ s \o r \in Seq(X)
<1>1. Pairs(<<>>) = {}
  BY DEF Pairs
<1>2. ASSUME NEW s \in Seq(X), s # <<>>
      PROVE  Pairs(s) = {Head(s)} \union Pairs(Tail(s)) /\ Head(s) \in X /\ Tail(s) \in Seq(X)
  <2>1. PICK n \in Nat : Len(s) = n + 1
    BY <1>2
  <2>0. Tail(s) \in Seq(X) /\ Len(Tail(s)) = Len(s) - 1
    BY <1>2, HeadTailProperties
  <2>2. PICK r \in Seq(X) : r = Tail(s)
    BY <2>0
  <2>3. Len(r) = n /\ \A i \in 1 .. n : r[i] = s[i + 1]
    BY <1>2, <2>0, <2>1, <2>2
  <2>4. DOMAIN s = 1 .. n + 1 /\ DOMAIN r = 1 .. n
    BY <2>1, <2>3
  <2>5. Head(s) = s[1] /\ Head(s) \in X
    BY <1>2, <2>4
  <2>6. ASSUME NEW x \in Pairs(s) PROVE x \in {s[1]} \union Pairs(r)
    <3>1. PICK i \in 1 .. n + 1 : x = s[i]
      BY <2>4, <2>6 DEF Pairs
    <3>2. CASE i = 1
      BY <3>1, <3>2
    <3>3. CASE i # 1
      <4>1. i - 1 \in 1 .. n /\ i - 1 + 1 = i
        BY <3>3
      <4>2. r[i - 1] = x
        BY <2>3, <3>1, <4>1
      <4>. QED BY <2>4, <4>1, <4>2 DEF Pairs
    <3>. QED BY <3>2, <3>3
  <2>7. ASSUME NEW x \in {s[1]} \union Pairs(r) PROVE x \in Pairs(s)
    <3>1. CASE x = s[1]
      <4>1. 1 \in 1 .. n + 1
        OBVIOUS
      <4>. QED BY <2>4, <3>1, <4>1 DEF Pairs
    <3>2. CASE x \in Pairs(r)
      <4>1. PICK i \in 1 .. n : x = r[i]
        BY <2>4, <3>2 DEF Pairs
      <4>2. i + 1 \in 1 .. n + 1 /\ x = s[i + 1]
        BY <2>3, <4>1
      <4>. QED BY <2>4, <4>2 DEF Pairs
    <3>. QED BY <2>7, <3>1, <3>2
  <2>8. Pairs(s) = {s[1]} \union Pairs(r)
    BY <2>6, <2>7
  <2>. QED BY <2>2, <2>5, <2>8
<1>3. ASSUME NEW s \in Seq(X), NEW r \in Seq(X)
      PROVE  Pairs(s \o r) = Pairs(s) \union Pairs(r) /\ s \o r \in Seq(X)
  <2>1. PICK w \in Seq(X) : w = s \o r
    BY ConcatProperties
  <2>2. PICK k, n \in Nat : k = Len(s) /\ n = Len(r)
    OBVIOUS
  <2>3. /\ DOMAIN s = 1 .. k /\ DOMAIN r = 1 .. n /\ DOMAIN w = 1 .. k + n
        /\ \A i \in 1 .. k : w[i] = s[i]
        /\ \A i \in 1 .. n : w[k + i] = r[i]
    BY <2>1, <2>2
  <2>4. ASSUME NEW x \in Pairs(w) PROVE x \in Pairs(s) \union Pairs(r)
    <3>1. PICK i \in 1 .. k + n : x = w[i]
      BY <2>3, <2>4 DEF Pairs
    <3>2. CASE i <= k
      <4>1. i \in 1 .. k
        BY <3>2
      <4>. QED BY <2>3, <3>1, <4>1 DEF Pairs
    <3>3. CASE ~(i <= k)
      <4>1. i - k \in 1 .. n /\ k + (i - k) = i
        BY <3>3
      <4>2. x = r[i - k]
        BY <2>3, <3>1, <4>1
      <4>. QED BY <2>3, <4>1, <4>2 DEF Pairs
    <3>. QED BY <3>2, <3>3
  <2>5. ASSUME NEW x \in Pairs(s) \union Pairs(r) PROVE x \in Pairs(w)
    <3>1. CASE x \in Pairs(s)
      <4>1. PICK i \in 1 .. k : x = s[i]
        BY <2>3, <3>1 DEF Pairs
      <4>2. i \in 1 .. k + n
        OBVIOUS
      <4>. QED BY <2>3, <4>1, <4>2 DEF Pairs
    <3>2. CASE x \in Pairs(r)
      <4>1. PICK i \in 1 .. n : x = r[i]
        BY <2>3, <3>2 DEF Pairs
      <4>2. k + i \in 1 .. k + n
        OBVIOUS
      <4>. QED BY <2>3, <4>1, <4>2 DEF Pairs
    <3>. QED BY <2>5, <3>1, <3>2
  <2>. QED BY <2>1, <2>4, <2>5
<1>. QED BY <1>1, <1>2, <1>3

(* What Asked computes is exact, and given up after an error.              *)
LEMMA AskedIs ==
    ASSUME NEW T, Graph(T), NEW m \in DOMAIN T, NEW n \in DOMAIN T, NEW c,
           ~failed => Exact(T, {}, c)
    PROVE  /\ ~failed => Exact(T, {<<m, n>>}, Asked(T, c, m, n))
           /\ failed => Asked(T, c, m, n) = <<>>
<1>1. CASE failed
  BY <1>1 DEF Asked
<1>2. CASE ~failed
  <2>1. c \in Partitions(DOMAIN T)
    BY <1>2 DEF Exact, Satisfies
  <2>2. Grown(T, c) = c
    BY <2>1, GrownIs
  <2>3. PICK d : d = Merged(c, m, n)
    OBVIOUS
  <2>4. d \in Partitions(DOMAIN T)
    BY <2>1, <2>3, MergedIs
  <2>5. PICK e : e = Closure(T, d)
    OBVIOUS
  <2>6. Least(T, d, e)
    BY <2>4, <2>5, ClosureIsLeast DEF Graph
  <2>7. Exact(T, {<<m, n>>}, e)
    BY <1>2, <2>3, <2>6, AskExact
  <2>8. Asked(T, c, m, n) = e
    BY <1>2, <2>2, <2>3, <2>5 DEF Asked
  <2>. QED BY <1>2, <2>7, <2>8
<1>. QED BY <1>1, <1>2

(* What NothingAsked computes is exact, and given up after an error.       *)
LEMMA NothingAskedIs ==
    ASSUME NEW T, Graph(T), NEW V, Extends(T, V), Shaped(V),
           \A t \in DOMAIN V : t \notin DOMAIN T => Label(V, t) \in Compound \union {"var"},
           ~failed => Exact(T, {}, meant)
    PROVE  /\ ~failed => Exact(V, {}, NothingAsked(V))
           /\ failed => NothingAsked(V) = <<>>
<1>1. CASE failed
  BY <1>1 DEF NothingAsked
<1>2. CASE ~failed
  <2>1. Exact(V, {}, Grown(V, meant))
    <3>1. PICK c : c = meant
      OBVIOUS
    <3>2. Exact(V, {}, Grown(V, c))
      BY <1>2, <3>1, GrowExact
    <3>. QED BY <3>1, <3>2
  <2>. QED BY <1>2, <2>1 DEF NothingAsked
<1>. QED BY <1>1, <1>2

(* A call of type_unify, for whatever it is made: f is failed before the   *)
(* call, g after it.                                                       *)
Called(T, m, n, rest, f, V, C, g) ==
    \/ /\ ~Clash(T, m, n)
       /\ V = Unified(T, m, n) /\ C = Subcalls(T, m, n) \o rest /\ g = f
    \/ /\ Clash(T, m, n)
       /\ V = T /\ C = <<>> /\ g = TRUE

(* Such a call passes on to the calls it makes all that is still to be     *)
(* done, or reports an error that is one.                                  *)
LEMMA UnifyKeeps ==
    ASSUME NEW T, Graph(T), NEW m \in DOMAIN T, NEW n \in DOMAIN T,
           NEW rest \in Seq((DOMAIN T) \X (DOMAIN T)), NEW c,
           NEW f \in BOOLEAN, NEW V, NEW C, NEW g, Called(T, m, n, rest, f, V, C, g),
           ~f => Exact(T, {<<m, n>>} \union Pairs(rest), c),
           f => c = <<>>
    PROVE  /\ Graph(V) /\ SameShape(T, V) /\ KnownStay(T, V) /\ Keeps(T, V)
           /\ C \in Seq((DOMAIN T) \X (DOMAIN T))
           /\ g \in BOOLEAN
           /\ MeantOK(V, Pairs(C), c, g)
<1>2. PICK R : R = Pairs(rest)
  OBVIOUS
<1>4. CASE ~Clash(T, m, n)
  <2>1. V = Unified(T, m, n) /\ C = Subcalls(T, m, n) \o rest /\ g = f
    BY <1>4 DEF Called
  <2>2. Graph(V) /\ SameShape(T, V) /\ KnownStay(T, V) /\ Keeps(T, V)
    <3>1. Graph(V) /\ SameShape(T, V) /\ KnownStay(T, V) /\ Joins(T, V, m, n)
      BY <1>4, <2>1, UnifiedIs
    <3>. QED BY <3>1 DEF Keeps, Joins, SameShape
  <2>3. PICK S : S = Subcalls(T, m, n)
    OBVIOUS
  <2>4. S \in Seq((DOMAIN T) \X (DOMAIN T))
    BY <1>4, <2>3, SubcallsAre
  <2>5. C \in Seq((DOMAIN T) \X (DOMAIN T)) /\ Pairs(C) = Pairs(S) \union R
    BY <1>2, <2>1, <2>3, <2>4, PairsOf
  <2>6. ~f => Exact(V, Pairs(C), c)
    <3>1. ~f => Exact(T, {<<m, n>>} \union R, c)
      BY <1>2
    <3>2. ~f => Exact(V, Pairs(S) \union R, c)
      BY <1>4, <2>1, <2>3, <3>1, UnifyExact
    <3>. QED BY <2>5, <3>2
  <2>7. MeantOK(V, Pairs(C), c, g)
    BY <2>1, <2>6 DEF MeantOK
  <2>. QED BY <2>1, <2>2, <2>5, <2>7
<1>5. CASE Clash(T, m, n)
  <2>1. V = T /\ C = <<>> /\ g = TRUE
    BY <1>5 DEF Called
  <2>2. SameShape(T, V) /\ KnownStay(T, V) /\ Keeps(T, V)
    BY <2>1 DEF SameShape, KnownStay, Keeps
  <2>3. Pairs(C) = {} /\ C \in Seq((DOMAIN T) \X (DOMAIN T))
    BY <2>1, PairsOf
  <2>4. ~f => c \in Partitions(DOMAIN T) /\ ~Consistent(T, c)
    <3>1. PICK D : D = {<<m, n>>} \union R
      OBVIOUS
    <3>2. ~f => Exact(T, D, c)
      BY <1>2, <3>1
    <3>3. <<m, n>> \in D
      BY <3>1
    <3>. QED BY <1>5, <3>2, <3>3, ClashIs
  <2>5. MeantOK(V, Pairs(C), c, g)
    BY <2>1, <2>3, <2>4 DEF MeantOK
  <2>. QED BY <2>1, <2>2, <2>3, <2>5
<1>. QED BY <1>4, <1>5

(***************************************************************************)
(* New types.                                                              *)
(***************************************************************************)
Fresh(T, u) ==
    /\ u \in Type /\ u.unifier = Null
    /\ \/ u.class = "var" /\ DOMAIN u.parts = {}
       \/ u.class \in Compound /\ DOMAIN u.parts = {1, 2} /\ \A i \in {1, 2} : u.parts[i] \in DOMAIN T

(* T and some more types. *)
Adds(T, V) ==
    /\ Extends(T, V) /\ Shaped(V)
    /\ \A t \in DOMAIN V : t \notin DOMAIN T => Label(V, t) \in Compound \union {"var"}

(* A type more, at the end of types.                                       *)
LEMMA AppendIs ==
    ASSUME NEW T, Shaped(T), NEW u, Fresh(T, u), NEW V, V = Append(T, u)
    PROVE  /\ Adds(T, V) /\ Len(V) = Len(T) + 1 /\ V[Len(T) + 1] = u
           /\ DOMAIN V = DOMAIN T \union {Len(T) + 1} /\ Len(T) + 1 \notin DOMAIN T
<1>1. T \in Seq(Type) /\ u \in Type /\ Len(T) \in Nat /\ DOMAIN T = 1 .. Len(T)
  BY ShapedFacts DEF Fresh
<1>2. PICK n \in Nat : n = Len(T)
  BY <1>1
<1>3. /\ V \in Seq(Type) /\ Len(V) = n + 1 /\ V[n + 1] = u
      /\ \A t \in 1 .. n : V[t] = T[t]
  BY <1>1, <1>2, AppendProperties
<1>4. DOMAIN V = 1 .. n + 1 /\ DOMAIN T = 1 .. n
  BY <1>1, <1>2, <1>3
<1>5. \A t \in 1 .. n + 1 : t \in 1 .. n \/ t = n + 1
  OBVIOUS
<1>6. Up(V, n + 1) = Null
  BY <1>3 DEF Up, Fresh
<1>7. Extends(T, V)
  BY <1>2, <1>3, <1>4, <1>5, <1>6 DEF Extends
<1>8. Shaped(V)
  <2>1. ASSUME NEW t \in DOMAIN V
        PROVE  /\ Label(V, t) \in Compound => DOMAIN Parts(V, t) = {1, 2}
               /\ Label(V, t) \notin Compound => DOMAIN Parts(V, t) = {}
               /\ \A i \in DOMAIN Parts(V, t) : Parts(V, t)[i] \in 1 .. t - 1
    <3>1. CASE t \in 1 .. n
      <4>1. Label(V, t) = Label(T, t) /\ Parts(V, t) = Parts(T, t)
        BY <1>3, <3>1 DEF Label, Parts
      <4>. QED BY <1>4, <3>1, <4>1 DEF Shaped
    <3>2. CASE t = n + 1
      <4>1. Label(V, t) = u.class /\ Parts(V, t) = u.parts /\ t - 1 = n
        BY <1>3, <3>2 DEF Label, Parts
      <4>. QED BY <1>4, <4>1 DEF Fresh, Compound
    <3>. QED BY <1>4, <1>5, <3>1, <3>2
  <2>. QED BY <1>3, <2>1 DEF Shaped
<1>9. Label(V, n + 1) \in Compound \union {"var"}
  BY <1>3 DEF Label, Fresh
<1>10. n + 1 \notin 1 .. n /\ 1 .. n + 1 = 1 .. n \union {n + 1}
  OBVIOUS
<1>. QED BY <1>2, <1>3, <1>4, <1>5, <1>7, <1>8, <1>9, <1>10 DEF Adds

(* More types, and then more types still.                                  *)
LEMMA AddsTransitive ==
    ASSUME NEW T, Shaped(T), NEW U, NEW V, Adds(T, U), Adds(U, V)
    PROVE  Adds(T, V)
<1>1. /\ Shaped(U) /\ Shaped(V)
      /\ DOMAIN T = 1 .. Len(T) /\ DOMAIN U = 1 .. Len(U) /\ DOMAIN V = 1 .. Len(V)
      /\ Len(T) \in Nat /\ Len(U) \in Nat /\ Len(V) \in Nat
  BY ShapedFacts DEF Adds
<1>2. Len(T) <= Len(U) /\ Len(U) <= Len(V) /\ V \in Seq(Type)
  BY DEF Adds, Extends
<1>3. \A t \in DOMAIN T : t \in DOMAIN U
  BY <1>1, <1>2
<1>4. /\ \A t \in DOMAIN T : U[t] = T[t]
      /\ \A t \in DOMAIN U : V[t] = U[t]
      /\ \A t \in DOMAIN U : t \notin DOMAIN T => Up(U, t) = Null /\ Label(U, t) \in Compound \union {"var"}
      /\ \A t \in DOMAIN V : t \notin DOMAIN U => Up(V, t) = Null /\ Label(V, t) \in Compound \union {"var"}
  BY DEF Adds, Extends
<1>5. \A t \in DOMAIN T : V[t] = T[t]
  BY <1>3, <1>4
<1>6. ASSUME NEW t \in DOMAIN V, t \notin DOMAIN T
      PROVE  Up(V, t) = Null /\ Label(V, t) \in Compound \union {"var"}
  <2>1. CASE t \in DOMAIN U
    BY <1>4, <1>6, <2>1 DEF Up, Label
  <2>2. CASE t \notin DOMAIN U
    BY <1>4, <2>2
  <2>. QED BY <2>1, <2>2
<1>7. Len(T) <= Len(V)
  BY <1>1, <1>2
<1>. QED BY <1>1, <1>2, <1>5, <1>6, <1>7 DEF Adds, Extends

(* The constructors make types that can be added.                          *)
LEMMA FreshTypes ==
    /\ \A T : Fresh(T, NewVar)
    /\ \A T : Shaped(T) => \A c \in Compound : \A l, r \in DOMAIN T : Fresh(T, NewType(c, <<l, r>>))
<1>1. ASSUME NEW T PROVE Fresh(T, NewVar)
  <2>1. NewVar = [class |-> "var", parts |-> <<>>, unifier |-> 0] /\ <<>> \in Seq(Nat)
    BY DEF NewVar, NewType, Null
  <2>. QED BY <2>1 DEF Fresh, Type, Null, Kind
<1>2. ASSUME NEW T, Shaped(T), NEW c \in Compound, NEW l \in DOMAIN T, NEW r \in DOMAIN T
      PROVE  Fresh(T, NewType(c, <<l, r>>))
  <2>1. DOMAIN T \subseteq Nat
    BY <1>2, ShapedFacts
  <2>2. PICK p : p = <<l, r>>
    OBVIOUS
  <2>3. p \in Seq(Nat) /\ DOMAIN p = {1, 2} /\ p[1] = l /\ p[2] = r
    BY <2>1, <2>2
  <2>4. c \in Kind
    BY DEF Kind
  <2>5. NewType(c, p) = [class |-> c, parts |-> p, unifier |-> 0]
    BY DEF NewType, Null
  <2>6. Fresh(T, NewType(c, p))
    BY <2>3, <2>4, <2>5 DEF Fresh, Type, Null
  <2>. QED BY <2>2, <2>6
<1>. QED BY <1>1, <1>2

(* type_ensure_routine adds three types at once.                           *)
LEMMA ThreeTypes ==
    \A a, b, d \in Type :
        /\ <<a, b, d>> \in Seq(Type) /\ Len(<<a, b, d>>) = 3
        /\ <<a, b, d>>[1] = a /\ <<a, b, d>>[2] = b /\ <<a, b, d>>[3] = d
OBVIOUS

(* What is known before two steps is known after both.                     *)
LEMMA KnownStayTransitive ==
    ASSUME NEW T, NEW U, NEW V, KnownStay(T, U), KnownStay(U, V), DOMAIN T \subseteq DOMAIN U
    PROVE  KnownStay(T, V)
BY DEF KnownStay, IsKnown

(* A routine has a domain.                                                 *)
LEMMA FirstPart ==
    ASSUME NEW T, Graph(T), NEW f \in DOMAIN T, ClassOf(T, f) = "closure"
    PROVE  PartsOf(T, f)[1] \in DOMAIN T
<1>1. PICK r : r = Representative(T, f)
  OBVIOUS
<1>2. r \in DOMAIN T /\ Label(T, r) = "closure" /\ PartsOf(T, f) = Parts(T, r)
  BY <1>1, ClassIs
<1>3. 1 \in DOMAIN Parts(T, r)
  BY <1>2 DEF Graph, Shaped, Compound
<1>. QED BY <1>2, <1>3, ShapedFacts DEF Graph

(* type_ensure_routine makes a closure and asks for f to be it.            *)
LEMMA EnsuredIs ==
    ASSUME NEW T, Graph(T), NEW f \in DOMAIN T, ClassOf(T, f) \in {"var", "closure"},
           NEW c, c = meant, ~failed => Exact(T, {}, c),
           NEW V, V = EnsuredRoutine(T, f),
           NEW e, e = IF V = T THEN NothingAsked(V) ELSE Asked(V, c, f, Len(V))
    PROVE  /\ Graph(V) /\ KnownStay(T, V) /\ Keeps(T, V)
           /\ Len(V) = Len(T) + (IF ClassOf(T, f) = "var" THEN 3 ELSE 0)
           /\ PartsOf(V, f)[1] \in DOMAIN V
           /\ ~failed => Exact(V, {}, e)
           /\ failed => e = <<>>
<1>1. PICK r : r = Representative(T, f)
  OBVIOUS
<1>2. /\ r \in DOMAIN T /\ ClassOf(T, f) = Label(T, r) /\ Up(T, r) = Null
      /\ T \in Seq(Type) /\ Len(T) \in Nat /\ DOMAIN T = 1 .. Len(T) /\ Shaped(T)
  BY <1>1, ClassIs, ShapedFacts DEF Graph
<1>3. PICK n \in Nat : n = Len(T)
  BY <1>2
<1>4. CASE ClassOf(T, f) # "var"
  <2>1. V = T
    BY <1>1, <1>2, <1>4 DEF EnsuredRoutine, Label
  <2>2. ClassOf(T, f) = "closure"
    BY <1>4
  <2>3. ~failed => e = c
    <3>1. ~failed => c \in Partitions(DOMAIN T)
      BY DEF Exact, Satisfies
    <3>2. ~failed => Grown(T, c) = c
      BY <3>1, GrownIs
    <3>. QED BY <2>1, <3>2 DEF NothingAsked
  <2>4. failed => e = <<>>
    BY <2>1 DEF NothingAsked
  <2>5. KnownStay(T, T) /\ Keeps(T, T)
    BY DEF KnownStay, Keeps
  <2>. QED BY <1>2, <1>4, <2>1, <2>2, <2>3, <2>4, <2>5, FirstPart
<1>5. CASE ClassOf(T, f) = "var"
  <2>1. PICK a, b, d : a = NewVar /\ b = NewVar /\ d = NewType("closure", <<n + 1, n + 2>>)
    OBVIOUS
  <2>2. PICK A : A = Append(T, a)
    OBVIOUS
  <2>3. PICK B : B = Append(A, b)
    OBVIOUS
  <2>4. PICK C : C = Append(B, d)
    OBVIOUS
  <2>5. /\ Adds(T, A) /\ Len(A) = n + 1 /\ A[n + 1] = a
        /\ DOMAIN A = DOMAIN T \union {n + 1} /\ n + 1 \notin DOMAIN T
    BY <1>2, <1>3, <2>1, <2>2, FreshTypes, AppendIs
  <2>6. /\ Adds(A, B) /\ Len(B) = n + 2 /\ B[n + 2] = b
        /\ DOMAIN B = DOMAIN A \union {n + 2} /\ n + 2 \notin DOMAIN A
    <3>1. Shaped(A) /\ n + 1 + 1 = n + 2
      BY <2>5 DEF Adds
    <3>2. Fresh(A, b)
      BY <2>1, FreshTypes
    <3>3. /\ Adds(A, B) /\ Len(B) = Len(A) + 1 /\ B[Len(A) + 1] = b
          /\ DOMAIN B = DOMAIN A \union {Len(A) + 1} /\ Len(A) + 1 \notin DOMAIN A
      BY <2>3, <3>1, <3>2, AppendIs
    <3>4. Len(A) + 1 = n + 2
      BY <2>5, <3>1
    <3>. QED BY <3>3, <3>4
  <2>7. /\ Adds(B, C) /\ Len(C) = n + 3 /\ C[n + 3] = d
        /\ DOMAIN C = DOMAIN B \union {n + 3} /\ n + 3 \notin DOMAIN B
    <3>1. Shaped(B) /\ n + 2 + 1 = n + 3 /\ n + 1 \in DOMAIN B /\ n + 2 \in DOMAIN B
      BY <2>5, <2>6 DEF Adds
    <3>2. "closure" \in Compound
      BY DEF Compound
    <3>3. Fresh(B, d)
      BY <2>1, <3>1, <3>2, FreshTypes
    <3>. QED BY <2>4, <2>6, <3>1, <3>3, AppendIs
  <2>8. Adds(T, C)
    <3>1. Shaped(A)
      BY <2>5 DEF Adds
    <3>2. Adds(A, C)
      BY <2>6, <2>7, <3>1, AddsTransitive
    <3>. QED BY <1>2, <2>5, <3>2, AddsTransitive
  <2>9. /\ Graph(C) /\ KnownStay(T, C) /\ DOMAIN T \subseteq DOMAIN C
        /\ \A x \in DOMAIN T : Label(C, x) = Label(T, x)
        /\ \A x \in DOMAIN T : Representative(C, x) = Representative(T, x)
        /\ \A x \in DOMAIN C : x \notin DOMAIN T => Representative(C, x) = x
    BY <2>8, ExtendGraph DEF Adds
  <2>10. /\ C \in Seq(Type) /\ \A x \in DOMAIN T : C[x] = T[x]
    BY <2>8 DEF Adds, Extends
  <2>11. DOMAIN C = 1 .. n + 3 /\ n + 3 \notin DOMAIN T /\ n + 3 \in DOMAIN C /\ n + 3 # r
    BY <1>2, <1>3, <2>7, <2>10
  <2>12. C[n + 1] = a /\ C[n + 2] = b
    <3>1. n + 1 \in DOMAIN A /\ n + 1 \in DOMAIN B /\ n + 2 \in DOMAIN B
      BY <2>5, <2>6
    <3>2. B[n + 1] = A[n + 1] /\ C[n + 1] = B[n + 1] /\ C[n + 2] = B[n + 2]
      BY <2>6, <2>7, <3>1 DEF Adds, Extends
    <3>. QED BY <2>5, <2>6, <3>2
  <2>13. PICK W : W = [T EXCEPT ![r].unifier = n + 3]
    OBVIOUS
  <2>14. V = W \o <<a, b, d>>
    BY <1>1, <1>2, <1>3, <1>5, <2>1, <2>13 DEF EnsuredRoutine, Label
  <2>15. PICK q : q = [T[r] EXCEPT !.unifier = n + 3]
    OBVIOUS
  <2>16. q \in Type
    <3>1. T[r] \in Type /\ n + 3 \in Nat
      BY <1>2
    <3>. QED BY <2>15, <3>1 DEF Type
  <2>17. W \in Seq(Type) /\ Len(W) = n /\ \A x \in 1 .. n : W[x] = IF x = r THEN q ELSE T[x]
    <3>1. W = [T EXCEPT ![r] = q]
      BY <2>13, <2>15
    <3>. QED BY <1>2, <1>3, <2>16, <3>1
  <2>18. a \in Type /\ b \in Type /\ d \in Type
    <3>1. T[r] \in Type
      BY <1>2
    <3>2. C[n + 1] \in Type /\ C[n + 2] \in Type /\ C[n + 3] \in Type
      BY <2>10, <2>11
    <3>. QED BY <2>7, <2>12, <3>2
  <2>19. /\ V \in Seq(Type) /\ Len(V) = n + 3
         /\ \A x \in 1 .. n : V[x] = W[x]
         /\ V[n + 1] = a /\ V[n + 2] = b /\ V[n + 3] = d
    <3>1. PICK t : t = <<a, b, d>>
      OBVIOUS
    <3>2. t \in Seq(Type) /\ Len(t) = 3 /\ t[1] = a /\ t[2] = b /\ t[3] = d
      BY <2>18, <3>1, ThreeTypes
    <3>3. V = W \o t
      BY <2>14, <3>1
    <3>4. /\ V \in Seq(Type) /\ Len(V) = n + 3
          /\ \A x \in 1 .. n + 3 : V[x] = IF x <= n THEN W[x] ELSE t[x - n]
      <4>1. /\ W \o t \in Seq(Type) /\ Len(W \o t) = Len(W) + Len(t)
            /\ \A x \in 1 .. Len(W) + Len(t) :
                  (W \o t)[x] = IF x <= Len(W) THEN W[x] ELSE t[x - Len(W)]
        <5>1. W \in Seq(Type) /\ t \in Seq(Type)
          BY <2>17, <3>2
        <5>. QED BY <5>1, ConcatProperties
      <4>2. Len(W) = n /\ Len(W) + Len(t) = n + 3
        BY <2>17, <3>2
      <4>. QED BY <3>3, <4>1, <4>2
    <3>5. \A x \in 1 .. n : x \in 1 .. n + 3 /\ x <= n
      OBVIOUS
    <3>6. /\ n + 1 \in 1 .. n + 3 /\ ~(n + 1 <= n) /\ n + 1 - n = 1
          /\ n + 2 \in 1 .. n + 3 /\ ~(n + 2 <= n) /\ n + 2 - n = 2
          /\ n + 3 \in 1 .. n + 3 /\ ~(n + 3 <= n) /\ n + 3 - n = 3
      OBVIOUS
    <3>. QED BY <3>2, <3>4, <3>5, <3>6
  <2>20. Links(C, V, r, n + 3)
    <3>1. PICK X : X = [C EXCEPT ![r] = q]
      OBVIOUS
    <3>2. r \in DOMAIN C /\ C[r] = T[r]
      BY <1>2, <2>9, <2>10
    <3>3. X = [C EXCEPT ![r].unifier = n + 3]
      BY <2>15, <3>1, <3>2
    <3>4. X \in Seq(Type) /\ Len(X) = n + 3 /\ \A x \in 1 .. n + 3 : X[x] = IF x = r THEN q ELSE C[x]
      BY <2>7, <2>10, <2>11, <2>16, <3>1, <3>2
    <3>5. ASSUME NEW x \in 1 .. n + 3 PROVE X[x] = V[x]
      <4>1. CASE x \in 1 .. n
        BY <1>2, <1>3, <2>10, <2>17, <2>19, <3>4, <4>1
      <4>2. CASE x \notin 1 .. n
        <5>1. x = n + 1 \/ x = n + 2 \/ x = n + 3
          BY <4>2
        <5>2. x # r
          BY <1>2, <1>3, <4>2
        <5>. QED BY <2>7, <2>12, <2>19, <3>4, <5>1, <5>2
      <4>. QED BY <4>1, <4>2
    <3>6. X = V
      BY <2>19, <3>4, <3>5
    <3>. QED BY <3>3, <3>6 DEF Links
  <2>21. Representative(C, f) = r /\ Representative(C, n + 3) = n + 3 /\ r # n + 3
    BY <1>1, <2>9, <2>11
  <2>22. Label(C, r) = "var" /\ Label(C, n + 3) = "closure" /\ r \in DOMAIN C /\ f \in DOMAIN C
    <3>1. Label(C, n + 3) = "closure"
      BY <2>1, <2>7 DEF Label, NewType
    <3>. QED BY <1>2, <1>5, <2>9, <3>1
  <2>23. ClassOf(C, f) = "var" /\ ClassOf(C, n + 3) = "closure"
    BY <2>21, <2>22 DEF ClassOf, Label
  <2>24. ~Clash(C, f, n + 3) /\ Merges(C, f, n + 3) /\ ~IsKnown(C, f)
    BY <2>21, <2>23 DEF Clash, Merges, IsKnown
  <2>25. Unified(C, f, n + 3) = V
    <3>1. Unified(C, f, n + 3) = [C EXCEPT ![r].unifier = n + 3]
      BY <2>21, <2>22, <2>24 DEF Unified, Union, Label
    <3>. QED BY <2>20, <3>1 DEF Links
  <2>26. Graph(V) /\ SameShape(C, V) /\ KnownStay(C, V) /\ Joins(C, V, f, n + 3)
    <3>1. PICK N : N = n + 3
      OBVIOUS
    <3>2. Graph(C) /\ f \in DOMAIN C /\ N \in DOMAIN C /\ ~Clash(C, f, N) /\ Unified(C, f, N) = V
      BY <2>9, <2>11, <2>22, <2>24, <2>25, <3>1
    <3>3. Graph(V) /\ SameShape(C, V) /\ KnownStay(C, V) /\ Joins(C, V, f, N)
      BY <3>2, UnifiedIs
    <3>. QED BY <3>1, <3>3
  <2>27. KnownStay(T, V) /\ Keeps(T, V)
    <3>1. KnownStay(T, V)
      BY <2>9, <2>26, KnownStayTransitive
    <3>2. \A x \in DOMAIN T : Parts(C, x) = Parts(T, x)
      BY <2>10 DEF Parts
    <3>3. \A x, y \in DOMAIN T : Same(T, x, y) => Same(C, x, y)
      BY <2>9 DEF Same
    <3>4. ASSUME NEW x \in DOMAIN C, x \notin DOMAIN T PROVE Label(C, x) # "set"
      <4>1. x = n + 1 \/ x = n + 2 \/ x = n + 3
        BY <1>2, <1>3, <2>11, <3>4
      <4>2. a.class = "var" /\ b.class = "var" /\ d.class = "closure"
        BY <2>1 DEF NewVar, NewType
      <4>. QED BY <2>7, <2>12, <4>1, <4>2 DEF Label
    <3>5. Keeps(T, C)
      BY <2>9, <3>2, <3>3, <3>4 DEF Keeps
    <3>6. Keeps(C, V)
      BY <2>26 DEF Keeps, Joins, SameShape
    <3>. QED BY <3>1, <3>5, <3>6, KeepsTransitive
  <2>28. DOMAIN V = DOMAIN C /\ \A x \in DOMAIN C : Label(V, x) = Label(C, x)
    BY <2>26 DEF SameShape
  <2>29. PartsOf(V, f)[1] \in DOMAIN V
    <3>1. f \in DOMAIN V /\ n + 3 \in DOMAIN V
      BY <2>11, <2>22, <2>28
    <3>2. Same(V, f, n + 3)
      BY <2>11, <2>22, <2>26 DEF Joins, Same
    <3>3. ClassOf(V, n + 3) = "closure"
      BY <2>11, <2>23, <2>26 DEF KnownStay, IsKnown
    <3>4. ClassOf(V, f) = "closure"
      BY <3>2, <3>3 DEF Same, ClassOf
    <3>. QED BY <2>26, <3>1, <3>4, FirstPart
  <2>30. V # T
    BY <1>3, <2>19
  <2>31. e = Asked(V, c, f, n + 3)
    BY <2>19, <2>30
  <2>32. CASE failed
    <3>1. e = <<>>
      BY <2>31, <2>32 DEF Asked
    <3>. QED BY <1>3, <1>5, <2>9, <2>19, <2>26, <2>27, <2>28, <2>29, <2>32, <3>1
  <2>33. CASE ~failed
    <3>1. PICK g : g = Grown(C, c)
      OBVIOUS
    <3>2. Exact(C, {}, g)
      BY <2>8, <2>33, <3>1, GrowExact DEF Adds
    <3>3. g \in Partitions(DOMAIN C)
      BY <3>2 DEF Exact, Satisfies
    <3>4. Grown(V, c) = g
      BY <2>28, <3>1 DEF Grown
    <3>5. PICK N : N = n + 3
      OBVIOUS
    <3>6. PICK h : h = Merged(g, f, N)
      OBVIOUS
    <3>7. e = Closure(V, h)
      BY <2>31, <2>33, <3>4, <3>5, <3>6 DEF Asked
    <3>8. h \in Partitions(DOMAIN C)
      BY <2>11, <2>22, <3>3, <3>5, <3>6, MergedIs
    <3>9. Least(V, h, e)
      BY <2>26, <2>28, <3>7, <3>8, ClosureIsLeast DEF Graph
    <3>10. Least(C, h, e)
      BY <2>26, <3>8, <3>9, LeastSame
    <3>11. Exact(C, {<<f, N>>}, e)
      BY <2>11, <2>22, <3>2, <3>5, <3>6, <3>10, AskExact
    <3>12. Exact(Unified(C, f, N), Pairs(Subcalls(C, f, N)) \union {}, e)
      <4>1. {<<f, N>>} = {<<f, N>>} \union {}
        OBVIOUS
      <4>2. Exact(C, {<<f, N>>} \union {}, e)
        BY <3>11, <4>1
      <4>. QED BY <2>9, <2>11, <2>22, <2>24, <3>5, <4>2, UnifyExact
    <3>13. Subcalls(C, f, N) = <<>>
      BY <2>24, <3>5 DEF Subcalls
    <3>14. Pairs(Subcalls(C, f, N)) \union {} = {}
      BY <3>13, PairsOf
    <3>15. Exact(V, {}, e)
      BY <2>25, <3>5, <3>12, <3>14
    <3>. QED BY <1>3, <1>5, <2>9, <2>19, <2>26, <2>27, <2>28, <2>29, <2>33, <3>15
  <2>. QED BY <2>32, <2>33
<1>. QED BY <1>4, <1>5

(* The types without parts are there from the beginning, each a class of   *)
(* its own.                                                                *)
LEMMA InitInv == Init => TypesInv
<1>. SUFFICES ASSUME Init PROVE TypesInv
  OBVIOUS
<1>1. PICK T, c : T = types /\ c = meant
  OBVIOUS
<1>2. PICK n \in Nat : n = Len(Base)
  BY BaseAssumption
<1>3. DOMAIN Base = 1 .. n /\ n <= TypeBound
  BY <1>2, BaseAssumption, BoundsAssumption
<1>4. T = [b \in 1 .. n |-> NewType(Base[b], <<>>)] /\ c = [b \in 1 .. n |-> {b}]
  BY <1>1, <1>3 DEF Init
<1>5. ASSUME NEW b \in 1 .. n
      PROVE  /\ T[b] \in Type /\ Up(T, b) = Null /\ Label(T, b) = Base[b]
             /\ DOMAIN Parts(T, b) = {}
  <2>1. T[b] = [class |-> Base[b], parts |-> <<>>, unifier |-> 0] /\ <<>> \in Seq(Nat)
    BY <1>4 DEF NewType, Null
  <2>2. Base[b] \in Kind
    BY <1>3 DEF Kind
  <2>. QED BY <2>1, <2>2 DEF Type, Up, Label, Parts, Null
<1>6. T \in Seq(Type) /\ Len(T) = n /\ DOMAIN T = 1 .. n
  <2>1. T \in [1 .. n -> Type]
    <3>1. \A b \in 1 .. n : T[b] \in Type
      BY <1>5
    <3>2. T = [b \in 1 .. n |-> T[b]]
      BY <1>4
    <3>. QED BY <3>1, <3>2
  <2>2. T \in Seq(Type)
    BY <2>1, SeqDef
  <2>. QED BY <1>4, <2>2
<1>7. \A b \in 1 .. n : Base[b] \notin Compound \union {"var"}
  BY <1>3, BaseAssumption
<1>8. Shaped(T)
  BY <1>5, <1>6, <1>7 DEF Shaped
<1>9. Forest(T)
  <2>1. Linked(T)
    BY <1>5, <1>6 DEF Linked
  <2>2. Deep(T, [t \in 1 .. n |-> 0])
    BY <1>5, <1>6 DEF Deep
  <2>. QED BY <2>1, <2>2 DEF Forest
<1>10. \A t \in 1 .. n : Representative(T, t) = t
  <2>1. Represents(T)
    BY <1>9, RepresentativeIs
  <2>. QED BY <1>5, <1>6, <2>1 DEF Represents
<1>11. Graph(T)
  <2>1. Honest(T)
    BY <1>6, <1>10 DEF Honest, ClassOf, Label
  <2>2. Simple(T)
    BY <1>3, <1>5, <1>6 DEF Simple
  <2>. QED BY <1>8, <1>9, <2>1, <2>2 DEF Graph
<1>12. c \in Partitions(DOMAIN T) /\ \A a \in DOMAIN T : c[a] = {a}
  BY <1>4, <1>6 DEF Partitions
<1>13. Exact(T, {}, c)
  <2>1. Satisfies(T, {}, c)
    BY <1>6, <1>10, <1>12 DEF Satisfies, Same
  <2>2. Kept(T, c)
    BY <1>12 DEF Kept
  <2>3. Justified(T, {}, c)
    <3>1. ASSUME NEW q, Satisfies(T, {}, q) PROVE Finer(c, q)
      <4>1. q \in Partitions(DOMAIN T)
        BY <3>1 DEF Satisfies
      <4>2. \A a \in DOMAIN T : a \in q[a]
        BY <4>1, PartitionFacts
      <4>. QED BY <1>4, <1>6, <1>12, <4>2 DEF Finer
    <3>. QED BY <3>1 DEF Justified
  <2>4. PartsFollow(T, {})
    BY <1>5, <1>6 DEF PartsFollow
  <2>. QED BY <2>1, <2>2, <2>3, <2>4 DEF Exact
<1>14. names = {} /\ calls = <<>> /\ joining = FALSE /\ failed = FALSE
  BY DEF Init
<1>15. MeantOK(T, Pairs(calls), c, failed)
  BY <1>13, <1>14, PairsOf DEF MeantOK
<1>16. calls \in Seq((DOMAIN T) \X (DOMAIN T))
  BY <1>14, PairsOf
<1>17. Good(T, names, calls, joining, c, failed)
  BY <1>2, <1>3, <1>6, <1>11, <1>14, <1>15, <1>16 DEF Good
<1>. QED BY <1>1, <1>17 DEF TypesInv

(* A step that makes a type keeps the invariant.                           *)
LEMMA AppendKeeps ==
    ASSUME TypesInv, calls = <<>>, Room(1), NEW u, Fresh(types, u),
           types' = Append(types, u), meant' = NothingAsked(types'),
           calls' = <<>>, joining' = FALSE, failed' = failed,
           names' = names \/ (u.class = "var" /\ names' = names \union {Len(types')})
    PROVE  TypesInv' /\ KnownStay(types, types') /\ (u.class # "set" => Keeps(types, types'))
<1>1. PICK T, V : T = types /\ V = types'
  OBVIOUS
<1>2. /\ Graph(T) /\ Shaped(T) /\ Fresh(T, u) /\ Len(T) \in Nat
      /\ V = Append(T, u) /\ Len(T) + 1 <= TypeBound
  <2>1. Graph(T) /\ Shaped(T)
    BY <1>1 DEF TypesInv, Good, Graph
  <2>. QED BY <1>1, <2>1, ShapedFacts DEF Room
<1>3. /\ Adds(T, V) /\ Len(V) = Len(T) + 1 /\ V[Len(T) + 1] = u
      /\ DOMAIN V = DOMAIN T \union {Len(T) + 1} /\ Len(T) + 1 \notin DOMAIN T
  BY <1>2, AppendIs
<1>4. /\ Graph(V) /\ KnownStay(T, V)
      /\ \A x \in DOMAIN T : Label(V, x) = Label(T, x)
  BY <1>2, <1>3, ExtendGraph DEF Adds
<1>5. calls = <<>> /\ calls' = <<>> /\ joining' = FALSE /\ failed' = failed /\ failed \in BOOLEAN
  BY DEF TypesInv, Good
<1>6. Pairs(<<>>) = {} /\ <<>> \in Seq((DOMAIN V) \X (DOMAIN V))
  BY PairsOf
<1>7. MeantOK(T, {}, meant, failed)
  BY <1>1, <1>5, <1>6 DEF TypesInv, Good
<1>8. /\ ~failed => Exact(V, {}, NothingAsked(V))
      /\ failed => NothingAsked(V) = <<>>
  BY <1>2, <1>3, <1>7, NothingAskedIs DEF MeantOK, Adds
<1>9. meant' = NothingAsked(V)
  BY <1>1
<1>10. MeantOK(V, {}, meant', failed')
  BY <1>5, <1>8, <1>9 DEF MeantOK
<1>11. names' \subseteq {t \in DOMAIN V : V[t].class = "var"}
  <2>1. names \subseteq {t \in DOMAIN V : V[t].class = "var"}
    <3>1. names \subseteq {t \in DOMAIN T : T[t].class = "var"}
      BY <1>1 DEF TypesInv, Good
    <3>. QED BY <1>3, <1>4, <3>1 DEF Label
  <2>. QED BY <1>1, <1>3, <2>1
<1>13. Good(V, names', <<>>, FALSE, meant', failed')
  BY <1>2, <1>3, <1>4, <1>5, <1>6, <1>10, <1>11 DEF Good
<1>12. TypesInv'
  BY <1>1, <1>5, <1>13 DEF TypesInv
<1>14. u.class # "set" => Keeps(T, V)
  <2>1. \A x \in DOMAIN T : /\ Representative(V, x) = Representative(T, x)
                            /\ Parts(V, x) = Parts(T, x)
    BY <1>2, <1>3, ExtendGraph DEF Adds
  <2>2. Label(V, Len(T) + 1) = u.class
    BY <1>3 DEF Label
  <2>. QED BY <1>3, <1>4, <2>1, <2>2 DEF Keeps, Same
<1>. QED BY <1>1, <1>4, <1>12, <1>14

(* A step that makes a call of type_unify keeps it.                        *)
LEMMA UnifyInv ==
    ASSUME TypesInv, NEW T, Graph(T), KnownStay(types, T), Keeps(types, T), Len(T) <= TypeBound,
           NEW m \in DOMAIN T, NEW n \in DOMAIN T,
           NEW rest \in Seq((DOMAIN T) \X (DOMAIN T)), NEW c,
           Unify(T, m, n, rest, c), names' = names,
           joining' \in BOOLEAN, joining' => Len(T) + 1 <= TypeBound,
           ~failed => Exact(T, {<<m, n>>} \union Pairs(rest), c),
           failed => c = <<>>
    PROVE  TypesInv' /\ KnownStay(types, types') /\ Keeps(types, types')
<1>1. PICK V : V = types'
  OBVIOUS
<1>2. failed \in BOOLEAN
  BY DEF TypesInv, Good
<1>3. /\ Graph(V) /\ SameShape(T, V) /\ KnownStay(T, V) /\ Keeps(T, V)
      /\ calls' \in Seq((DOMAIN T) \X (DOMAIN T))
      /\ failed' \in BOOLEAN
      /\ MeantOK(V, Pairs(calls'), meant', failed')
  <2>1. /\ Graph(types') /\ SameShape(T, types') /\ KnownStay(T, types') /\ Keeps(T, types')
        /\ calls' \in Seq((DOMAIN T) \X (DOMAIN T))
        /\ failed' \in BOOLEAN
        /\ MeantOK(types', Pairs(calls'), meant', failed')
    <3>1. PICK C, g, M : C = calls' /\ g = failed' /\ M = meant'
      OBVIOUS
    <3>2. PICK f : f = failed
      OBVIOUS
    <3>3. Called(T, m, n, rest, f, V, C, g) /\ M = c
      BY <1>1, <3>1, <3>2 DEF Unify, Called
    <3>4. /\ ~f => Exact(T, {<<m, n>>} \union Pairs(rest), c)
          /\ f => c = <<>>
          /\ f \in BOOLEAN
      BY <1>2, <3>2
    <3>5. /\ Graph(V) /\ SameShape(T, V) /\ KnownStay(T, V) /\ Keeps(T, V)
          /\ C \in Seq((DOMAIN T) \X (DOMAIN T))
          /\ g \in BOOLEAN
          /\ MeantOK(V, Pairs(C), c, g)
      BY <3>3, <3>4, UnifyKeeps
    <3>. QED BY <1>1, <3>1, <3>3, <3>5
  <2>. QED BY <1>1, <2>1
<1>4. DOMAIN V = DOMAIN T /\ \A x \in DOMAIN T : Label(V, x) = Label(T, x)
  BY <1>3 DEF SameShape
<1>5. Len(V) = Len(T)
  <2>1. T \in Seq(Type) /\ V \in Seq(Type)
    BY <1>3 DEF Graph, Shaped
  <2>. QED BY <1>4, <2>1
<1>6. KnownStay(types, V)
  <2>1. PICK U : U = types
    OBVIOUS
  <2>2. KnownStay(U, T) /\ DOMAIN U \subseteq DOMAIN T
    BY <2>1 DEF Node, Keeps
  <2>3. KnownStay(U, V)
    BY <1>3, <2>2, KnownStayTransitive
  <2>. QED BY <2>1, <2>3
<1>7. names' \subseteq {t \in DOMAIN V : V[t].class = "var"}
  <2>1. names \subseteq {t \in Node : types[t].class = "var"}
    BY DEF TypesInv, Good, Node
  <2>. QED BY <1>4, <2>1 DEF Label, Node, Keeps
<1>8. TypesInv'
  <2>1. Good(V, names', calls', joining', meant', failed')
    BY <1>3, <1>4, <1>5, <1>7 DEF Good
  <2>. QED BY <1>1, <2>1 DEF TypesInv
<1>9. Keeps(types, V)
  <2>1. PICK U : U = types
    OBVIOUS
  <2>2. Keeps(U, T)
    BY <2>1
  <2>3. Keeps(U, V)
    BY <1>3, <2>2, KeepsTransitive
  <2>. QED BY <2>1, <2>3
<1>. QED BY <1>1, <1>6, <1>8, <1>9

(* Every type is equal to itself: type_equal comes to an end, for the      *)
(* parts of a type are smaller than the type.                              *)
LEMMA EqualItself ==
    ASSUME NEW T, Graph(T), NEW a \in DOMAIN T
    PROVE  Equal(T, a, a)
<1>. DEFINE D == DOMAIN T
            S == D \X D
            B == BOOLEAN
            size == [p \in S |-> p[1]]
            step == [p \in S |-> [f \in [S -> B] |->
                        /\ T[p[1]].class = T[p[2]].class
                        /\ \A i \in DOMAIN T[p[1]].parts : f[<<T[p[1]].parts[i], T[p[2]].parts[i]>>]]]
            P(f) == f = [p \in S |->
                        /\ T[p[1]].class = T[p[2]].class
                        /\ \A i \in DOMAIN T[p[1]].parts : f[<<T[p[1]].parts[i], T[p[2]].parts[i]>>]]
            eq == CHOOSE f : P(f)
<1>1. /\ D = 1 .. Len(T) /\ Len(T) \in Nat
      /\ \A t \in D : \A i \in DOMAIN T[t].parts :
            /\ T[t].parts[i] \in D /\ T[t].parts[i] < t
            /\ \A u \in D : T[t].class = T[u].class => i \in DOMAIN T[u].parts
  BY ShapedFacts DEF Graph, Label, Parts
<1>2. ASSUME NEW p \in S, T[p[1]].class = T[p[2]].class, NEW i \in DOMAIN T[p[1]].parts
      PROVE  /\ <<T[p[1]].parts[i], T[p[2]].parts[i]>> \in S
             /\ size[<<T[p[1]].parts[i], T[p[2]].parts[i]>>] < size[p]
  <2>1. PICK t, u \in D : t = p[1] /\ u = p[2]
    OBVIOUS
  <2>2. T[t].parts[i] \in D /\ T[t].parts[i] < t /\ T[u].parts[i] \in D
    BY <1>1, <1>2, <2>1
  <2>3. PICK q : q = <<T[t].parts[i], T[u].parts[i]>>
    OBVIOUS
  <2>4. q \in S /\ q[1] = T[t].parts[i]
    BY <2>2, <2>3
  <2>5. size[q] = q[1] /\ size[p] = p[1]
    BY <2>4
  <2>6. q \in S /\ size[q] < size[p]
    BY <2>1, <2>2, <2>4, <2>5
  <2>. QED BY <2>1, <2>3, <2>6
<1>3. DependsOnSmaller(step, S, B, size)
  <2>1. size \in [S -> Nat]
    BY <1>1
  <2>2. step \in [S -> [[S -> B] -> B]]
    OBVIOUS
  <2>3. ASSUME NEW p \in S, NEW f \in [S -> B], NEW g \in [S -> B],
               \A q \in S : size[q] < size[p] => f[q] = g[q]
        PROVE  step[p][f] = step[p][g]
    <3>1. CASE T[p[1]].class # T[p[2]].class
      BY <3>1
    <3>2. CASE T[p[1]].class = T[p[2]].class
      <4>1. \A i \in DOMAIN T[p[1]].parts :
               f[<<T[p[1]].parts[i], T[p[2]].parts[i]>>] = g[<<T[p[1]].parts[i], T[p[2]].parts[i]>>]
        <5>. HIDE DEF S, size, step
        <5>. QED BY <1>2, <2>3, <3>2
      <4>. QED BY <3>2, <4>1
    <3>. QED BY <3>1, <3>2
  <2>. HIDE DEF size, step, S, B
  <2>. QED BY <2>1, <2>2, <2>3 DEF DependsOnSmaller
<1>4. PICK f \in [S -> B] : IsTable(f, step, S)
  <2>. HIDE DEF step, size, S
  <2>. QED BY <1>3, RecursiveTable
<1>5. \A p \in S : f[p] = step[p][f]
  <2>. HIDE DEF step, S
  <2>. QED BY <1>4 DEF IsTable
<1>6. P(f)
  BY <1>5
<1>7. P(eq)
  <2>. HIDE DEF P
  <2>. QED BY <1>6
<1>8. Equal(T, a, a) <=> eq[<<a, a>>]
  BY DEF Equal
<1>. HIDE DEF eq
<1>9. ASSUME NEW t \in D, \A i \in DOMAIN T[t].parts : eq[<<T[t].parts[i], T[t].parts[i]>>]
      PROVE  eq[<<t, t>>]
  <2>1. PICK q \in S : q = <<t, t>> /\ q[1] = t /\ q[2] = t
    <3>1. <<t, t>> \in S
      BY SMT
    <3>2. <<t, t>>[1] = t /\ <<t, t>>[2] = t
      BY SMT
    <3>. QED BY <3>1, <3>2, Zenon
  <2>2. eq[q] = (/\ T[q[1]].class = T[q[2]].class
                 /\ \A i \in DOMAIN T[q[1]].parts : eq[<<T[q[1]].parts[i], T[q[2]].parts[i]>>])
    <3>. HIDE DEF S
    <3>. QED BY <1>7, Zenon
  <2>3. /\ T[q[1]].class = T[q[2]].class
        /\ \A i \in DOMAIN T[q[1]].parts : eq[<<T[q[1]].parts[i], T[q[2]].parts[i]>>]
    BY <1>9, <2>1
  <2>4. eq[q]
    <3>. HIDE DEF P, S
    <3>. QED BY <2>2, <2>3, Zenon
  <2>. QED BY <2>1, <2>4
<1>. DEFINE Bad == {t \in D : ~eq[<<t, t>>]}
<1>10. Bad = {}
  <2>1. SUFFICES ASSUME Bad # {} PROVE FALSE
    OBVIOUS
  <2>2. PICK n \in Bad : \A m \in Bad : n <= m
    <3>1. Bad \subseteq Nat
      BY <1>1
    <3>. HIDE DEF Bad
    <3>. QED BY <2>1, <3>1, LeastNumber
  <2>3. PICK i \in DOMAIN T[n].parts : ~eq[<<T[n].parts[i], T[n].parts[i]>>]
    BY <1>9, <2>2
  <2>4. PICK m : m = T[n].parts[i]
    OBVIOUS
  <2>5. m \in D /\ m < n /\ n \in Nat /\ m \in Nat
    BY <1>1, <2>2, <2>4
  <2>6. m \in Bad
    BY <2>3, <2>4, <2>5
  <2>. HIDE DEF Bad
  <2>. QED BY <2>2, <2>5, <2>6
<1>. QED BY <1>8, <1>10

(* A step that makes a variable, an argument list or a routine.            *)
LEMMA MakeKeeps ==
    ASSUME TypesInv, Ready, NEW u, Fresh(types, u), Make(u), u.class # "set",
           names' = names \/ (u.class = "var" /\ names' = names \union {Len(types')})
    PROVE  TypesInv' /\ KnownStay(types, types') /\ Keeps(types, types')
<1>1. /\ calls = <<>> /\ Room(1) /\ types' = Append(types, u) /\ meant' = NothingAsked(types')
      /\ calls' = <<>> /\ joining' = FALSE /\ failed' = failed
  BY DEF Ready, Make, TypesInv, Good
<1>. QED BY <1>1, AppendKeeps

(* The invariant says of a quiet state that what is meant is what is.      *)
LEMMA QuietIs ==
    ASSUME TypesInv, calls = <<>>
    PROVE  /\ Graph(types) /\ failed \in BOOLEAN
           /\ ~failed => Exact(types, {}, meant)
<1>1. Pairs(calls) = {}
  BY PairsOf
<1>. QED BY <1>1 DEF TypesInv, Good, MeantOK

(* A step that has type_unify_crit called for two types.                   *)
LEMMA AskKeeps ==
    ASSUME TypesInv, calls = <<>>, NEW m \in Node, NEW n \in Node, Ask(m, n),
           joining' \in BOOLEAN, joining' => Room(1)
    PROVE  TypesInv' /\ KnownStay(types, types') /\ Keeps(types, types')
<1>1. PICK T, c : T = types /\ c = meant
  OBVIOUS
<1>2. Graph(T) /\ (~failed => Exact(T, {}, c)) /\ m \in DOMAIN T /\ n \in DOMAIN T
  BY <1>1, QuietIs DEF Node
<1>3. PICK a : a = Asked(T, c, m, n)
  OBVIOUS
<1>4. /\ ~failed => Exact(T, {<<m, n>>}, a)
      /\ failed => a = <<>>
  BY <1>2, <1>3, AskedIs
<1>5. ~failed => Exact(T, {<<m, n>>} \union Pairs(<<>>), a)
  <2>1. Pairs(<<>>) = {} /\ {<<m, n>>} \union {} = {<<m, n>>}
    BY PairsOf
  <2>. QED BY <1>4, <2>1
<1>6. <<>> \in Seq((DOMAIN T) \X (DOMAIN T))
  OBVIOUS
<1>7. Unify(T, m, n, <<>>, a) /\ names' = names
  BY <1>1, <1>3 DEF Ask
<1>8. /\ KnownStay(types, T) /\ Keeps(types, T)
  BY <1>1 DEF KnownStay, Keeps
<1>9. Len(T) <= TypeBound /\ (joining' => Len(T) + 1 <= TypeBound)
  BY <1>1 DEF TypesInv, Good, Room
<1>. QED BY <1>2, <1>4, <1>5, <1>6, <1>7, <1>8, <1>9, UnifyInv

(* The first occurrence of a name.                                         *)
LEMMA DeclareKeeps ==
    TypesInv /\ Declare => TypesInv' /\ KnownStay(types, types') /\ Keeps(types, types')
<1>. SUFFICES ASSUME TypesInv, Declare PROVE TypesInv' /\ KnownStay(types, types') /\ Keeps(types, types')
  OBVIOUS
<1>1. PICK u : u = NewVar
  OBVIOUS
<1>2. Fresh(types, u) /\ u.class = "var" /\ u.class # "set"
  BY <1>1, FreshTypes DEF NewVar, NewType
<1>3. Ready /\ Make(u) /\ names' = names \union {Len(types')}
  BY <1>1 DEF Declare
<1>. QED BY <1>2, <1>3, MakeKeeps

(* ArgList and Routine make a type of two others.                          *)
LEMMA PairKeeps ==
    ASSUME TypesInv, Ready, NEW k \in {"arg", "closure"}, NEW l \in Node, NEW r \in Node,
           Make(NewType(k, <<l, r>>)), names' = names
    PROVE  TypesInv' /\ KnownStay(types, types') /\ Keeps(types, types')
<1>1. PICK u : u = NewType(k, <<l, r>>)
  OBVIOUS
<1>2. PICK T : T = types
  OBVIOUS
<1>3. Fresh(T, u)
  <2>1. Shaped(T) /\ l \in DOMAIN T /\ r \in DOMAIN T
    BY <1>2 DEF TypesInv, Good, Graph, Node
  <2>2. k \in Compound
    BY DEF Compound
  <2>. QED BY <1>1, <2>1, <2>2, FreshTypes
<1>4. Make(u)
  BY <1>1
<1>5. u.class # "set"
  BY <1>1 DEF NewType
<1>. QED BY <1>2, <1>3, <1>4, <1>5, MakeKeeps

(* The type of the tests of loops and conditionals is there.               *)
LEMMA BooleanIsNode == TypesInv => Boolean \in Node
BY BaseAssumption DEF TypesInv, Good, Graph, Simple, Node, Boolean

(* The next of the calls of type_unify still to be made.                   *)
LEMMA UnifyStepKeeps ==
    TypesInv /\ UnifyStep => TypesInv' /\ KnownStay(types, types') /\ Keeps(types, types')
<1>. SUFFICES ASSUME TypesInv, UnifyStep PROVE TypesInv' /\ KnownStay(types, types') /\ Keeps(types, types')
  OBVIOUS
<1>1. PICK T, C, c : T = types /\ C = calls /\ c = meant
  OBVIOUS
<1>2. /\ Graph(T) /\ C \in Seq((DOMAIN T) \X (DOMAIN T)) /\ C # <<>> /\ failed \in BOOLEAN
      /\ MeantOK(T, Pairs(C), c, failed) /\ joining \in BOOLEAN /\ (joining => Len(T) + 1 <= TypeBound)
      /\ Len(T) <= TypeBound
  BY <1>1 DEF TypesInv, Good, UnifyStep
<1>3. Pairs(C) = {Head(C)} \union Pairs(Tail(C)) /\ Head(C) \in (DOMAIN T) \X (DOMAIN T)
      /\ Tail(C) \in Seq((DOMAIN T) \X (DOMAIN T))
  BY <1>2, PairsOf
<1>4. PICK m \in DOMAIN T, n \in DOMAIN T : Head(C) = <<m, n>>
  BY <1>3
<1>5. PICK rest : rest = Tail(C)
  OBVIOUS
<1>6. ~failed => Exact(T, {<<m, n>>} \union Pairs(rest), c)
  BY <1>2, <1>3, <1>4, <1>5 DEF MeantOK
<1>7. failed => c = <<>>
  <2>1. Pairs(C) # {}
    BY <1>3
  <2>. QED BY <1>2, <2>1 DEF MeantOK
<1>8. Unify(T, m, n, rest, c) /\ names' = names /\ joining' = joining
  <2>1. Head(calls)[1] = m /\ Head(calls)[2] = n /\ Tail(calls) = rest
    BY <1>1, <1>4, <1>5
  <2>. QED BY <1>1, <2>1 DEF UnifyStep
<1>9. /\ KnownStay(types, T) /\ Keeps(types, T)
  BY <1>1 DEF KnownStay, Keeps
<1>10. rest \in Seq((DOMAIN T) \X (DOMAIN T))
  BY <1>3, <1>5
<1>. QED BY <1>2, <1>6, <1>7, <1>8, <1>9, <1>10, UnifyInv

(* The application of a routine: of what is not known to be one it is made *)
(* one first.                                                              *)
LEMMA ApplyKeeps ==
    ASSUME TypesInv, NEW f \in Node, NEW args \in Node, Apply(f, args)
    PROVE  TypesInv' /\ KnownStay(types, types') /\ Keeps(types, types')
<1>1. PICK T, c : T = types /\ c = meant
  OBVIOUS
<1>2. /\ Graph(T) /\ (~failed => Exact(T, {}, c)) /\ f \in DOMAIN T /\ args \in DOMAIN T
      /\ ClassOf(T, f) \in {"var", "closure"} /\ Len(T) <= TypeBound
      /\ ClassOf(T, f) = "var" => Len(T) + 3 <= TypeBound
      /\ joining = FALSE /\ joining' = FALSE /\ names' = names
  BY <1>1, QuietIs DEF Apply, Ready, TypesInv, Good, Node, Room
<1>3. PICK V : V = EnsuredRoutine(T, f)
  OBVIOUS
<1>4. PICK e : e = IF V = T THEN NothingAsked(V) ELSE Asked(V, c, f, Len(V))
  OBVIOUS
<1>5. /\ Graph(V) /\ KnownStay(T, V) /\ Keeps(T, V)
      /\ Len(V) = Len(T) + (IF ClassOf(T, f) = "var" THEN 3 ELSE 0)
      /\ PartsOf(V, f)[1] \in DOMAIN V
      /\ ~failed => Exact(V, {}, e)
      /\ failed => e = <<>>
  BY <1>1, <1>2, <1>3, <1>4, EnsuredIs
<1>6. PICK d \in DOMAIN V : d = PartsOf(V, f)[1]
  BY <1>5
<1>7. PICK a : a = Asked(V, e, d, args)
  OBVIOUS
<1>8. args \in DOMAIN V
  BY <1>2, <1>5 DEF Keeps
<1>9. /\ ~failed => Exact(V, {<<d, args>>}, a)
      /\ failed => a = <<>>
  BY <1>5, <1>7, <1>8, AskedIs
<1>10. ~failed => Exact(V, {<<d, args>>} \union Pairs(<<>>), a)
  <2>1. Pairs(<<>>) = {} /\ {<<d, args>>} \union {} = {<<d, args>>}
    BY PairsOf
  <2>. QED BY <1>9, <2>1
<1>11. Unify(V, d, args, <<>>, a)
  BY <1>1, <1>3, <1>4, <1>6, <1>7 DEF Apply
<1>12. <<>> \in Seq((DOMAIN V) \X (DOMAIN V))
  OBVIOUS
<1>13. /\ KnownStay(types, V) /\ Keeps(types, V)
  BY <1>1, <1>5
<1>14. Len(V) <= TypeBound
  <2>1. Len(T) \in Nat /\ TypeBound \in Nat
    BY <1>2, ShapedFacts, BoundsAssumption DEF Graph
  <2>. QED BY <1>2, <1>5, <2>1
<1>. QED BY <1>2, <1>5, <1>8, <1>9, <1>10, <1>11, <1>12, <1>13, <1>14, UnifyInv

(* type_new_set of two types of which one is not known unifies them.       *)
LEMMA NotKnownKeeps ==
    ASSUME TypesInv, calls = <<>>, NEW l \in Node, NEW r \in Node, NotKnown(l, r),
           names' = names, calls' = calls, failed' = failed, joining' = FALSE
    PROVE  TypesInv' /\ KnownStay(types, types') /\ Keeps(types, types')
<1>1. PICK T, c : T = types /\ c = meant
  OBVIOUS
<1>2. /\ Graph(T) /\ (~failed => Exact(T, {}, c)) /\ l \in DOMAIN T /\ r \in DOMAIN T
      /\ failed \in BOOLEAN
  BY <1>1, QuietIs DEF Node
<1>3. PICK V : V = Union(T, l, r)
  OBVIOUS
<1>4. ~Same(T, l, r)
  <2>1. SUFFICES ASSUME Same(T, l, r) PROVE FALSE
    OBVIOUS
  <2>2. PICK s : s = Representative(T, l)
    OBVIOUS
  <2>3. s \in DOMAIN T /\ Representative(T, r) = s
    BY <1>2, <2>1, <2>2, ClassIs DEF Same
  <2>4. Equal(T, s, s)
    BY <1>2, <2>3, EqualItself
  <2>. QED BY <1>1, <2>2, <2>3, <2>4 DEF NotKnown, SameType
<1>5. ~IsKnown(T, l) \/ ~IsKnown(T, r)
  BY <1>1 DEF NotKnown
<1>6. ~Clash(T, l, r) /\ Merges(T, l, r) /\ Unified(T, l, r) = V /\ Subcalls(T, l, r) = <<>>
  BY <1>3, <1>4, <1>5 DEF Clash, Merges, Unified, Subcalls, IsKnown, Same
<1>7. Graph(V) /\ SameShape(T, V) /\ KnownStay(T, V) /\ Keeps(T, V)
  <2>1. Graph(V) /\ SameShape(T, V) /\ KnownStay(T, V) /\ Joins(T, V, l, r)
    BY <1>2, <1>6, UnifiedIs
  <2>. QED BY <2>1 DEF Keeps, Joins, SameShape
<1>8. DOMAIN V = DOMAIN T /\ (\A x \in DOMAIN T : Label(V, x) = Label(T, x)) /\ Len(V) = Len(T)
  <2>1. T \in Seq(Type) /\ V \in Seq(Type)
    BY <1>2, <1>7 DEF Graph, Shaped
  <2>. QED BY <1>7, <2>1 DEF SameShape
<1>9. PICK e : e = Asked(V, c, l, r)
  OBVIOUS
<1>10. MeantOK(V, {}, e, failed)
  <2>1. CASE failed
    <3>1. e = <<>>
      BY <1>9, <2>1 DEF Asked
    <3>. QED BY <2>1, <3>1 DEF MeantOK
  <2>2. CASE ~failed
    <3>1. c \in Partitions(DOMAIN T)
      BY <1>2, <2>2 DEF Exact, Satisfies
    <3>2. Grown(V, c) = c
      BY <1>8, <3>1, GrownIs
    <3>3. PICK h : h = Merged(c, l, r)
      OBVIOUS
    <3>4. e = Closure(V, h)
      BY <1>9, <2>2, <3>2, <3>3 DEF Asked
    <3>5. h \in Partitions(DOMAIN T)
      BY <1>2, <3>1, <3>3, MergedIs
    <3>6. Least(V, h, e)
      BY <1>7, <1>8, <3>4, <3>5, ClosureIsLeast DEF Graph
    <3>7. Least(T, h, e)
      BY <1>7, <3>5, <3>6, LeastSame
    <3>8. Exact(T, {<<l, r>>}, e)
      BY <1>2, <2>2, <3>3, <3>7, AskExact
    <3>9. Exact(V, Pairs(Subcalls(T, l, r)) \union {}, e)
      <4>1. {<<l, r>>} = {<<l, r>>} \union {}
        OBVIOUS
      <4>2. Exact(T, {<<l, r>>} \union {}, e)
        BY <3>8, <4>1
      <4>. QED BY <1>2, <1>6, <4>2, UnifyExact
    <3>10. Pairs(Subcalls(T, l, r)) \union {} = {}
      BY <1>6, PairsOf
    <3>11. Exact(V, {}, e)
      BY <3>9, <3>10
    <3>. QED BY <2>2, <3>11 DEF MeantOK
  <2>. QED BY <2>1, <2>2
<1>11. types' = V /\ meant' = e
  BY <1>1, <1>3, <1>9 DEF NotKnown
<1>12. names \subseteq {t \in DOMAIN V : V[t].class = "var"} /\ Len(V) <= TypeBound
  <2>1. names \subseteq {t \in DOMAIN T : T[t].class = "var"} /\ Len(T) <= TypeBound
    BY <1>1 DEF TypesInv, Good
  <2>. QED BY <1>8, <2>1 DEF Label
<1>13. Good(V, names, <<>>, FALSE, e, failed)
  <2>1. Pairs(<<>>) = {} /\ <<>> \in Seq((DOMAIN V) \X (DOMAIN V))
    BY PairsOf
  <2>. QED BY <1>2, <1>7, <1>10, <1>12, <2>1 DEF Good
<1>14. TypesInv'
  BY <1>11, <1>13 DEF TypesInv
<1>. QED BY <1>1, <1>7, <1>11, <1>14

(* type_new_set of two types that are known makes a set of them.           *)
LEMMA TwoTypesKeep ==
    ASSUME TypesInv, calls = <<>>, joining, NEW l \in Node, NEW r \in Node, TwoTypes(l, r),
           names' = names, calls' = calls, failed' = failed, joining' = FALSE
    PROVE  TypesInv' /\ KnownStay(types, types')
<1>1. PICK T, u : T = types /\ u = NewType("set", <<l, r>>)
  OBVIOUS
<1>2. Fresh(T, u)
  <2>1. Shaped(T) /\ l \in DOMAIN T /\ r \in DOMAIN T
    BY <1>1 DEF TypesInv, Good, Graph, Node
  <2>2. "set" \in Compound
    BY DEF Compound
  <2>. QED BY <1>1, <2>1, <2>2, FreshTypes
<1>3. Room(1)
  BY DEF TypesInv, Good, Room
<1>4. types' = Append(types, u) /\ meant' = NothingAsked(types')
  BY <1>1 DEF TwoTypes
<1>. QED BY <1>1, <1>2, <1>3, <1>4, AppendKeeps

(* A step keeps what there is, and makes a set only of two known types.    *)
Onward ==
    \/ Keeps(types, types')
    \/ \E l, r \in Node : calls = <<>> /\ TwoTypes(l, r) /\ failed' = failed

(* The end of a conditional.                                               *)
LEMMA JoinKeeps ==
    ASSUME TypesInv, NEW l \in Node, NEW r \in Node, Join(l, r)
    PROVE  TypesInv' /\ KnownStay(types, types') /\ Onward
<1>1. calls = <<>> /\ joining /\ joining' = FALSE /\ names' = names /\ calls' = calls /\ failed' = failed
  BY DEF Join
<1>2. CASE OneType(l, r)
  <2>1. types' = types /\ meant' = meant
    BY <1>2 DEF OneType
  <2>2. Good(types, names, calls, FALSE, meant, failed)
    BY DEF TypesInv, Good
  <2>3. TypesInv'
    BY <1>1, <2>1, <2>2 DEF TypesInv
  <2>. QED BY <2>1, <2>3 DEF KnownStay, Keeps, Onward
<1>3. CASE NotKnown(l, r)
  <2>1. TypesInv' /\ KnownStay(types, types') /\ Keeps(types, types')
    BY <1>1, <1>3, NotKnownKeeps
  <2>. QED BY <2>1 DEF Onward
<1>4. CASE TwoTypes(l, r)
  <2>1. TypesInv' /\ KnownStay(types, types')
    BY <1>1, <1>4, TwoTypesKeep
  <2>. QED BY <1>1, <1>4, <2>1 DEF Onward
<1>. QED BY <1>2, <1>3, <1>4 DEF Join

(* Every step keeps the invariant, and what is known.                      *)
LEMMA StepKeeps == TypesInv /\ [Next]_vars => TypesInv' /\ KnownStay(types, types') /\ Onward
<1>. SUFFICES ASSUME TypesInv, [Next]_vars PROVE TypesInv' /\ KnownStay(types, types') /\ Onward
  OBVIOUS
<1>1. CASE Declare
  BY <1>1, DeclareKeeps DEF Onward
<1>2. ASSUME NEW l \in Node, NEW r \in Node, ArgList(l, r) PROVE TypesInv' /\ KnownStay(types, types') /\ Onward
  <2>1. Ready /\ Make(NewType("arg", <<l, r>>)) /\ names' = names
    BY <1>2 DEF ArgList
  <2>. QED BY <2>1, PairKeeps DEF Onward
<1>3. ASSUME NEW d \in Node, NEW b \in Node, Routine(d, b) PROVE TypesInv' /\ KnownStay(types, types') /\ Onward
  <2>1. Ready /\ Make(NewType("closure", <<d, b>>)) /\ names' = names
    BY <1>3 DEF Routine
  <2>. QED BY <2>1, PairKeeps DEF Onward
<1>4. ASSUME NEW f \in Node, NEW a \in Node, Apply(f, a) PROVE TypesInv' /\ KnownStay(types, types') /\ Onward
  BY <1>4, ApplyKeeps DEF Onward
<1>5. ASSUME NEW l \in Node, NEW r \in Node, Assignment(l, r) PROVE TypesInv' /\ KnownStay(types, types') /\ Onward
  <2>1. calls = <<>> /\ Ask(l, r) /\ joining' = FALSE
    BY <1>5 DEF Assignment, Ready
  <2>. QED BY <2>1, AskKeeps DEF Onward
<1>6. ASSUME NEW t \in Node, WhileLoop(t) PROVE TypesInv' /\ KnownStay(types, types') /\ Onward
  <2>1. calls = <<>> /\ Ask(t, Boolean) /\ joining' = FALSE
    BY <1>6 DEF WhileLoop, Ready
  <2>. QED BY <2>1, BooleanIsNode, AskKeeps DEF Onward
<1>7. ASSUME NEW t \in Node, Conditional(t) PROVE TypesInv' /\ KnownStay(types, types') /\ Onward
  <2>1. calls = <<>> /\ Ask(t, Boolean) /\ joining' = TRUE /\ Room(1)
    BY <1>7 DEF Conditional, Ready
  <2>. QED BY <2>1, BooleanIsNode, AskKeeps DEF Onward
<1>8. CASE UnifyStep
  BY <1>8, UnifyStepKeeps DEF Onward
<1>9. ASSUME NEW y \in Node, NEW n \in Node, Join(y, n) PROVE TypesInv' /\ KnownStay(types, types') /\ Onward
  BY <1>9, JoinKeeps
<1>10. CASE UNCHANGED vars
  BY <1>10 DEF vars, TypesInv, KnownStay, Keeps, Onward
<1>. QED BY <1>1, <1>2, <1>3, <1>4, <1>5, <1>6, <1>7, <1>8, <1>9, <1>10 DEF Next

(* The invariant has the types of the variables in it.                     *)
LEMMA InvImpliesTypeOK == TypesInv => TypeOK
<1>. SUFFICES ASSUME TypesInv PROVE TypeOK
  OBVIOUS
<1>1. PICK T, c : T = types /\ c = meant
  OBVIOUS
<1>2. /\ Graph(T) /\ Len(T) <= TypeBound
      /\ names \subseteq {t \in DOMAIN T : T[t].class = "var"}
      /\ calls \in Seq((DOMAIN T) \X (DOMAIN T))
      /\ joining \in BOOLEAN /\ (joining => Room(1))
      /\ failed \in BOOLEAN
      /\ MeantOK(T, Pairs(calls), c, failed)
  BY <1>1 DEF TypesInv, Good, Room
<1>3. \A t \in DOMAIN T : T[t].unifier \in DOMAIN T \union {Null}
  BY <1>2 DEF Graph, Forest, Linked, Up
<1>4. ASSUME NEW t \in DOMAIN T
      PROVE  /\ T[t].class \in Compound <=> Len(T[t].parts) = 2
             /\ \A i \in DOMAIN T[t].parts : T[t].parts[i] \in 1 .. t - 1
  <2>1. PICK p \in Seq(Nat) : p = T[t].parts
    <3>1. T \in Seq(Type)
      BY <1>2 DEF Graph, Shaped
    <3>2. T[t] \in Type
      BY <3>1
    <3>. QED BY <3>2 DEF Type
  <2>2. /\ T[t].class \in Compound => DOMAIN p = {1, 2}
        /\ T[t].class \notin Compound => DOMAIN p = {}
        /\ \A i \in DOMAIN p : p[i] \in 1 .. t - 1
    BY <1>2, <2>1 DEF Graph, Shaped, Label, Parts
  <2>3. DOMAIN p = 1 .. Len(p) /\ Len(p) \in Nat
    OBVIOUS
  <2>4. DOMAIN p = {1, 2} => Len(p) = 2
    <3>1. \A n \in Nat : 1 .. n = {1, 2} => n = 2
      <4>1. ASSUME NEW n \in Nat, 1 .. n = {1, 2} PROVE n = 2
        <5>1. 2 \in 1 .. n /\ 3 \notin 1 .. n
          BY <4>1
        <5>. QED BY <5>1
      <4>. QED BY <4>1
    <3>. QED BY <2>3, <3>1
  <2>5. DOMAIN p = {} => Len(p) # 2
    BY <2>3
  <2>. QED BY <2>1, <2>2, <2>4, <2>5
<1>5. /\ DOMAIN c \subseteq DOMAIN T
      /\ \A t \in DOMAIN c : t \in c[t] /\ c[t] \subseteq DOMAIN c
  <2>1. c = <<>> \/ c \in Partitions(DOMAIN T)
    BY <1>2 DEF MeantOK, Exact, Satisfies
  <2>2. CASE c = <<>>
    <3>1. DOMAIN c = {}
      BY <2>2
    <3>. QED BY <3>1
  <2>3. CASE c \in Partitions(DOMAIN T)
    BY <2>3 DEF Partitions
  <2>. QED BY <2>1, <2>2, <2>3
<1>6. \A i \in DOMAIN calls : calls[i] \in (DOMAIN T) \X (DOMAIN T)
  BY <1>2
<1>. QED BY <1>1, <1>2, <1>3, <1>4, <1>5, <1>6 DEF TypeOK, Node

(* With no calls left to be made, what is meant is what is.                *)
LEMMA InvImpliesMeaning == TypesInv => TypesAreWhatTheyMean
<1>1. ASSUME TypesInv, calls = <<>>, ~failed
      PROVE  meant = Partition(types) /\ Consistent(types, meant)
  <2>1. PICK T, c : T = types /\ c = meant
    OBVIOUS
  <2>2. Graph(T) /\ Exact(T, {}, c)
    BY <1>1, <2>1, QuietIs
  <2>3. c = Partition(T) /\ Consistent(T, c)
    BY <2>2, StableIs
  <2>. QED BY <2>1, <2>3
<1>. QED BY <1>1 DEF TypesAreWhatTheyMean

(* An error has been found in what was meant.                              *)
LEMMA InvImpliesErrors == TypesInv => ErrorsAreReal
BY DEF TypesInv, Good, MeantOK, ErrorsAreReal

(***************************************************************************)
(* Theorems                                                                *)
(***************************************************************************)

(* The invariant holds in every state: the graph of types is a forest of   *)
(* which each class has one representative that is known if any of its     *)
(* types is; and what has been unified, with the calls still to be made,   *)
(* is exactly what the parser has asked for (type_unify, type_unify_crit). *)
THEOREM TypesInvariant == Spec => []TypesInv
<1>1. TypesInv /\ [Next]_vars => TypesInv'
  BY StepKeeps
<1>. QED BY InitInv, <1>1, PTL DEF Spec

(* Types are made of earlier ones, and the parser asks about types that    *)
(* exist (type_new and its callers).                                       *)
THEOREM TypesAreTyped == Spec => []TypeOK
BY TypesInvariant, InvImpliesTypeOK, PTL

(* Whenever type_unify has returned, and no error has been reported, two   *)
(* types have the same representative if and only if that follows from     *)
(* what the parser asked to be equal: for every program, however many      *)
(* types it has and in whatever order they are unified.                    *)
THEOREM UnificationIsExact == Spec => []TypesAreWhatTheyMean
BY TypesInvariant, InvImpliesMeaning, PTL

(* type_unify_crit reports an error only for what nothing could make       *)
(* equal.                                                                  *)
THEOREM ReportsAreJustified == Spec => []ErrorsAreReal
BY TypesInvariant, InvImpliesErrors, PTL

(* No step of the parser loses or changes the class of a type that is      *)
(* known, a unification that fails halfway included.                       *)
THEOREM KnownTypesAreKept == Spec => KnownTypesStay
<1>1. TypesInv /\ [Next]_vars =>
         [\A t \in Node : IsKnown(types, t) => ClassOf(types', t) = ClassOf(types, t)]_vars
  BY StepKeeps DEF KnownStay, Node
<1>. QED BY TypesInvariant, <1>1, PTL DEF Spec, KnownTypesStay

(***************************************************************************)
(* What grows from a base, as long as it is not all there is, is all there *)
(* is after as many steps as there are elements.                           *)
(***************************************************************************)
Grows(G, D, base, n) ==
    /\ base \subseteq D /\ G[0] = base
    /\ \A i \in 0 .. n - 1 : G[i] \subseteq D =>
          /\ G[i] \subseteq G[i + 1] /\ G[i + 1] \subseteq D
          /\ base \subseteq G[i] /\ G[i + 1] = G[i] => G[i] = D

(* Cardinalities go up by one at least with each step.                     *)
LEMMA GrowsToAll ==
    ASSUME NEW D, IsFiniteSet(D), NEW n \in Nat, Cardinality(D) = n,
           NEW G, NEW base, Grows(G, D, base, n)
    PROVE  G[n] = D
<1>. DEFINE Upto(i) == /\ G[i] \subseteq D /\ base \subseteq G[i]
                       /\ G[i] = D \/ i <= Cardinality(G[i])
            S == {i \in Nat : i <= n => Upto(i)}
<1>1. 0 \in S
  <2>1. G[0] = base /\ base \subseteq D
    BY DEF Grows
  <2>2. IsFiniteSet(base) /\ Cardinality(base) \in Nat
    BY <2>1, FS_Subset, FS_CardinalityType
  <2>3. Upto(0)
    BY <2>1, <2>2
  <2>. HIDE DEF Upto
  <2>. QED BY <2>3
<1>2. ASSUME NEW i \in Nat, i \in S PROVE i + 1 \in S
  <2>1. SUFFICES ASSUME i + 1 <= n PROVE Upto(i + 1)
    <3>. HIDE DEF Upto
    <3>. QED OBVIOUS
  <2>2. i \in 0 .. n - 1 /\ i <= n
    BY <2>1
  <2>3. Upto(i)
    <3>. HIDE DEF Upto
    <3>. QED BY <1>2, <2>2
  <2>4. PICK A, B : A = G[i] /\ B = G[i + 1]
    OBVIOUS
  <2>5. /\ A \subseteq B /\ B \subseteq D /\ base \subseteq A /\ (B = A => A = D)
    BY <2>2, <2>3, <2>4 DEF Grows
  <2>6. CASE A = D
    <3>1. B = D
      BY <2>5, <2>6
    <3>. QED BY <2>4, <2>5, <3>1
  <2>7. CASE A # D
    <3>1. IsFiniteSet(A) /\ IsFiniteSet(B) /\ Cardinality(A) \in Nat /\ Cardinality(B) \in Nat
      BY <2>5, FS_Subset, FS_CardinalityType
    <3>2. Cardinality(A) < Cardinality(B)
      <4>1. A # B
        BY <2>5, <2>7
      <4>. QED BY <2>5, <3>1, <4>1, FS_Subset
    <3>3. i <= Cardinality(A)
      BY <2>3, <2>4, <2>7
    <3>4. i + 1 <= Cardinality(B)
      BY <3>1, <3>2, <3>3
    <3>. QED BY <2>4, <2>5, <3>4
  <2>. QED BY <2>6, <2>7
<1>3. Upto(n)
  <2>1. Nat \subseteq S
    <3>. HIDE DEF S
    <3>. QED BY <1>1, <1>2, SetInduction
  <2>. HIDE DEF Upto
  <2>. QED BY <2>1
<1>4. CASE G[n] # D
  <2>1. G[n] \subseteq D /\ n <= Cardinality(G[n])
    BY <1>3, <1>4
  <2>2. Cardinality(G[n]) < n /\ Cardinality(G[n]) \in Nat
    BY <1>4, <2>1, FS_Subset, FS_CardinalityType
  <2>. QED BY <2>1, <2>2
<1>. QED BY <1>4

(* A function on 0 .. n whose values are computed one from another.        *)
Iterates(G, base, next, n) ==
    \A i \in 0 .. n : G[i] = IF i = 0 THEN base ELSE next[G[i - 1]]

(* Such functions exist.                                                   *)
LEMMA Iterate ==
    ASSUME NEW X, NEW base \in X, NEW next \in [X -> X], NEW n \in Nat
    PROVE  \E G \in [0 .. n -> X] : Iterates(G, base, next, n)
<1>. DEFINE S == 0 .. n
            size == [i \in S |-> i]
            b == [i \in S |-> base]
            less == [i \in S |-> IF i = 0 THEN 0 ELSE i - 1]
            comb == [i \in S |-> next]
<1>1. /\ size \in [S -> Nat] /\ b \in [S -> X] /\ less \in [S -> S] /\ comb \in [S -> [X -> X]]
      /\ \A i \in S : size[i] # 0 => size[less[i]] < size[i]
  OBVIOUS
<1>2. PICK G \in [S -> X] : \A i \in S : Recurs(G, i, size, b, less, comb)
  <2>. HIDE DEF size, b, less, comb, S
  <2>. QED BY <1>1, RecursiveFunction
<1>3. \A i \in S : G[i] = IF i = 0 THEN base ELSE next[G[i - 1]]
  BY <1>2 DEF Recurs
<1>. QED BY <1>3 DEF Iterates

(* The loop of type_representative comes to an end.                        *)
LEMMA EndsIs ==
    ASSUME NEW T, Graph(T)
    PROVE  Ends(T, Len(T)) = DOMAIN T
<1>. DEFINE D == DOMAIN T
            n == Len(T)
            roots == {t \in D : T[t].unifier = Null}
            P(f) == f = [i \in 0 .. n |->
                      IF i = 0 THEN roots
                      ELSE LET before == f[i - 1] IN before \union {t \in D : T[t].unifier \in before}]
            ends == CHOOSE f : P(f)
            next == [A \in SUBSET D |-> A \union {t \in D : T[t].unifier \in A}]
<1>1. D = 1 .. n /\ n \in Nat /\ IsFiniteSet(D) /\ Cardinality(D) = n
  <2>1. D = 1 .. n /\ n \in Nat
    BY ShapedFacts DEF Graph
  <2>. HIDE DEF n
  <2>. QED BY <2>1, FS_Interval
<1>2. PICK G \in [0 .. n -> SUBSET D] : Iterates(G, roots, next, n)
  <2>1. roots \in SUBSET D /\ next \in [SUBSET D -> SUBSET D]
    OBVIOUS
  <2>2. PICK X : X = SUBSET D
    OBVIOUS
  <2>. HIDE DEF roots, next, n, D
  <2>3. roots \in X /\ next \in [X -> X] /\ n \in Nat
    BY <1>1, <2>1, <2>2
  <2>4. \E G \in [0 .. n -> X] : Iterates(G, roots, next, n)
    BY <2>3, Iterate
  <2>. QED BY <2>2, <2>4
<1>3. P(G)
  <2>1. \A i \in 0 .. n : i # 0 => i - 1 \in 0 .. n
    BY <1>1
  <2>2. \A i \in 0 .. n : G[i] = IF i = 0 THEN roots
                                 ELSE G[i - 1] \union {t \in D : T[t].unifier \in G[i - 1]}
    <3>. HIDE DEF n, D, roots
    <3>. QED BY <1>2, <2>1 DEF Iterates
  <2>. QED BY <1>2, <2>2
<1>4. P(ends)
  <2>. HIDE DEF P
  <2>. QED BY <1>3
<1>5. Ends(T, n) = ends[n]
  BY DEF Ends
<1>. HIDE DEF ends
<1>6. Grows(ends, D, roots, n)
  <2>1. ends[0] = roots
    <3>1. 0 \in 0 .. n
      BY <1>1
    <3>2. \A i \in 0 .. n : i = 0 => ends[i] = roots
      <4>. HIDE DEF n, D, roots
      <4>. QED BY <1>4
    <3>. QED BY <3>1, <3>2
  <2>2. ASSUME NEW i \in 0 .. n - 1
        PROVE  ends[i + 1] = ends[i] \union {t \in D : T[t].unifier \in ends[i]}
    <3>1. i + 1 \in 0 .. n /\ i + 1 # 0 /\ i + 1 - 1 = i
      BY <1>1
    <3>2. \A j \in 0 .. n : j # 0 =>
             ends[j] = ends[j - 1] \union {t \in D : T[t].unifier \in ends[j - 1]}
      <4>. HIDE DEF n, D, roots
      <4>. QED BY <1>4
    <3>3. PICK j \in 0 .. n : j = i + 1 /\ j # 0 /\ j - 1 = i
      BY <3>1
    <3>. HIDE DEF n, D, roots
    <3>. QED BY <3>2, <3>3
  <2>3. ASSUME NEW i \in 0 .. n - 1, roots \subseteq ends[i], ends[i + 1] = ends[i]
        PROVE  D \subseteq ends[i]
    <3>1. PICK A : A = ends[i]
      OBVIOUS
    <3>2. \A t \in D : (Up(T, t) = Null \/ Up(T, t) \in A) => t \in A
      BY <2>2, <2>3, <3>1 DEF Up
    <3>3. DOMAIN T \subseteq A
      BY <3>2, ForestInduction DEF Graph
    <3>. QED BY <3>1, <3>3
  <2>4. roots \subseteq D
    OBVIOUS
  <2>. HIDE DEF roots, D, n
  <2>. QED BY <2>1, <2>2, <2>3, <2>4 DEF Grows
<1>7. ends[n] = D
  <2>. HIDE DEF roots, D, n
  <2>. QED BY <1>1, <1>6, GrowsToAll
<1>. QED BY <1>5, <1>7

(* The loop of type_representative comes to an end, for every type in      *)
(* every state, also between the calls of a unification that is going to   *)
(* fail.                                                                   *)
THEOREM LinksComeToAnEnd == Spec => []UnifiersEnd
<1>1. TypesInv => UnifiersEnd
  BY EndsIs DEF TypesInv, Good, UnifiersEnd, Node
<1>. QED BY TypesInvariant, <1>1, PTL

(***************************************************************************)
(* Sets are not their own members.  H is how deep a type is made of sets,  *)
(* and w the type, with a class of its own, whose depth it has; a variable *)
(* of which nothing is known yet has none.                                 *)
(***************************************************************************)
Settled(T, w, t) == Label(T, w[t]) # "var"

Heights(T, H, w) ==
    /\ H \in [DOMAIN T -> Nat] /\ w \in [DOMAIN T -> DOMAIN T]
    /\ \A t \in DOMAIN T :
          /\ Same(T, w[t], t) /\ H[t] = H[w[t]] /\ w[w[t]] = w[t]
          /\ Label(T, t) # "var" => w[t] = t
          /\ Label(T, t) \notin {"var", "set"} => H[t] = 0
          /\ Label(T, t) = "set" =>
                /\ \A i \in {1, 2} : Settled(T, w, Parts(T, t)[i])
                /\ H[t] = 1 + H[Parts(T, t)[1]] + H[Parts(T, t)[2]]

Founded(T) == \E H, w : Heights(T, H, w)

(* A set has two members.                                                  *)
LEMMA SetParts ==
    ASSUME NEW T, Graph(T), NEW t \in DOMAIN T, Label(T, t) = "set"
    PROVE  DOMAIN Parts(T, t) = {1, 2} /\ \A i \in {1, 2} : Parts(T, t)[i] \in DOMAIN T
<1>1. DOMAIN Parts(T, t) = {1, 2}
  BY DEF Graph, Shaped, Compound
<1>. QED BY <1>1, ShapedFacts DEF Graph

(* It is so as long as no set is made.                                     *)
LEMMA FoundedKept ==
    ASSUME NEW T, Graph(T), Founded(T), NEW V, Graph(V), Keeps(T, V)
    PROVE  Founded(V)
<1>1. PICK H, w : Heights(T, H, w)
  BY DEF Founded
<1>2. /\ H \in [DOMAIN T -> Nat] /\ w \in [DOMAIN T -> DOMAIN T]
      /\ DOMAIN T \subseteq DOMAIN V
  BY <1>1 DEF Heights, Keeps
<1>3. PICK I, v : /\ I = [t \in DOMAIN V |-> IF t \in DOMAIN T THEN H[t] ELSE 0]
                  /\ v = [t \in DOMAIN V |-> IF t \in DOMAIN T THEN w[t] ELSE t]
  OBVIOUS
<1>4. /\ I \in [DOMAIN V -> Nat] /\ v \in [DOMAIN V -> DOMAIN V]
      /\ \A t \in DOMAIN T : t \in DOMAIN V /\ I[t] = H[t] /\ v[t] = w[t] /\ w[t] \in DOMAIN T
      /\ \A t \in DOMAIN V : t \notin DOMAIN T => I[t] = 0 /\ v[t] = t
  BY <1>2, <1>3
<1>5. ASSUME NEW t \in DOMAIN V, t \notin DOMAIN T
      PROVE  /\ Same(V, v[t], t) /\ I[t] = I[v[t]] /\ v[v[t]] = v[t]
             /\ Label(V, t) # "var" => v[t] = t
             /\ Label(V, t) \notin {"var", "set"} => I[t] = 0
             /\ Label(V, t) # "set"
  BY <1>4, <1>5 DEF Same, Keeps
<1>6. ASSUME NEW t \in DOMAIN T
      PROVE  /\ Same(V, v[t], t) /\ I[t] = I[v[t]] /\ v[v[t]] = v[t]
             /\ Label(V, t) # "var" => v[t] = t
             /\ Label(V, t) \notin {"var", "set"} => I[t] = 0
             /\ Label(V, t) = "set" =>
                /\ \A i \in {1, 2} : Settled(V, v, Parts(V, t)[i])
                /\ I[t] = 1 + I[Parts(V, t)[1]] + I[Parts(V, t)[2]]
  <2>1. /\ Same(T, w[t], t) /\ H[t] = H[w[t]] /\ w[w[t]] = w[t] /\ w[t] \in DOMAIN T
        /\ Label(T, t) # "var" => w[t] = t
        /\ Label(T, t) \notin {"var", "set"} => H[t] = 0
    BY <1>1, <1>2 DEF Heights
  <2>2. Label(V, t) = Label(T, t) /\ Parts(V, t) = Parts(T, t) /\ Same(V, w[t], t)
    BY <2>1 DEF Keeps
  <2>3. ASSUME Label(T, t) = "set"
        PROVE  /\ \A i \in {1, 2} : Settled(V, v, Parts(V, t)[i])
               /\ I[t] = 1 + I[Parts(V, t)[1]] + I[Parts(V, t)[2]]
    <3>1. PICK p, q : p = Parts(T, t)[1] /\ q = Parts(T, t)[2]
      OBVIOUS
    <3>2. p \in DOMAIN T /\ q \in DOMAIN T
      BY <2>3, <3>1, SetParts
    <3>3. Settled(T, w, p) /\ Settled(T, w, q) /\ H[t] = 1 + H[p] + H[q]
      BY <1>1, <2>3, <3>1 DEF Heights
    <3>4. Settled(V, v, p) /\ Settled(V, v, q)
      BY <1>4, <3>2, <3>3 DEF Settled, Keeps
    <3>5. I[t] = 1 + I[p] + I[q]
      BY <1>4, <3>2, <3>3
    <3>. QED BY <2>2, <3>1, <3>4, <3>5
  <2>4. Same(V, v[t], t) /\ I[t] = I[v[t]] /\ v[v[t]] = v[t]
    BY <1>4, <2>1, <2>2
  <2>. QED BY <1>4, <2>1, <2>2, <2>3, <2>4
<1>7. Heights(V, I, v)
  BY <1>4, <1>5, <1>6 DEF Heights
<1>. QED BY <1>7 DEF Founded

(* When nothing is left to be unified, types that are the same have the    *)
(* same depth.                                                             *)
LEMMA SameHeight ==
    ASSUME NEW T, Graph(T), NEW c, Exact(T, {}, c), NEW H, NEW w, Heights(T, H, w),
           NEW a \in DOMAIN T, NEW b \in DOMAIN T, Settled(T, w, a), Settled(T, w, b), Same(T, a, b)
    PROVE  H[a] = H[b]
<1>. DEFINE D == DOMAIN T
            Differ(x, y) == Same(T, x, y) /\ H[x] # H[y]
            Bad == {n \in Nat : \E x, y \in D :
                      Label(T, x) # "var" /\ Label(T, y) # "var" /\ Differ(x, y) /\ n = H[x]}
<1>1. /\ H \in [D -> Nat] /\ w \in [D -> D]
      /\ \A t \in D : /\ Same(T, w[t], t) /\ H[t] = H[w[t]]
                      /\ Label(T, t) # "var" => w[t] = t
                      /\ Label(T, t) \notin {"var", "set"} => H[t] = 0
  BY DEF Heights
<1>2. /\ c = Partition(T) /\ Consistent(T, c) /\ Kept(T, c) /\ c \in Partitions(D)
  BY StableIs DEF Exact, Satisfies
<1>3. \A x, y \in D : Same(T, x, y) <=> y \in c[x]
  BY <1>2, PartitionIs DEF Graph
<1>4. \A x, y \in D : Same(T, x, y) /\ Label(T, x) # "var" /\ Label(T, y) # "var" =>
         Label(T, x) = Label(T, y)
  <2>1. DOMAIN c = D
    BY <1>2 DEF Partitions
  <2>. QED BY <1>2, <1>3, <2>1 DEF Consistent, Label
<1>5. Bad = {}
  <2>1. SUFFICES ASSUME Bad # {} PROVE FALSE
    OBVIOUS
  <2>2. PICK n \in Bad : \A m \in Bad : n <= m
    <3>1. Bad \subseteq Nat
      OBVIOUS
    <3>. HIDE DEF Bad
    <3>. QED BY <2>1, <3>1, LeastNumber
  <2>3. PICK x \in D, y \in D : /\ Label(T, x) # "var" /\ Label(T, y) # "var"
                                /\ Same(T, x, y) /\ H[x] # H[y] /\ n = H[x]
    BY <2>2
  <2>4. Label(T, x) = "set" /\ Label(T, y) = "set"
    <3>1. Label(T, x) = Label(T, y)
      BY <1>4, <2>3
    <3>. QED BY <1>1, <2>3, <3>1
  <2>5. PICK p1, p2, q1, q2 : /\ p1 = Parts(T, x)[1] /\ p2 = Parts(T, x)[2]
                              /\ q1 = Parts(T, y)[1] /\ q2 = Parts(T, y)[2]
    OBVIOUS
  <2>6. p1 \in D /\ p2 \in D /\ q1 \in D /\ q2 \in D
    BY <2>4, <2>5, SetParts
  <2>7. /\ Settled(T, w, p1) /\ Settled(T, w, p2) /\ H[x] = 1 + H[p1] + H[p2]
        /\ Settled(T, w, q1) /\ Settled(T, w, q2) /\ H[y] = 1 + H[q1] + H[q2]
    BY <2>4, <2>5 DEF Heights
  <2>8. Same(T, p1, q1) /\ Same(T, p2, q2)
    <3>1. y \in c[x] /\ Label(T, x) = Label(T, y) /\ 1 \in DOMAIN Parts(T, x) /\ 2 \in DOMAIN Parts(T, x)
      BY <1>3, <2>3, <2>4, SetParts
    <3>2. c[p1] = c[q1] /\ c[p2] = c[q2]
      BY <1>2, <2>5, <3>1 DEF Kept
    <3>3. q1 \in c[p1] /\ q2 \in c[p2]
      BY <1>2, <2>6, <3>2, PartitionFacts
    <3>. QED BY <1>3, <2>6, <3>3
  <2>9. ASSUME NEW p \in D, NEW q \in D, Settled(T, w, p), Settled(T, w, q), Same(T, p, q), H[p] < n
        PROVE  H[p] = H[q]
    <3>1. PICK x1 \in D, y1 \in D : x1 = w[p] /\ y1 = w[q]
      BY <1>1
    <3>2. Label(T, x1) # "var" /\ Label(T, y1) # "var" /\ H[x1] = H[p] /\ H[y1] = H[q]
      BY <1>1, <2>9, <3>1 DEF Settled
    <3>3. Same(T, x1, y1)
      BY <1>1, <2>9, <3>1 DEF Same
    <3>4. H[x1] \notin Bad
      <4>1. H[x1] \in Nat /\ n \in Nat /\ H[x1] < n
        BY <1>1, <2>2, <2>9, <3>2
      <4>. HIDE DEF Bad
      <4>. QED BY <2>2, <4>1
    <3>5. H[x1] = H[y1]
      BY <1>1, <3>2, <3>3, <3>4
    <3>. QED BY <3>2, <3>5
  <2>10. /\ H[p1] \in Nat /\ H[p2] \in Nat /\ H[q1] \in Nat /\ H[q2] \in Nat /\ n = 1 + H[p1] + H[p2]
    BY <1>1, <2>3, <2>6, <2>7
  <2>11. H[p1] < n /\ H[p2] < n
    BY <2>10
  <2>12. H[p1] = H[q1] /\ H[p2] = H[q2]
    <3>. HIDE DEF Bad
    <3>. QED BY <2>6, <2>7, <2>8, <2>9, <2>11
  <2>. QED BY <2>3, <2>7, <2>10, <2>12
<1>6. PICK x \in D, y \in D : x = w[a] /\ y = w[b]
  BY <1>1
<1>7. /\ Label(T, x) # "var" /\ Label(T, y) # "var" /\ H[x] = H[a] /\ H[y] = H[b]
      /\ Same(T, x, y) /\ H[x] \in Nat
  BY <1>1, <1>6 DEF Settled, Same
<1>8. H[x] = H[y]
  BY <1>5, <1>7
<1>. QED BY <1>7, <1>8

(* A type that has come to be known since has the depth of its class.      *)
LEMMA KnownSettled ==
    ASSUME NEW T, Graph(T), Founded(T)
    PROVE  \E I, v : Heights(T, I, v) /\ \A t \in DOMAIN T : IsKnown(T, t) => Settled(T, v, t)
<1>. DEFINE D == DOMAIN T
<1>1. PICK H, w : Heights(T, H, w)
  BY DEF Founded
<1>2. /\ H \in [D -> Nat] /\ w \in [D -> D]
      /\ \A t \in D : /\ Same(T, w[t], t) /\ H[t] = H[w[t]] /\ w[w[t]] = w[t] /\ w[t] \in D
                      /\ Label(T, t) # "var" => w[t] = t
                      /\ Label(T, t) \notin {"var", "set"} => H[t] = 0
  BY <1>1 DEF Heights
<1>. DEFINE Late(t) == IsKnown(T, t) /\ ~Settled(T, w, t)
<1>3. PICK I, v : /\ I = [t \in D |-> IF Late(t) THEN H[Representative(T, t)] ELSE H[t]]
                  /\ v = [t \in D |-> IF Late(t) THEN Representative(T, t) ELSE w[t]]
  OBVIOUS
<1>4. \A t \in D : /\ Representative(T, t) \in D /\ Same(T, Representative(T, t), t)
                   /\ ClassOf(T, t) = Label(T, Representative(T, t))
  BY ClassIs DEF Same
<1>5. /\ I \in [D -> Nat] /\ v \in [D -> D]
      /\ \A t \in D : Late(t) => I[t] = H[Representative(T, t)] /\ v[t] = Representative(T, t)
      /\ \A t \in D : ~Late(t) => I[t] = H[t] /\ v[t] = w[t]
  <2>. HIDE DEF Late
  <2>. QED BY <1>2, <1>3, <1>4
<1>6. \A t \in D : Label(T, t) # "var" => ~Late(t)
  BY <1>2 DEF Settled
<1>7. \A t \in D : Late(t) => Label(T, Representative(T, t)) # "var"
  BY <1>4 DEF IsKnown
<1>8. \A t \in D : ~Late(t) => ~Late(w[t])
  <2>1. \A x, y \in D : Same(T, x, y) => ClassOf(T, x) = ClassOf(T, y)
    BY DEF Same, ClassOf
  <2>. QED BY <1>2, <2>1 DEF IsKnown, Settled
<1>9. \A t \in D : Settled(T, w, t) => Settled(T, v, t) /\ I[t] = H[t]
  BY <1>5 DEF Settled
<1>10. ASSUME NEW t \in D
       PROVE  /\ Same(T, v[t], t) /\ I[t] = I[v[t]] /\ v[v[t]] = v[t]
              /\ Label(T, t) # "var" => v[t] = t
              /\ Label(T, t) \notin {"var", "set"} => I[t] = 0
  <2>1. CASE Late(t)
    <3>1. PICK r \in D : r = Representative(T, t)
      BY <1>4
    <3>2. v[t] = r /\ I[t] = H[r] /\ Label(T, r) # "var" /\ Label(T, t) = "var"
      BY <1>5, <1>6, <1>7, <2>1, <3>1
    <3>3. v[r] = w[r] /\ I[r] = H[r] /\ w[r] = r
      BY <1>2, <1>5, <1>6, <3>2
    <3>. QED BY <1>4, <3>1, <3>2, <3>3
  <2>2. CASE ~Late(t)
    <3>1. ~Late(w[t]) /\ w[t] \in D
      BY <1>2, <1>8, <2>2
    <3>2. v[t] = w[t] /\ I[t] = H[t] /\ v[w[t]] = w[w[t]] /\ I[w[t]] = H[w[t]]
      BY <1>5, <2>2, <3>1
    <3>. HIDE DEF Late
    <3>. QED BY <1>2, <3>2
  <2>. QED BY <2>1, <2>2
<1>11. ASSUME NEW t \in D, Label(T, t) = "set"
       PROVE  /\ \A i \in {1, 2} : Settled(T, v, Parts(T, t)[i])
              /\ I[t] = 1 + I[Parts(T, t)[1]] + I[Parts(T, t)[2]]
  <2>1. PICK p, q \in D : p = Parts(T, t)[1] /\ q = Parts(T, t)[2]
    BY <1>11, SetParts
  <2>2. Settled(T, w, p) /\ Settled(T, w, q) /\ H[t] = 1 + H[p] + H[q]
    BY <1>1, <1>11, <2>1 DEF Heights
  <2>3. Settled(T, v, p) /\ Settled(T, v, q) /\ I[p] = H[p] /\ I[q] = H[q]
    BY <1>9, <2>2
  <2>4. I[t] = H[t]
    BY <1>5, <1>6, <1>11
  <2>. QED BY <2>1, <2>2, <2>3, <2>4
<1>12. Heights(T, I, v)
  <2>. HIDE DEF Late
  <2>. QED BY <1>5, <1>10, <1>11 DEF Heights
<1>13. ASSUME NEW t \in D, IsKnown(T, t) PROVE Settled(T, v, t)
  <2>1. CASE Late(t)
    BY <1>5, <1>7, <2>1 DEF Settled
  <2>2. CASE ~Late(t)
    BY <1>9, <1>13, <2>2
  <2>. QED BY <2>1, <2>2
<1>. QED BY <1>12, <1>13

(* A set is made of two types that are known.                              *)
LEMMA FoundedSet ==
    ASSUME NEW T, Graph(T), Founded(T), NEW l \in DOMAIN T, NEW r \in DOMAIN T,
           IsKnown(T, l), IsKnown(T, r), NEW V, V = Append(T, NewType("set", <<l, r>>))
    PROVE  Founded(V)
<1>1. PICK H, w : Heights(T, H, w) /\ \A t \in DOMAIN T : IsKnown(T, t) => Settled(T, w, t)
  BY KnownSettled
<1>2. PICK u : u = NewType("set", <<l, r>>)
  OBVIOUS
<1>3. Fresh(T, u)
  <2>1. "set" \in Compound /\ Shaped(T)
    BY DEF Compound, Graph
  <2>. QED BY <1>2, <2>1, FreshTypes
<1>4. PICK n : n = Len(T) + 1
  OBVIOUS
<1>5. /\ Adds(T, V) /\ V[n] = u /\ DOMAIN V = DOMAIN T \union {n} /\ n \notin DOMAIN T
  BY <1>2, <1>3, <1>4, AppendIs DEF Graph
<1>6. /\ \A x \in DOMAIN T : Label(V, x) = Label(T, x) /\ Parts(V, x) = Parts(T, x)
      /\ \A x \in DOMAIN T : Representative(V, x) = Representative(T, x)
  <2>1. PICK W : W = V
    OBVIOUS
  <2>2. Adds(T, W)
    BY <1>5, <2>1
  <2>3. /\ \A x \in DOMAIN T : Label(W, x) = Label(T, x) /\ Parts(W, x) = Parts(T, x)
        /\ \A x \in DOMAIN T : Representative(W, x) = Representative(T, x)
    BY <2>2, ExtendGraph DEF Adds
  <2>. QED BY <2>1, <2>3
<1>7. Label(V, n) = "set" /\ Parts(V, n)[1] = l /\ Parts(V, n)[2] = r
  BY <1>2, <1>5 DEF Label, Parts, NewType
<1>8. PICK I, v : /\ I = [t \in DOMAIN V |-> IF t = n THEN 1 + H[l] + H[r] ELSE H[t]]
                  /\ v = [t \in DOMAIN V |-> IF t = n THEN n ELSE w[t]]
  OBVIOUS
<1>9. H \in [DOMAIN T -> Nat] /\ w \in [DOMAIN T -> DOMAIN T]
  BY <1>1 DEF Heights
<1>10. /\ I \in [DOMAIN V -> Nat] /\ v \in [DOMAIN V -> DOMAIN V]
       /\ \A t \in DOMAIN T : t \in DOMAIN V /\ I[t] = H[t] /\ v[t] = w[t] /\ w[t] \in DOMAIN T
       /\ I[n] = 1 + H[l] + H[r] /\ v[n] = n
  <2>1. PICK D, E : D = DOMAIN T /\ E = DOMAIN V
    OBVIOUS
  <2>2. E = D \union {n} /\ n \notin D /\ H \in [D -> Nat] /\ w \in [D -> D] /\ l \in D /\ r \in D
    BY <1>5, <1>9, <2>1
  <2>3. /\ I = [t \in E |-> IF t = n THEN 1 + H[l] + H[r] ELSE H[t]]
        /\ v = [t \in E |-> IF t = n THEN n ELSE w[t]]
    BY <1>8, <2>1
  <2>4. /\ I \in [E -> Nat] /\ v \in [E -> E]
        /\ \A t \in D : t \in E /\ I[t] = H[t] /\ v[t] = w[t] /\ w[t] \in D
        /\ I[n] = 1 + H[l] + H[r] /\ v[n] = n
    BY <2>2, <2>3
  <2>. QED BY <2>1, <2>4
<1>11. \A x \in DOMAIN T : Settled(T, w, x) => Settled(V, v, x)
  BY <1>6, <1>10 DEF Settled
<1>12. /\ Same(V, v[n], n) /\ I[n] = I[v[n]] /\ v[v[n]] = v[n]
       /\ Label(V, n) # "var" => v[n] = n
       /\ Label(V, n) \notin {"var", "set"} => I[n] = 0
       /\ Label(V, n) = "set" =>
             /\ \A i \in {1, 2} : Settled(V, v, Parts(V, n)[i])
             /\ I[n] = 1 + I[Parts(V, n)[1]] + I[Parts(V, n)[2]]
  <2>1. Settled(V, v, l) /\ Settled(V, v, r) /\ I[l] = H[l] /\ I[r] = H[r]
    BY <1>1, <1>10, <1>11
  <2>. QED BY <1>7, <1>10, <2>1 DEF Same
<1>13. ASSUME NEW t \in DOMAIN T
      PROVE  /\ Same(V, v[t], t) /\ I[t] = I[v[t]] /\ v[v[t]] = v[t]
             /\ Label(V, t) # "var" => v[t] = t
             /\ Label(V, t) \notin {"var", "set"} => I[t] = 0
             /\ Label(V, t) = "set" =>
                /\ \A i \in {1, 2} : Settled(V, v, Parts(V, t)[i])
                /\ I[t] = 1 + I[Parts(V, t)[1]] + I[Parts(V, t)[2]]
  <2>1. /\ Same(T, w[t], t) /\ H[t] = H[w[t]] /\ w[w[t]] = w[t] /\ w[t] \in DOMAIN T
        /\ Label(T, t) # "var" => w[t] = t
        /\ Label(T, t) \notin {"var", "set"} => H[t] = 0
    BY <1>1, <1>9 DEF Heights
  <2>2. Label(V, t) = Label(T, t) /\ Parts(V, t) = Parts(T, t) /\ Same(V, w[t], t)
    BY <1>6, <2>1 DEF Same
  <2>3. ASSUME Label(T, t) = "set"
        PROVE  /\ \A i \in {1, 2} : Settled(V, v, Parts(V, t)[i])
               /\ I[t] = 1 + I[Parts(V, t)[1]] + I[Parts(V, t)[2]]
    <3>1. PICK p, q \in DOMAIN T : p = Parts(T, t)[1] /\ q = Parts(T, t)[2]
      BY <2>3, SetParts
    <3>2. Settled(T, w, p) /\ Settled(T, w, q) /\ H[t] = 1 + H[p] + H[q]
      BY <1>1, <2>3, <3>1 DEF Heights
    <3>3. I[t] = 1 + I[p] + I[q]
      BY <1>10, <3>2
    <3>. QED BY <1>11, <2>2, <3>1, <3>2, <3>3
  <2>4. Same(V, v[t], t) /\ I[t] = I[v[t]] /\ v[v[t]] = v[t]
    BY <1>10, <2>1, <2>2
  <2>. QED BY <1>10, <2>1, <2>2, <2>3, <2>4
<1>14. Heights(V, I, v)
  <2>1. \A t \in DOMAIN V : t \in DOMAIN T \/ t = n
    BY <1>5
  <2>. QED BY <1>10, <1>12, <1>13, <2>1 DEF Heights
<1>. QED BY <1>14 DEF Founded

(* The loop of type_set_contains_void comes to an end.                     *)
LEMMA GroundedIs ==
    ASSUME NEW T, Graph(T), NEW c, Exact(T, {}, c), Founded(T)
    PROVE  Grounded(T) = DOMAIN T
<1>. DEFINE D == DOMAIN T
            n == Len(T)
            base == {t \in D : ClassOf(T, t) # "set"}
            P(f) == f = [i \in 0 .. n |->
                      IF i = 0 THEN base
                      ELSE LET before == f[i - 1] IN
                           before \union {t \in D : Range(PartsOf(T, t)) \subseteq before}]
            all == CHOOSE f : P(f)
            next == [A \in SUBSET D |-> A \union {t \in D : Range(PartsOf(T, t)) \subseteq A}]
<1>1. D = 1 .. n /\ n \in Nat /\ IsFiniteSet(D) /\ Cardinality(D) = n
  <2>1. D = 1 .. n /\ n \in Nat
    BY ShapedFacts DEF Graph
  <2>. HIDE DEF n
  <2>. QED BY <2>1, FS_Interval
<1>2. PICK G \in [0 .. n -> SUBSET D] : Iterates(G, base, next, n)
  <2>1. base \in SUBSET D /\ next \in [SUBSET D -> SUBSET D]
    OBVIOUS
  <2>2. PICK X : X = SUBSET D
    OBVIOUS
  <2>. HIDE DEF base, next, n, D, P, all
  <2>3. PICK b, g, k : b = base /\ g = next /\ k = n
    OBVIOUS
  <2>4. b \in X /\ g \in [X -> X] /\ k \in Nat
    BY <1>1, <2>1, <2>2, <2>3
  <2>5. \E G \in [0 .. k -> X] : Iterates(G, b, g, k)
    BY <2>4, Iterate
  <2>. QED BY <2>2, <2>3, <2>5
<1>3. P(G)
  <2>1. \A i \in 0 .. n : i # 0 => i - 1 \in 0 .. n
    BY <1>1
  <2>2. \A i \in 0 .. n : G[i] = IF i = 0 THEN base
                                 ELSE G[i - 1] \union {t \in D : Range(PartsOf(T, t)) \subseteq G[i - 1]}
    <3>. HIDE DEF n, D, base
    <3>. QED BY <1>2, <2>1 DEF Iterates
  <2>. HIDE DEF base
  <2>. QED BY <1>2, <2>2
<1>4. P(all)
  <2>. HIDE DEF P
  <2>. QED BY <1>3
<1>5. Grounded(T) = all[n]
  BY DEF Grounded
<1>. HIDE DEF all
<1>6. PICK H, w : Heights(T, H, w) /\ \A t \in DOMAIN T : IsKnown(T, t) => Settled(T, w, t)
  BY KnownSettled
<1>7. H \in [D -> Nat] /\ \A t \in D : w[t] \in D /\ Same(T, w[t], t)
  BY <1>6 DEF Heights
<1>8. \A t \in D : Representative(T, t) \in D /\ ClassOf(T, t) = Label(T, Representative(T, t))
                   /\ PartsOf(T, t) = Parts(T, Representative(T, t))
                   /\ Same(T, t, Representative(T, t))
  BY ClassIs DEF Same
<1>9. ASSUME NEW p \in D, Settled(T, w, p) PROVE H[Representative(T, p)] = H[p]
  <2>1. PICK r \in D : r = Representative(T, p)
    BY <1>8
  <2>2. ClassOf(T, w[p]) = Label(T, w[p]) /\ ClassOf(T, w[p]) = ClassOf(T, p)
    BY <1>7, <1>9 DEF Graph, Honest, Settled, Same, ClassOf
  <2>3. Label(T, r) # "var"
    BY <1>8, <1>9, <2>1, <2>2 DEF Settled
  <2>4. Settled(T, w, r)
    BY <1>6, <2>3 DEF Graph, Honest, IsKnown
  <2>5. Same(T, r, p)
    BY <1>8, <2>1 DEF Same
  <2>. QED BY <1>6, <1>9, <2>1, <2>4, <2>5, SameHeight
<1>10. ASSUME NEW A, A \subseteq D, base \subseteq A,
              \A t \in D : Range(PartsOf(T, t)) \subseteq A => t \in A
       PROVE  D \subseteq A
  <2>. DEFINE Bad == {m \in Nat : \E t \in D : t \notin A /\ m = H[Representative(T, t)]}
  <2>1. SUFFICES ASSUME Bad # {} PROVE FALSE
    BY <1>7, <1>8
  <2>2. PICK m \in Bad : \A k \in Bad : m <= k
    <3>1. Bad \subseteq Nat
      OBVIOUS
    <3>. HIDE DEF Bad
    <3>. QED BY <2>1, <3>1, LeastNumber
  <2>3. PICK t \in D : t \notin A /\ m = H[Representative(T, t)]
    BY <2>2
  <2>4. PICK r \in D : r = Representative(T, t)
    BY <1>8
  <2>5. Label(T, r) = "set" /\ PartsOf(T, t) = Parts(T, r)
    BY <1>8, <1>10, <2>3, <2>4
  <2>6. DOMAIN Parts(T, r) = {1, 2}
    BY <2>5, SetParts
  <2>7. PICK p, q \in D : p = Parts(T, r)[1] /\ q = Parts(T, r)[2]
    BY <2>5, SetParts
  <2>8. Settled(T, w, p) /\ Settled(T, w, q) /\ H[r] = 1 + H[p] + H[q]
    BY <1>6, <2>5, <2>7 DEF Heights
  <2>9. ASSUME NEW x \in D, Settled(T, w, x), H[x] < m PROVE x \in A
    <3>1. H[Representative(T, x)] = H[x] /\ H[x] \in Nat /\ m \in Nat
      BY <1>7, <1>9, <2>2, <2>9
    <3>2. H[x] \notin Bad
      <4>. HIDE DEF Bad
      <4>. QED BY <2>2, <2>9, <3>1
    <3>. QED BY <3>1, <3>2
  <2>10. H[p] \in Nat /\ H[q] \in Nat /\ m = 1 + H[p] + H[q]
    BY <1>7, <2>3, <2>4, <2>8
  <2>11. H[p] < m /\ H[q] < m
    BY <2>10
  <2>12. p \in A /\ q \in A
    <3>. HIDE DEF Bad
    <3>. QED BY <2>8, <2>9, <2>11
  <2>13. Range(PartsOf(T, t)) \subseteq A
    BY <2>5, <2>6, <2>7, <2>12 DEF Range
  <2>. QED BY <1>10, <2>3, <2>13
<1>11. Grows(all, D, base, n)
  <2>1. all[0] = base
    <3>1. 0 \in 0 .. n
      BY <1>1
    <3>2. \A i \in 0 .. n : i = 0 => all[i] = base
      <4>. HIDE DEF n, D, base
      <4>. QED BY <1>4
    <3>. QED BY <3>1, <3>2
  <2>2. ASSUME NEW i \in 0 .. n - 1
        PROVE  all[i + 1] = all[i] \union {t \in D : Range(PartsOf(T, t)) \subseteq all[i]}
    <3>1. i + 1 \in 0 .. n /\ i + 1 # 0 /\ i + 1 - 1 = i
      BY <1>1
    <3>2. \A j \in 0 .. n : j # 0 =>
             all[j] = all[j - 1] \union {t \in D : Range(PartsOf(T, t)) \subseteq all[j - 1]}
      <4>. HIDE DEF n, D, base
      <4>. QED BY <1>4
    <3>3. PICK j \in 0 .. n : j = i + 1 /\ j # 0 /\ j - 1 = i
      BY <3>1
    <3>. HIDE DEF n, D, base
    <3>. QED BY <3>2, <3>3
  <2>3. ASSUME NEW i \in 0 .. n - 1, all[i] \subseteq D, base \subseteq all[i], all[i + 1] = all[i]
        PROVE  D \subseteq all[i]
    <3>1. PICK A : A = all[i]
      OBVIOUS
    <3>2. \A t \in D : Range(PartsOf(T, t)) \subseteq A => t \in A
      <4>. HIDE DEF D, base
      <4>. QED BY <2>2, <2>3, <3>1
    <3>. HIDE DEF base
    <3>. QED BY <1>10, <2>3, <3>1, <3>2
  <2>4. base \subseteq D
    OBVIOUS
  <2>. HIDE DEF base, D, n
  <2>. QED BY <2>1, <2>2, <2>3, <2>4 DEF Grows
<1>12. all[n] = D
  <2>. HIDE DEF base, D, n
  <2>. QED BY <1>1, <1>11, GrowsToAll
<1>. QED BY <1>5, <1>12

(* An error that has been reported stays reported.                         *)
LEMMA FailedStays == TypesInv /\ [Next]_vars => (failed => failed')
<1>. SUFFICES ASSUME TypesInv, [Next]_vars, failed PROVE failed'
  OBVIOUS
<1>1. failed = TRUE
  BY DEF TypesInv, Good
<1>2. CASE Declare
  BY <1>1, <1>2 DEF Declare, Make
<1>3. ASSUME NEW l \in Node, NEW r \in Node, ArgList(l, r) PROVE failed'
  BY <1>1, <1>3 DEF ArgList, Make
<1>4. ASSUME NEW d \in Node, NEW b \in Node, Routine(d, b) PROVE failed'
  BY <1>1, <1>4 DEF Routine, Make
<1>5. ASSUME NEW T, NEW m, NEW n, NEW rest, NEW c, Unify(T, m, n, rest, c) PROVE failed'
  BY <1>1, <1>5 DEF Unify
<1>6. ASSUME NEW f \in Node, NEW a \in Node, Apply(f, a) PROVE failed'
  <2>1. PICK T, d, c : Unify(T, d, a, <<>>, c)
    BY <1>6 DEF Apply
  <2>. QED BY <1>5, <2>1
<1>7. ASSUME NEW m, NEW n, Ask(m, n) PROVE failed'
  BY <1>1, <1>7 DEF Ask, Unify
<1>8. ASSUME NEW l \in Node, NEW r \in Node, Assignment(l, r) PROVE failed'
  BY <1>7, <1>8 DEF Assignment
<1>9. ASSUME NEW t \in Node, WhileLoop(t) PROVE failed'
  BY <1>7, <1>9 DEF WhileLoop
<1>10. ASSUME NEW t \in Node, Conditional(t) PROVE failed'
  BY <1>7, <1>10 DEF Conditional
<1>11. CASE UnifyStep
  BY <1>1, <1>11 DEF UnifyStep, Unify
<1>12. ASSUME NEW y \in Node, NEW n \in Node, Join(y, n) PROVE failed'
  BY <1>1, <1>12 DEF Join
<1>13. CASE UNCHANGED vars
  BY <1>1, <1>13 DEF vars
<1>. QED BY <1>2, <1>3, <1>4, <1>6, <1>8, <1>9, <1>10, <1>11, <1>12, <1>13 DEF Next

SetsInv == ~failed => Founded(types)

(* There are no sets in the beginning.                                     *)
LEMMA SetsInit == Init => SetsInv
<1>. SUFFICES ASSUME Init PROVE Founded(types)
  BY DEF SetsInv
<1>1. PICK T : T = types
  OBVIOUS
<1>2. DOMAIN T = DOMAIN Base /\ \A t \in DOMAIN T : Label(T, t) = Base[t]
  BY <1>1 DEF Init, Label, NewType
<1>3. \A t \in DOMAIN T : Label(T, t) # "set"
  BY <1>2, BaseAssumption DEF Compound
<1>4. PICK H, w : H = [t \in DOMAIN T |-> 0] /\ w = [t \in DOMAIN T |-> t]
  OBVIOUS
<1>5. Heights(T, H, w)
  BY <1>3, <1>4 DEF Heights, Same
<1>. QED BY <1>1, <1>5 DEF Founded

(* Every step keeps the depths, until an error is reported.                *)
LEMMA SetsKept == TypesInv /\ SetsInv /\ [Next]_vars => SetsInv'
<1>. SUFFICES ASSUME TypesInv, SetsInv, [Next]_vars, ~failed' PROVE Founded(types')
  BY DEF SetsInv
<1>1. ~failed /\ TypesInv' /\ Onward
  BY FailedStays, StepKeeps
<1>2. PICK T, V : T = types /\ V = types'
  OBVIOUS
<1>3. Graph(T) /\ Graph(V) /\ Founded(T)
  BY <1>1, <1>2 DEF TypesInv, Good, SetsInv
<1>4. CASE Keeps(types, types')
  <2>1. Founded(V)
    BY <1>2, <1>3, <1>4, FoundedKept
  <2>. QED BY <1>2, <2>1
<1>5. ASSUME NEW l \in Node, NEW r \in Node, TwoTypes(l, r) PROVE Founded(types')
  <2>1. /\ l \in DOMAIN T /\ r \in DOMAIN T /\ IsKnown(T, l) /\ IsKnown(T, r)
        /\ V = Append(T, NewType("set", <<l, r>>))
    BY <1>2, <1>5 DEF TwoTypes, Node
  <2>2. Founded(V)
    BY <1>3, <2>1, FoundedSet
  <2>. QED BY <1>2, <2>2
<1>. QED BY <1>1, <1>4, <1>5 DEF Onward

(* The recursion of type_set_contains_void comes to an end, for every      *)
(* type, until an error is reported: no set is a member of itself, nor of  *)
(* one of its members.                                                     *)
THEOREM SetsComeToAnEnd == Spec => []SetsEnd
<1>1. TypesInv /\ SetsInv => SetsEnd
  <2>1. ASSUME TypesInv, SetsInv, calls = <<>>, ~failed PROVE Grounded(types) = Node
    <3>1. PICK T, c : T = types /\ c = meant
      OBVIOUS
    <3>2. Graph(T) /\ Exact(T, {}, c) /\ Founded(T)
      BY <2>1, <3>1, QuietIs DEF SetsInv
    <3>3. Grounded(T) = DOMAIN T
      BY <3>2, GroundedIs
    <3>. QED BY <3>1, <3>3 DEF Node
  <2>. QED BY <2>1 DEF SetsEnd
<1>2. TypesInv /\ SetsInv /\ [Next]_vars => SetsInv'
  BY SetsKept
<1>3. Spec => []SetsInv
  BY TypesInvariant, SetsInit, <1>2, PTL DEF Spec
<1>. QED BY TypesInvariant, <1>1, <1>3, PTL
=============================================================================
