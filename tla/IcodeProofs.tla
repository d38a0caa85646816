---------------------------- MODULE IcodeProofs ----------------------------
(***************************************************************************)
(* Proofs about intermediate code: that the walks leave no dangling links, *)
(* that the encoder writes the list that they leave, that neither changes  *)
(* what a program does, and that this is what its syntax tree says.        *)
(***************************************************************************)
EXTENDS Compiler, Induction, SequenceTheorems, TLAPS

(***************************************************************************)
(* The list                                                                *)
(***************************************************************************)

(* A list of instructions of D: there is one, and none occurs twice.       *)
Listed(P, D) ==
    /\ P \in Seq(D) /\ P # <<>>
    /\ \A m, n \in 1 .. Len(P) : P[m] = P[n] => m = n

(* What a list is, place by place.                                         *)
LEMMA ListedFacts ==
    ASSUME NEW P, NEW D, Listed(P, D)
    PROVE  /\ Len(P) \in Nat /\ Len(P) >= 1 /\ DOMAIN P = 1 .. Len(P)
           /\ \A n \in 1 .. Len(P) : P[n] \in D
           /\ Range(P) \subseteq D
           /\ \A i : i \in Range(P) <=> \E n \in 1 .. Len(P) : P[n] = i
           /\ \A m, n \in 1 .. Len(P) : P[m] = P[n] => m = n
<1>1. P \in Seq(D) /\ P # <<>> /\ \A m, n \in 1 .. Len(P) : P[m] = P[n] => m = n
  BY DEF Listed
<1>2. Len(P) \in Nat /\ Len(P) >= 1 /\ DOMAIN P = 1 .. Len(P) /\ \A n \in 1 .. Len(P) : P[n] \in D
  BY <1>1
<1>3. \A i : i \in Range(P) <=> \E n \in 1 .. Len(P) : P[n] = i
  BY <1>2 DEF Range
<1>. QED BY <1>1, <1>2, <1>3

(* The list without the instruction at one place.                          *)
LEMMA RemovedFacts ==
    ASSUME NEW P, NEW D, Listed(P, D), NEW n \in 1 .. Len(P), Len(P) > 1
    PROVE  LET Q == RemoveAt(P, n) IN
           /\ Listed(Q, D)
           /\ Len(Q) = Len(P) - 1
           /\ \A m \in 1 .. Len(Q) : Q[m] = IF m < n THEN P[m] ELSE P[m + 1]
           /\ Range(Q) = Range(P) \ {P[n]}
<1>. DEFINE Q == RemoveAt(P, n)
            A == SubSeq(P, 1, n - 1)
            B == SubSeq(P, n + 1, Len(P))
<1>1. /\ Len(P) \in Nat /\ DOMAIN P = 1 .. Len(P) /\ P \in Seq(D)
      /\ \A m \in 1 .. Len(P) : P[m] \in D
      /\ \A k, m \in 1 .. Len(P) : P[k] = P[m] => k = m
  BY ListedFacts DEF Listed
<1>2. /\ A \in Seq(D) /\ Len(A) = n - 1 /\ \A m \in 1 .. n - 1 : A[m] = P[m]
  BY <1>1
<1>3. /\ B \in Seq(D) /\ Len(B) = Len(P) - n /\ \A m \in 1 .. Len(P) - n : B[m] = P[n + m]
  <2>1. \A m \in n + 1 .. Len(P) : P[m] \in D
    BY <1>1
  <2>2. n + 1 \in Int /\ Len(P) \in Int
    BY <1>1
  <2>3. /\ B \in Seq(D) /\ Len(B) = IF n + 1 <= Len(P) THEN Len(P) - (n + 1) + 1 ELSE 0
        /\ \A m \in 1 .. Len(P) - (n + 1) + 1 : B[m] = P[n + 1 + m - 1]
    BY <2>1, <2>2, SubSeqProperties
  <2>. HIDE DEF B
  <2>4. Len(B) = Len(P) - n
    <3>1. PICK l \in Nat : l = Len(P) /\ n \in 1 .. l
      BY <1>1
    <3>2. Len(B) = IF n + 1 <= l THEN l - (n + 1) + 1 ELSE 0
      BY <2>3, <3>1
    <3>. QED BY <3>1, <3>2
  <2>5. \A m \in 1 .. Len(P) - n : m \in 1 .. Len(P) - (n + 1) + 1 /\ n + 1 + m - 1 = n + m
    BY <1>1
  <2>. QED BY <2>3, <2>4, <2>5
<1>4. Q = A \o B
  BY DEF RemoveAt
<1>. HIDE DEF A, B, Q
<1>5. Q \in Seq(D) /\ Len(Q) = Len(P) - 1
  <2>1. A \o B \in Seq(D) /\ Len(A \o B) = Len(A) + Len(B)
    BY <1>2, <1>3, ConcatProperties
  <2>. QED BY <1>1, <1>2, <1>3, <1>4, <2>1
<1>6. ASSUME NEW m \in 1 .. Len(Q) PROVE Q[m] = IF m < n THEN P[m] ELSE P[m + 1]
  <2>1. CASE m < n
    BY <1>1, <1>2, <1>3, <1>4, <1>5, <2>1
  <2>2. CASE m >= n
    <3>1. Q[m] = B[m - (n - 1)]
      BY <1>1, <1>2, <1>3, <1>4, <1>5, <2>2
    <3>2. m - (n - 1) \in 1 .. Len(P) - n /\ n + (m - (n - 1)) = m + 1
      BY <1>1, <1>5, <2>2
    <3>. QED BY <1>3, <2>2, <3>1, <3>2
  <2>. QED BY <2>1, <2>2, <1>1, <1>5
<1>7. ASSUME NEW k \in 1 .. Len(Q), NEW m \in 1 .. Len(Q), Q[k] = Q[m] PROVE k = m
  <2>1. PICK a, b \in 1 .. Len(P) : /\ a = (IF k < n THEN k ELSE k + 1)
                                    /\ b = (IF m < n THEN m ELSE m + 1)
    BY <1>1, <1>5
  <2>2. P[a] = P[b]
    BY <1>6, <1>7, <2>1
  <2>3. a = b
    BY <1>1, <2>2
  <2>. QED BY <1>1, <1>5, <2>1, <2>3
<1>8. Q # <<>>
  BY <1>1, <1>5
<1>9. Listed(Q, D)
  BY <1>5, <1>7, <1>8 DEF Listed
<1>10. Range(Q) = Range(P) \ {P[n]}
  <2>1. ASSUME NEW i \in Range(Q) PROVE i \in Range(P) /\ i # P[n]
    <3>1. PICK m \in 1 .. Len(Q) : Q[m] = i
      BY <1>9, ListedFacts
    <3>2. PICK a \in 1 .. Len(P) : a = (IF m < n THEN m ELSE m + 1)
      BY <1>1, <1>5
    <3>3. P[a] = i /\ a # n
      BY <1>1, <1>5, <1>6, <3>1, <3>2
    <3>. QED BY <1>1, <3>3, ListedFacts
  <2>2. ASSUME NEW i \in Range(P), i # P[n] PROVE i \in Range(Q)
    <3>1. PICK a \in 1 .. Len(P) : P[a] = i
      BY ListedFacts
    <3>2. PICK m \in 1 .. Len(Q) : m = (IF a < n THEN a ELSE a - 1)
      BY <1>1, <1>5, <2>2, <3>1
    <3>3. a # n
      BY <2>2, <3>1
    <3>4. Q[m] = P[a]
      BY <1>1, <1>5, <1>6, <3>2, <3>3
    <3>. QED BY <1>9, <3>1, <3>4, ListedFacts
  <2>. QED BY <2>1, <2>2
<1>11. RemoveAt(P, n) = Q
  BY DEF Q
<1>. QED BY <1>5, <1>6, <1>9, <1>10, <1>11

(* Places and neighbours of instructions of the list.                      *)
LEMMA PlaceIs ==
    ASSUME NEW D, Listed(program, D), NEW n \in 1 .. Len(program)
    PROVE  /\ Place(program[n]) = n
           /\ NextOf(program[n]) = IF n = Len(program) THEN None ELSE program[n + 1]
           /\ PrevOf(program[n]) = IF n = 1 THEN None ELSE program[n - 1]
<1>1. /\ DOMAIN program = 1 .. Len(program)
      /\ \A k, m \in 1 .. Len(program) : program[k] = program[m] => k = m
  BY ListedFacts
<1>2. Place(program[n]) = n
  BY <1>1 DEF Place
<1>. QED BY <1>2 DEF NextOf, PrevOf
(***************************************************************************)
(* Links: LinksExact as a predicate of what it is about, L being the       *)
(* instructions in the list.                                               *)
(***************************************************************************)
Branch(op) == op \in {"JMP", "JZ"}

Links(L, op, br, rf, en) ==
    /\ \A i \in L : Branch(op[i]) => br[i] \in L /\ i \in rf[br[i]]
    /\ \A i \in L : \A r \in rf[i] : r > 0 => r \in L /\ Branch(op[r]) /\ br[r] = i
    /\ \A k \in DOMAIN en : en[k] \in L /\ k \in rf[en[k]]

(* The instructions are numbered from 1, the closures down from -1.        *)
Shape(D, op, br, rf, en) ==
    /\ D \subseteq Nat \ {0}
    /\ op \in [D -> Opcodes] /\ DOMAIN br = D /\ DOMAIN rf = D
    /\ DOMAIN en \subseteq Int /\ \A k \in DOMAIN en : k < 0
    /\ \A i \in D : rf[i] \subseteq Int

(* referrers_rewire, when the instruction i leaves the list.               *)
Led(f, s, to)    == [j \in DOMAIN f |-> IF j \in s THEN to ELSE f[j]]
Moved(rf, i, to) == [rf EXCEPT ![to] = @ \cup rf[i], ![i] = {}]

LEMMA RewiringKeepsLinks ==
    ASSUME NEW D, NEW L, NEW op, NEW br, NEW rf, NEW en, NEW i \in L, NEW to \in L,
           Shape(D, op, br, rf, en), Links(L, op, br, rf, en),
           L \subseteq D, to # i, ~Branch(op[i]),
           NEW br2, br2 = Led(br, rf[i], to),
           NEW en2, en2 = Led(en, rf[i], to),
           NEW rf2, rf2 = Moved(rf, i, to)
    PROVE  Shape(D, op, br2, rf2, en2) /\ Links(L \ {i}, op, br2, rf2, en2)
<1>1. /\ D \subseteq Nat \ {0} /\ DOMAIN br = D /\ DOMAIN rf = D /\ i \in D /\ to \in D
      /\ \A k \in DOMAIN en : k < 0 /\ k \in Int
      /\ \A j \in D : rf[j] \subseteq Int
  BY DEF Shape
<1>2. /\ \A j \in L : Branch(op[j]) => br[j] \in L /\ j \in rf[br[j]]
      /\ \A j \in L : \A r \in rf[j] : r > 0 => r \in L /\ Branch(op[r]) /\ br[r] = j
      /\ \A k \in DOMAIN en : en[k] \in L /\ k \in rf[en[k]]
  BY DEF Links
<1>3. /\ rf2[to] = rf[to] \cup rf[i] /\ rf2[i] = {}
      /\ \A j \in D : j # to /\ j # i => rf2[j] = rf[j]
      /\ DOMAIN rf2 = D
  BY <1>1 DEF Moved
<1>4. /\ \A j \in D : br2[j] = IF j \in rf[i] THEN to ELSE br[j]
      /\ \A k \in DOMAIN en : en2[k] = IF k \in rf[i] THEN to ELSE en[k]
      /\ DOMAIN br2 = D /\ DOMAIN en2 = DOMAIN en
  BY <1>1 DEF Led
<1>5. Shape(D, op, br2, rf2, en2)
  <2>1. \A j \in D : rf2[j] \subseteq Int
    BY <1>1, <1>3
  <2>. QED BY <1>3, <1>4, <2>1 DEF Shape
<1>6. ASSUME NEW j \in L \ {i}, Branch(op[j])
      PROVE  br2[j] \in L \ {i} /\ j \in rf2[br2[j]]
  <2>1. j \in D /\ br[j] \in L /\ j \in rf[br[j]]
    BY <1>2, <1>6
  <2>2. CASE j \in rf[i]
    BY <1>3, <1>4, <2>1, <2>2
  <2>3. CASE j \notin rf[i]
    <3>1. br2[j] = br[j] /\ br[j] # i
      BY <1>4, <2>1, <2>3
    <3>2. j \in rf2[br[j]]
      BY <1>3, <2>1, <3>1
    <3>. QED BY <2>1, <3>1, <3>2
  <2>. QED BY <2>2, <2>3
<1>7. ASSUME NEW j \in L \ {i}, NEW r \in rf2[j], r > 0
      PROVE  r \in L \ {i} /\ Branch(op[r]) /\ br2[r] = j
  <2>1. r \in rf[j] \/ (j = to /\ r \in rf[i])
    BY <1>3, <1>7
  <2>2. r \in L /\ Branch(op[r]) /\ (br[r] = j \/ (j = to /\ br[r] = i))
    BY <1>2, <1>7, <2>1
  <2>3. r # i
    BY <2>2
  <2>4. CASE r \in rf[i]
    <3>1. br[r] = i
      BY <1>2, <1>7, <2>4
    <3>. QED BY <1>4, <1>7, <2>2, <2>3, <2>4, <3>1
  <2>5. CASE r \notin rf[i]
    <3>1. br[r] = j
      BY <1>2, <1>7, <2>1, <2>5
    <3>. QED BY <1>4, <2>2, <2>3, <2>5, <3>1
  <2>. QED BY <2>4, <2>5
<1>8. ASSUME NEW k \in DOMAIN en2 PROVE en2[k] \in L \ {i} /\ k \in rf2[en2[k]]
  <2>1. k \in DOMAIN en /\ en[k] \in L /\ k \in rf[en[k]]
    BY <1>2, <1>4, <1>8
  <2>2. CASE k \in rf[i]
    BY <1>1, <1>3, <1>4, <2>1, <2>2
  <2>3. CASE k \notin rf[i]
    BY <1>3, <1>4, <2>1, <2>3
  <2>. QED BY <2>2, <2>3
<1>9. Links(L \ {i}, op, br2, rf2, en2)
  BY <1>6, <1>7, <1>8 DEF Links
<1>. QED BY <1>5, <1>9

(* icode_free of an instruction that nothing refers to.                    *)
LEMMA FreeingKeepsLinks ==
    ASSUME NEW D, NEW L, NEW op, NEW br, NEW rf, NEW en, NEW i \in L,
           Shape(D, op, br, rf, en), Links(L, op, br, rf, en),
           L \subseteq D, rf[i] = {},
           NEW rf2, rf2 = IF Branch(op[i]) THEN [rf EXCEPT ![br[i]] = @ \ {i}] ELSE rf
    PROVE  Shape(D, op, br, rf2, en) /\ Links(L \ {i}, op, br, rf2, en)
<1>1. /\ D \subseteq Nat \ {0} /\ DOMAIN br = D /\ DOMAIN rf = D /\ i \in D
      /\ \A k \in DOMAIN en : k < 0 /\ k \in Int
      /\ \A j \in D : rf[j] \subseteq Int
  BY DEF Shape
<1>2. /\ \A j \in L : Branch(op[j]) => br[j] \in L /\ j \in rf[br[j]]
      /\ \A j \in L : \A r \in rf[j] : r > 0 => r \in L /\ Branch(op[r]) /\ br[r] = j
      /\ \A k \in DOMAIN en : en[k] \in L /\ k \in rf[en[k]]
  BY DEF Links
<1>3. /\ DOMAIN rf2 = D
      /\ \A j \in D : rf2[j] = IF Branch(op[i]) /\ j = br[i] THEN rf[j] \ {i} ELSE rf[j]
  BY <1>1
<1>4. Shape(D, op, br, rf2, en)
  <2>1. \A j \in D : rf2[j] \subseteq Int
    BY <1>1, <1>3
  <2>. QED BY <1>3, <2>1 DEF Shape
<1>5. ASSUME NEW j \in L \ {i}, Branch(op[j]) PROVE br[j] \in L \ {i} /\ j \in rf2[br[j]]
  BY <1>1, <1>2, <1>3, <1>5
<1>6. ASSUME NEW j \in L \ {i}, NEW r \in rf2[j], r > 0
      PROVE  r \in L \ {i} /\ Branch(op[r]) /\ br[r] = j
  <2>1. r \in rf[j]
    BY <1>3
  <2>2. r \in L /\ Branch(op[r]) /\ br[r] = j
    BY <1>2, <1>6, <2>1
  <2>3. r # i
    BY <1>3, <2>2
  <2>. QED BY <2>2, <2>3
<1>7. ASSUME NEW k \in DOMAIN en PROVE en[k] \in L \ {i} /\ k \in rf2[en[k]]
  <2>1. en[k] \in L /\ k \in rf[en[k]] /\ k # i
    BY <1>1, <1>2
  <2>. QED BY <1>3, <2>1
<1>8. Links(L \ {i}, op, br, rf2, en)
  BY <1>5, <1>6, <1>7 DEF Links
<1>. QED BY <1>4, <1>8

(* A jump becomes an instruction that is none.                             *)
LEMMA UnwiringKeepsLinks ==
    ASSUME NEW D, NEW L, NEW op, NEW br, NEW rf, NEW en, NEW i \in L,
           Shape(D, op, br, rf, en), Links(L, op, br, rf, en),
           L \subseteq D, Branch(op[i]),
           NEW o \in Opcodes, ~Branch(o),
           NEW op2, op2 = [op EXCEPT ![i] = o],
           NEW rf2, rf2 = [rf EXCEPT ![br[i]] = @ \ {i}]
    PROVE  Shape(D, op2, br, rf2, en) /\ Links(L, op2, br, rf2, en)
<1>1. /\ D \subseteq Nat \ {0} /\ DOMAIN br = D /\ DOMAIN rf = D /\ i \in D
      /\ op \in [D -> Opcodes]
      /\ \A k \in DOMAIN en : k < 0 /\ k \in Int
      /\ \A j \in D : rf[j] \subseteq Int
  BY DEF Shape
<1>2. /\ \A j \in L : Branch(op[j]) => br[j] \in L /\ j \in rf[br[j]]
      /\ \A j \in L : \A r \in rf[j] : r > 0 => r \in L /\ Branch(op[r]) /\ br[r] = j
      /\ \A k \in DOMAIN en : en[k] \in L /\ k \in rf[en[k]]
  BY DEF Links
<1>3. /\ DOMAIN rf2 = D
      /\ \A j \in D : rf2[j] = IF j = br[i] THEN rf[j] \ {i} ELSE rf[j]
      /\ op2 \in [D -> Opcodes]
      /\ \A j \in D : op2[j] = IF j = i THEN o ELSE op[j]
  BY <1>1
<1>4. Shape(D, op2, br, rf2, en)
  <2>1. \A j \in D : rf2[j] \subseteq Int
    BY <1>1, <1>3
  <2>. QED BY <1>3, <2>1 DEF Shape
<1>5. ASSUME NEW j \in L, Branch(op2[j]) PROVE br[j] \in L /\ j \in rf2[br[j]]
  <2>1. j # i /\ Branch(op[j])
    BY <1>3, <1>5
  <2>. QED BY <1>2, <1>3, <2>1
<1>6. ASSUME NEW j \in L, NEW r \in rf2[j], r > 0
      PROVE  r \in L /\ Branch(op2[r]) /\ br[r] = j
  <2>1. r \in rf[j] /\ ~(j = br[i] /\ r = i)
    BY <1>3
  <2>2. r \in L /\ Branch(op[r]) /\ br[r] = j
    BY <1>2, <1>6, <2>1
  <2>. QED BY <1>3, <2>1, <2>2
<1>7. ASSUME NEW k \in DOMAIN en PROVE en[k] \in L /\ k \in rf2[en[k]]
  <2>1. en[k] \in L /\ k \in rf[en[k]] /\ k # i
    BY <1>1, <1>2
  <2>. QED BY <1>3, <2>1
<1>8. Links(L, op2, br, rf2, en)
  BY <1>5, <1>6, <1>7 DEF Links
<1>. QED BY <1>4, <1>8

(* One opcode for another, where neither is a jump.                        *)
LEMMA ReplacingKeepsLinks ==
    ASSUME NEW D, NEW L, NEW op, NEW br, NEW rf, NEW en, NEW i \in L,
           Shape(D, op, br, rf, en), Links(L, op, br, rf, en),
           L \subseteq D, ~Branch(op[i]),
           NEW o \in Opcodes, ~Branch(o),
           NEW op2, op2 = [op EXCEPT ![i] = o]
    PROVE  Shape(D, op2, br, rf, en) /\ Links(L, op2, br, rf, en)
<1>1. op \in [D -> Opcodes] /\ i \in D
  BY DEF Shape
<1>2. op2 \in [D -> Opcodes] /\ \A j \in D : op2[j] = IF j = i THEN o ELSE op[j]
  BY <1>1
<1>3. \A j \in D : Branch(op2[j]) <=> Branch(op[j])
  BY <1>2
<1>4. Shape(D, op2, br, rf, en)
  BY <1>2 DEF Shape
<1>5. Links(L, op2, br, rf, en)
  BY <1>3 DEF Links
<1>. QED BY <1>4, <1>5
(***************************************************************************)
(* Walks                                                                   *)
(***************************************************************************)
Early  == {"nops", "jumps", "tailcalls", "smallints"}
Passes == Early \cup {"deadcode", "encode", "done"}

(* What holds of the instructions that a walk has left behind.             *)
Behind(P, op, ps, n, dd) ==
    /\ ps = "nops" => \A m \in 1 .. n - 1 : op[P[m]] # "NOP"
    /\ ps = "deadcode" /\ dd => n > 1 /\ op[P[n - 1]] \in Final

(* A walk is at an instruction of the list, there are no NOPs after the    *)
(* first one, and the last instruction never goes on.                      *)
Walk(P, op, ps, i, dd) ==
    /\ ps \in Passes /\ dd \in BOOLEAN
    /\ ps \in Early => ~dd /\ op[P[Len(P)]] = "HALT"
    /\ op[P[Len(P)]] \in Final
    /\ ps # "nops" => \A m \in 1 .. Len(P) : op[P[m]] # "NOP"
    /\ \E n \in 1 .. Len(P) : P[n] = i /\ Behind(P, op, ps, n, dd)

(* From the n-th instruction of P to the next, Q being what is left of P.  *)
Moves(P, Q, n, ps, ps2, i2) ==
    IF n = Len(P) THEN i2 = Head(Q) /\ ps2 = NextPass[ps] ELSE i2 = P[n + 1] /\ ps2 = ps

LEMMA NextPasses ==
    /\ DOMAIN NextPass = Early \cup {"deadcode"}
    /\ \A ps \in Early : NextPass[ps] \in (Early \cup {"deadcode"}) \ {"nops"}
    /\ NextPass["deadcode"] = "encode"
<1>1. DOMAIN NextPass = {"nops", "jumps", "tailcalls", "smallints", "deadcode"}
  BY DEF NextPass
<1>2. /\ NextPass["nops"] = "jumps" /\ NextPass["jumps"] = "tailcalls"
      /\ NextPass["tailcalls"] = "smallints" /\ NextPass["smallints"] = "deadcode"
      /\ NextPass["deadcode"] = "encode"
  BY DEF NextPass
<1>. QED BY <1>1, <1>2 DEF Early

(* A walk goes on and leaves the instruction in the list.                  *)
LEMMA WalkStays ==
    ASSUME NEW D, NEW P, Listed(P, D), NEW op, NEW ps \in DOMAIN NextPass, NEW i, NEW dd,
           Walk(P, op, ps, i, dd), NEW n \in 1 .. Len(P), P[n] = i, Behind(P, op, ps, n, dd),
           NEW op2, NEW ps2, NEW i2, NEW dd2, Moves(P, P, n, ps, ps2, i2),
           \A m \in 1 .. Len(P) : op[P[m]] # "NOP" => op2[P[m]] # "NOP",
           op2[P[Len(P)]] = op[P[Len(P)]],
           ps = "nops" => op2[i] # "NOP",
           ps = "deadcode" => op2 = op /\ (dd2 <=> op[i] \in Final),
           ps # "deadcode" => dd2 = dd,
           dd2 \in BOOLEAN
    PROVE  Walk(P, op2, ps2, i2, dd2)
<1>1. Len(P) \in Nat /\ Len(P) >= 1
  BY ListedFacts
<1>2. /\ ps \in Early \cup {"deadcode"} /\ op[P[Len(P)]] \in Final
      /\ ps \in Early => ~dd /\ op[P[Len(P)]] = "HALT"
      /\ ps # "nops" => \A m \in 1 .. Len(P) : op[P[m]] # "NOP"
  BY NextPasses DEF Walk
<1>3. CASE n = Len(P)
  <2>0. Head(P) = P[1]
    BY DEF Listed
  <2>1. i2 = P[1] /\ ps2 = NextPass[ps]
    BY <1>3, <2>0 DEF Moves
  <2>2. \A m \in 1 .. Len(P) : op2[P[m]] # "NOP"
    <3>1. CASE ps = "nops"
      <4>1. \A m \in 1 .. n - 1 : op[P[m]] # "NOP"
        BY <3>1 DEF Behind
      <4>2. \A m \in 1 .. Len(P) : m \in 1 .. n - 1 \/ m = n
        BY <1>1, <1>3
      <4>. QED BY <1>3, <3>1, <4>1, <4>2
    <3>2. CASE ps # "nops"
      BY <1>2, <3>2
    <3>. QED BY <3>1, <3>2
  <2>3. 1 \in 1 .. Len(P)
    BY <1>1
  <2>4. CASE ps \in Early
    <3>1. ps2 \in (Early \cup {"deadcode"}) \ {"nops"} /\ ps # "deadcode"
      BY <2>1, <2>4, NextPasses DEF Early
    <3>2. ~dd2
      BY <1>2, <2>4, <3>1
    <3>3. Behind(P, op2, ps2, 1, dd2)
      BY <3>1, <3>2 DEF Behind
    <3>. QED BY <1>2, <2>1, <2>2, <2>3, <2>4, <3>1, <3>2, <3>3 DEF Walk, Passes
  <2>5. CASE ps = "deadcode"
    <3>1. ps2 = "encode"
      BY <2>1, <2>5, NextPasses
    <3>2. Behind(P, op2, ps2, 1, dd2)
      BY <3>1 DEF Behind
    <3>3. ps2 \notin Early /\ ps2 \in Passes
      BY <3>1 DEF Early, Passes
    <3>. QED BY <1>2, <2>1, <2>2, <2>3, <3>2, <3>3 DEF Walk
  <2>. QED BY <1>2, <2>4, <2>5
<1>4. CASE n # Len(P)
  <2>1. i2 = P[n + 1] /\ ps2 = ps /\ n + 1 \in 1 .. Len(P) /\ n + 1 - 1 = n
    BY <1>1, <1>4 DEF Moves
  <2>2. Behind(P, op2, ps, n + 1, dd2)
    <3>1. ASSUME ps = "nops", NEW m \in 1 .. n + 1 - 1 PROVE op2[P[m]] # "NOP"
      <4>1. m \in 1 .. Len(P) /\ (m \in 1 .. n - 1 \/ m = n)
        BY <1>1
      <4>2. \A k \in 1 .. n - 1 : op[P[k]] # "NOP"
        BY <3>1 DEF Behind
      <4>. QED BY <3>1, <4>1, <4>2
    <3>2. ps = "deadcode" /\ dd2 => n + 1 > 1 /\ op2[P[n + 1 - 1]] \in Final
      BY <1>1, <2>1
    <3>. QED BY <3>1, <3>2 DEF Behind
  <2>3. ps \in Early => ~dd2 /\ op2[P[Len(P)]] = "HALT"
    <3>1. ps \in Early => ps # "deadcode"
      BY DEF Early
    <3>. QED BY <1>2, <3>1
  <2>4. ps \in Passes
    BY <1>2 DEF Passes
  <2>5. ps # "nops" => \A m \in 1 .. Len(P) : op2[P[m]] # "NOP"
    BY <1>2
  <2>6. op2[P[Len(P)]] \in Final
    BY <1>2
  <2>. QED BY <2>1, <2>2, <2>3, <2>4, <2>5, <2>6 DEF Walk
<1>. QED BY <1>3, <1>4

(* A walk goes on and has freed the instruction.                           *)
LEMMA WalkFrees ==
    ASSUME NEW D, NEW P, Listed(P, D), NEW op, NEW ps \in DOMAIN NextPass, NEW i, NEW dd,
           Walk(P, op, ps, i, dd), NEW n \in 1 .. Len(P), P[n] = i, Behind(P, op, ps, n, dd),
           NEW Q, Q = RemoveAt(P, n),
           NEW op2, NEW ps2, NEW i2, Moves(P, Q, n, ps, ps2, i2),
           \A m \in 1 .. Len(P) : op[P[m]] # "NOP" => op2[P[m]] # "NOP",
           op2[P[Len(P)]] = op[P[Len(P)]],
           ps \in Early => op[i] # "HALT",
           ps = "deadcode" => op2 = op /\ dd
    PROVE  /\ Listed(Q, D) /\ Range(Q) = Range(P) \ {i}
           /\ n # Len(P) => P[n + 1] \in Range(P) /\ P[n + 1] # i
           /\ ps = "nops" => n # Len(P)
           /\ Walk(Q, op2, ps2, i2, dd)
<1>1. /\ Len(P) \in Nat /\ Len(P) >= 1
      /\ \A k, m \in 1 .. Len(P) : P[k] = P[m] => k = m
      /\ \A m \in 1 .. Len(P) : P[m] \in Range(P)
  BY ListedFacts
<1>2. /\ ps \in Early \cup {"deadcode"} /\ op[P[Len(P)]] \in Final
      /\ ps \in Early => ~dd /\ op[P[Len(P)]] = "HALT"
      /\ ps # "nops" => \A m \in 1 .. Len(P) : op[P[m]] # "NOP"
  BY NextPasses DEF Walk
<1>3. ps \in Early => n # Len(P)
  BY <1>2
<1>4. ps = "deadcode" => n > 1 /\ op[P[n - 1]] \in Final
  BY DEF Behind
<1>5. Len(P) > 1
  BY <1>1, <1>2, <1>3, <1>4
<1>6. /\ Listed(Q, D) /\ Len(Q) = Len(P) - 1
      /\ \A m \in 1 .. Len(Q) : Q[m] = IF m < n THEN P[m] ELSE P[m + 1]
      /\ Range(Q) = Range(P) \ {i}
  BY <1>5, RemovedFacts
<1>7. n # Len(P) => P[n + 1] \in Range(P) /\ P[n + 1] # i
  <2>1. n # Len(P) => n + 1 \in 1 .. Len(P) /\ n + 1 # n
    BY <1>1
  <2>. QED BY <1>1, <2>1
<1>8. \A m \in 1 .. Len(Q) : \E k \in 1 .. Len(P) : Q[m] = P[k]
  <2>1. ASSUME NEW m \in 1 .. Len(Q) PROVE m \in 1 .. Len(P) /\ m + 1 \in 1 .. Len(P)
    BY <1>1, <1>6
  <2>. QED BY <1>6, <2>1
<1>9. ps # "nops" => \A m \in 1 .. Len(Q) : op2[Q[m]] # "NOP"
  BY <1>2, <1>8
<1>10. dd \in BOOLEAN
  BY DEF Walk
<1>11. CASE n # Len(P)
  <2>1. i2 = P[n + 1] /\ ps2 = ps
    BY <1>11 DEF Moves
  <2>2. n \in 1 .. Len(Q) /\ Q[n] = P[n + 1]
    <3>1. n \in 1 .. Len(Q) /\ ~(n < n)
      BY <1>1, <1>6, <1>11
    <3>. QED BY <1>6, <3>1
  <2>3. Q[Len(Q)] = P[Len(P)]
    <3>1. Len(Q) \in 1 .. Len(Q) /\ ~(Len(Q) < n) /\ Len(Q) + 1 = Len(P)
      BY <1>1, <1>5, <1>6, <1>11
    <3>. QED BY <1>6, <3>1
  <2>4. \A m \in 1 .. n - 1 : m \in 1 .. Len(P) /\ Q[m] = P[m]
    <3>1. \A m \in 1 .. n - 1 : m \in 1 .. Len(Q) /\ m \in 1 .. Len(P) /\ m < n
      BY <1>1, <1>6
    <3>. QED BY <1>6, <3>1
  <2>5. Behind(Q, op2, ps, n, dd)
    <3>1. ps = "nops" => \A m \in 1 .. n - 1 : op2[Q[m]] # "NOP"
      BY <2>4 DEF Behind
    <3>2. ps = "deadcode" => n > 1 /\ op2[Q[n - 1]] \in Final
      <4>1. n > 1 => n - 1 \in 1 .. n - 1
        BY <1>1
      <4>. QED BY <1>4, <2>4, <4>1
    <3>. QED BY <3>1, <3>2 DEF Behind
  <2>6. ps \in Passes
    BY <1>2 DEF Passes
  <2>7. /\ op2[Q[Len(Q)]] \in Final
        /\ ps \in Early => ~dd /\ op2[Q[Len(Q)]] = "HALT"
    BY <1>2, <2>3
  <2>8. Walk(Q, op2, ps2, i2, dd)
    BY <1>9, <1>10, <2>1, <2>2, <2>5, <2>6, <2>7 DEF Walk
  <2>. QED BY <1>6, <1>7, <1>11, <2>8
<1>12. CASE n = Len(P)
  <2>0. Head(Q) = Q[1]
    BY <1>6 DEF Listed
  <2>1. ps = "deadcode" /\ ps2 = "encode" /\ i2 = Q[1]
    BY <1>2, <1>3, <1>12, <2>0, NextPasses DEF Moves
  <2>2. Len(Q) = n - 1 /\ n - 1 \in 1 .. Len(Q) /\ n - 1 < n /\ 1 \in 1 .. Len(Q)
    BY <1>1, <1>4, <1>6, <1>12, <2>1
  <2>3. op2[Q[Len(Q)]] \in Final
    BY <1>4, <1>6, <2>1, <2>2
  <2>4. Behind(Q, op2, ps2, 1, dd) /\ ps2 \in Passes /\ ps2 \notin Early /\ ps # "nops"
    BY <2>1 DEF Behind, Passes, Early
  <2>5. Walk(Q, op2, ps2, i2, dd)
    BY <1>9, <1>10, <2>1, <2>2, <2>3, <2>4 DEF Walk
  <2>. QED BY <1>6, <1>12, <2>4, <2>5
<1>. QED BY <1>11, <1>12
(***************************************************************************)
(* The inductive invariant of the walks, and one lemma for each action     *)
(***************************************************************************)
ListInv ==
    /\ Listed(program, DOMAIN opcode)
    /\ Shape(DOMAIN opcode, opcode, branch, referrers, entry)
    /\ Links(Range(program), opcode, branch, referrers, entry)
    /\ Walk(program, opcode, pass, ic, dead)

(* The instruction a walk is at, by its place.                             *)
LEMMA Here ==
    ASSUME ListInv
    PROVE  /\ \E n \in 1 .. Len(program) :
                 program[n] = ic /\ Behind(program, opcode, pass, n, dead)
           /\ ic \in Range(program) /\ Range(program) \subseteq DOMAIN opcode
<1>1. PICK n \in 1 .. Len(program) :
          program[n] = ic /\ Behind(program, opcode, pass, n, dead)
  BY DEF ListInv, Walk
<1>2. Listed(program, DOMAIN opcode)
  BY DEF ListInv
<1>. QED BY <1>1, <1>2, ListedFacts

LEMMA WalkOnMoves ==
    ASSUME ListInv, NEW n \in 1 .. Len(program), program[n] = ic, WalkOn,
           NEW Q, Q = program', NEW ps2, ps2 = pass', NEW i2, i2 = ic'
    PROVE  Moves(program, Q, n, pass, ps2, i2)
<1>1. Listed(program, DOMAIN opcode)
  BY DEF ListInv
<1>2. NextOf(ic) = IF n = Len(program) THEN None ELSE program[n + 1]
  BY <1>1, PlaceIs
<1>3. n # Len(program) => program[n + 1] # None
  <2>1. n # Len(program) => n + 1 \in 1 .. Len(program)
    BY <1>1, ListedFacts
  <2>2. \A m \in 1 .. Len(program) : program[m] \in DOMAIN opcode
    BY <1>1, ListedFacts
  <2>3. 0 \notin DOMAIN opcode
    BY DEF ListInv, Shape
  <2>. QED BY <2>1, <2>2, <2>3 DEF None
<1>. QED BY <1>2, <1>3 DEF WalkOn, Moves

LEMMA EliminateNopKeeps ==
    ASSUME ListInv, EliminateNop
    PROVE  ListInv'
<1>1. PICK n \in 1 .. Len(program) :
          program[n] = ic /\ Behind(program, opcode, pass, n, dead)
  BY Here
<1>2. PICK Q, ps2, i2, br2, en2, rf2 :
          /\ Q = program' /\ ps2 = pass' /\ i2 = ic'
          /\ br2 = branch' /\ en2 = entry' /\ rf2 = referrers'
  OBVIOUS
<1>3. PICK D, L : D = DOMAIN opcode /\ L = Range(program)
  OBVIOUS
<1>4. /\ Listed(program, D) /\ Shape(D, opcode, branch, referrers, entry)
      /\ Links(L, opcode, branch, referrers, entry)
      /\ Walk(program, opcode, pass, ic, dead)
      /\ ic \in L /\ L \subseteq D
  BY <1>3, Here DEF ListInv
<1>5. /\ opcode[ic] = "NOP" /\ pass = "nops" /\ WalkOn
      /\ opcode' = opcode /\ dead' = dead
  BY DEF EliminateNop, Visiting
<1>6. Place(ic) = n /\ NextOf(ic) = IF n = Len(program) THEN None ELSE program[n + 1]
  BY <1>1, <1>4, PlaceIs
<1>7. Q = RemoveAt(program, n)
  BY <1>2, <1>6 DEF EliminateNop
<1>8. Moves(program, Q, n, pass, ps2, i2)
  BY <1>1, <1>2, <1>5, WalkOnMoves
<1>9. pass \in DOMAIN NextPass
  BY <1>5, NextPasses DEF Early
<1>10. /\ Listed(Q, D) /\ Range(Q) = L \ {ic}
       /\ n # Len(program) /\ program[n + 1] \in L /\ program[n + 1] # ic
       /\ Walk(Q, opcode, ps2, i2, dead)
  <2>1. opcode[ic] # "HALT" /\ pass # "deadcode"
    BY <1>5
  <2>. QED BY <1>1, <1>3, <1>4, <1>5, <1>7, <1>8, <1>9, <2>1, WalkFrees
<1>11. PICK to \in L : to = program[n + 1] /\ to # ic /\ to = NextOf(ic)
  BY <1>6, <1>10
<1>12. /\ br2 = Led(branch, referrers[ic], to) /\ en2 = Led(entry, referrers[ic], to)
       /\ rf2 = Moved(referrers, ic, to)
  BY <1>2, <1>11 DEF EliminateNop, Rewire, Led, Moved
<1>13. ~Branch(opcode[ic])
  BY <1>5 DEF Branch
<1>14. Shape(D, opcode, br2, rf2, en2) /\ Links(L \ {ic}, opcode, br2, rf2, en2)
  BY <1>4, <1>11, <1>12, <1>13, RewiringKeepsLinks
<1>. QED BY <1>2, <1>3, <1>5, <1>10, <1>14 DEF ListInv

LEMMA OptimizeTailCallKeeps ==
    ASSUME ListInv, OptimizeTailCall
    PROVE  ListInv'
<1>1. PICK n \in 1 .. Len(program) :
          program[n] = ic /\ Behind(program, opcode, pass, n, dead)
  BY Here
<1>2. PICK Q, ps2, i2, rf2, op2 :
          /\ Q = program' /\ ps2 = pass' /\ i2 = ic' /\ rf2 = referrers' /\ op2 = opcode'
  OBVIOUS
<1>3. PICK D, L : D = DOMAIN opcode /\ L = Range(program)
  OBVIOUS
<1>4. /\ Listed(program, D) /\ Shape(D, opcode, branch, referrers, entry)
      /\ Links(L, opcode, branch, referrers, entry)
      /\ Walk(program, opcode, pass, ic, dead)
      /\ ic \in L /\ L \subseteq D
  BY <1>3, Here DEF ListInv
<1>5. /\ opcode[ic] = "RET" /\ referrers[ic] = {} /\ pass = "tailcalls" /\ WalkOn
      /\ PrevOf(ic) # None /\ opcode[PrevOf(ic)] = "CALL"
      /\ branch' = branch /\ entry' = entry /\ dead' = dead
      /\ op2 = [opcode EXCEPT ![PrevOf(ic)] = "GOTO"]
  BY <1>2 DEF OptimizeTailCall, IsTailCall, Visiting
<1>6. Place(ic) = n /\ PrevOf(ic) = IF n = 1 THEN None ELSE program[n - 1]
  BY <1>1, <1>4, PlaceIs
<1>7. Q = RemoveAt(program, n) /\ rf2 = referrers
  BY <1>2, <1>5, <1>6 DEF OptimizeTailCall, Free, IsBranch
<1>8. Moves(program, Q, n, pass, ps2, i2)
  BY <1>1, <1>2, <1>5, WalkOnMoves
<1>9. pass \in DOMAIN NextPass /\ pass \in Early
  BY <1>5, NextPasses DEF Early
<1>10. /\ Len(program) \in Nat
       /\ \A k, m \in 1 .. Len(program) : program[k] = program[m] => k = m
       /\ \A m \in 1 .. Len(program) : program[m] \in L
       /\ opcode[program[Len(program)]] = "HALT"
  BY <1>3, <1>4, <1>9, ListedFacts DEF Walk
<1>11. PICK c \in L : c = PrevOf(ic) /\ opcode[c] = "CALL"
  <2>1. n # 1 => n - 1 \in 1 .. Len(program)
    BY <1>10
  <2>. QED BY <1>5, <1>6, <1>10, <2>1
<1>12. /\ op2 = [opcode EXCEPT ![c] = "GOTO"] /\ c # ic
       /\ \A j \in L : op2[j] = IF j = c THEN "GOTO" ELSE opcode[j]
  <2>1. DOMAIN opcode = D
    BY <1>3
  <2>. QED BY <1>4, <1>5, <1>11, <2>1
<1>13. /\ Listed(Q, D) /\ Range(Q) = L \ {ic} /\ Walk(Q, op2, ps2, i2, dead)
  <2>1. opcode[ic] # "HALT" /\ pass # "deadcode"
    BY <1>5
  <2>2. \A m \in 1 .. Len(program) : opcode[program[m]] # "NOP" => op2[program[m]] # "NOP"
    BY <1>10, <1>12
  <2>3. op2[program[Len(program)]] = opcode[program[Len(program)]]
    <3>1. Len(program) \in 1 .. Len(program)
      BY <1>10
    <3>. QED BY <1>10, <1>11, <1>12, <3>1
  <2>. QED BY <1>1, <1>3, <1>4, <1>7, <1>8, <1>9, <2>1, <2>2, <2>3, WalkFrees
<1>14. "GOTO" \in Opcodes /\ ~Branch("GOTO") /\ ~Branch(opcode[c]) /\ ~Branch(opcode[ic])
  BY <1>5, <1>11 DEF Branch, Opcodes
<1>15. Shape(D, op2, branch, referrers, entry) /\ Links(L, op2, branch, referrers, entry)
  BY <1>4, <1>11, <1>12, <1>14, ReplacingKeepsLinks
<1>16. ~Branch(op2[ic]) /\ referrers[ic] = {}
  BY <1>4, <1>5, <1>12, <1>14
<1>17. /\ Shape(D, op2, branch, rf2, entry)
       /\ Links(L \ {ic}, op2, branch, rf2, entry)
  BY <1>4, <1>7, <1>15, <1>16, FreeingKeepsLinks
<1>18. DOMAIN op2 = D
  BY <1>17 DEF Shape
<1>. QED BY <1>2, <1>5, <1>13, <1>17, <1>18 DEF ListInv
LEMMA ReplaceJumpKeeps ==
    ASSUME ListInv, ReplaceJump
    PROVE  ListInv'
<1>1. PICK n \in 1 .. Len(program) :
          program[n] = ic /\ Behind(program, opcode, pass, n, dead)
  BY Here
<1>2. PICK ps2, i2, rf2, op2 :
          /\ ps2 = pass' /\ i2 = ic' /\ rf2 = referrers' /\ op2 = opcode'
  OBVIOUS
<1>3. PICK D, L : D = DOMAIN opcode /\ L = Range(program)
  OBVIOUS
<1>4. /\ Listed(program, D) /\ Shape(D, opcode, branch, referrers, entry)
      /\ Links(L, opcode, branch, referrers, entry)
      /\ Walk(program, opcode, pass, ic, dead)
      /\ ic \in L /\ L \subseteq D
  BY <1>3, Here DEF ListInv
<1>5. /\ opcode[ic] = "JMP" /\ pass = "jumps" /\ WalkOn
      /\ program' = program /\ branch' = branch /\ entry' = entry /\ dead' = dead
      /\ op2 = [opcode EXCEPT ![ic] = "RET"]
      /\ rf2 = [referrers EXCEPT ![branch[ic]] = @ \ {ic}]
  BY <1>2 DEF ReplaceJump, IsUselessJump, Unwired, Visiting
<1>6. Moves(program, program, n, pass, ps2, i2)
  BY <1>1, <1>2, <1>5, WalkOnMoves
<1>7. pass \in DOMAIN NextPass /\ pass \in Early /\ pass # "deadcode" /\ pass # "nops"
  BY <1>5, NextPasses DEF Early
<1>8. /\ Len(program) \in 1 .. Len(program)
      /\ \A m \in 1 .. Len(program) : program[m] \in L
      /\ opcode[program[Len(program)]] = "HALT" /\ dead \in BOOLEAN
  BY <1>3, <1>4, <1>7, ListedFacts DEF Walk
<1>9. \A j \in L : op2[j] = IF j = ic THEN "RET" ELSE opcode[j]
  BY <1>3, <1>4, <1>5
<1>10. Walk(program, op2, ps2, i2, dead)
  <2>1. \A m \in 1 .. Len(program) : opcode[program[m]] # "NOP" => op2[program[m]] # "NOP"
    BY <1>8, <1>9
  <2>2. op2[program[Len(program)]] = opcode[program[Len(program)]]
    BY <1>5, <1>8, <1>9
  <2>. QED BY <1>1, <1>4, <1>6, <1>7, <1>8, <2>1, <2>2, WalkStays
<1>11. "RET" \in Opcodes /\ ~Branch("RET") /\ Branch(opcode[ic])
  BY <1>5 DEF Branch, Opcodes
<1>12. Shape(D, op2, branch, rf2, entry) /\ Links(L, op2, branch, rf2, entry)
  BY <1>4, <1>5, <1>11, UnwiringKeepsLinks
<1>13. DOMAIN op2 = D
  BY <1>12 DEF Shape
<1>. QED BY <1>2, <1>3, <1>4, <1>5, <1>10, <1>12, <1>13 DEF ListInv

LEMMA PushSmallIntKeeps ==
    ASSUME ListInv, PushSmallInt
    PROVE  ListInv'
<1>1. PICK n \in 1 .. Len(program) :
          program[n] = ic /\ Behind(program, opcode, pass, n, dead)
  BY Here
<1>2. PICK ps2, i2, op2, o :
          ps2 = pass' /\ i2 = ic' /\ op2 = opcode' /\ o = SmallInts[operand[ic].v]
  OBVIOUS
<1>3. PICK D, L : D = DOMAIN opcode /\ L = Range(program)
  OBVIOUS
<1>4. /\ Listed(program, D) /\ Shape(D, opcode, branch, referrers, entry)
      /\ Links(L, opcode, branch, referrers, entry)
      /\ Walk(program, opcode, pass, ic, dead)
      /\ ic \in L /\ L \subseteq D
  BY <1>3, Here DEF ListInv
<1>5. /\ opcode[ic] = "PUSH_VALUE" /\ operand[ic].v \in 0 .. 2
      /\ pass = "smallints" /\ WalkOn
      /\ program' = program /\ branch' = branch /\ entry' = entry /\ dead' = dead
      /\ referrers' = referrers
      /\ op2 = [opcode EXCEPT ![ic] = o]
  BY <1>2 DEF PushSmallInt, IsSmallInt, Visiting
<1>6. Moves(program, program, n, pass, ps2, i2)
  BY <1>1, <1>2, <1>5, WalkOnMoves
<1>7. pass \in DOMAIN NextPass /\ pass \in Early /\ pass # "deadcode" /\ pass # "nops"
  BY <1>5, NextPasses DEF Early
<1>8. /\ Len(program) \in 1 .. Len(program)
      /\ \A m \in 1 .. Len(program) : program[m] \in L
      /\ opcode[program[Len(program)]] = "HALT" /\ dead \in BOOLEAN
  BY <1>3, <1>4, <1>7, ListedFacts DEF Walk
<1>9. \A j \in L : op2[j] = IF j = ic THEN o ELSE opcode[j]
  BY <1>3, <1>4, <1>5
<1>10. o \in {"PUSH_ZERO", "PUSH_ONE", "PUSH_TWO"}
  <2>1. SmallInts[0] = "PUSH_ZERO" /\ SmallInts[1] = "PUSH_ONE" /\ SmallInts[2] = "PUSH_TWO"
    BY DEF SmallInts
  <2>2. operand[ic].v = 0 \/ operand[ic].v = 1 \/ operand[ic].v = 2
    BY <1>5
  <2>. QED BY <1>2, <2>1, <2>2
<1>11. o \in Opcodes /\ ~Branch(o) /\ ~Branch(opcode[ic]) /\ o # "NOP"
  BY <1>5, <1>10 DEF Branch, Opcodes
<1>12. Walk(program, op2, ps2, i2, dead)
  <2>1. \A m \in 1 .. Len(program) : opcode[program[m]] # "NOP" => op2[program[m]] # "NOP"
    BY <1>8, <1>9, <1>11
  <2>2. op2[program[Len(program)]] = opcode[program[Len(program)]]
    BY <1>5, <1>8, <1>9
  <2>. QED BY <1>1, <1>4, <1>6, <1>7, <1>8, <2>1, <2>2, WalkStays
<1>13. Shape(D, op2, branch, referrers, entry) /\ Links(L, op2, branch, referrers, entry)
  BY <1>4, <1>5, <1>11, ReplacingKeepsLinks
<1>14. DOMAIN op2 = D
  BY <1>13 DEF Shape
<1>. QED BY <1>2, <1>3, <1>4, <1>5, <1>12, <1>13, <1>14 DEF ListInv

LEMMA EliminateDeadKeeps ==
    ASSUME ListInv, EliminateDead
    PROVE  ListInv'
<1>1. PICK n \in 1 .. Len(program) :
          program[n] = ic /\ Behind(program, opcode, pass, n, dead)
  BY Here
<1>2. PICK Q, ps2, i2, rf2 :
          Q = program' /\ ps2 = pass' /\ i2 = ic' /\ rf2 = referrers'
  OBVIOUS
<1>3. PICK D, L : D = DOMAIN opcode /\ L = Range(program)
  OBVIOUS
<1>4. /\ Listed(program, D) /\ Shape(D, opcode, branch, referrers, entry)
      /\ Links(L, opcode, branch, referrers, entry)
      /\ Walk(program, opcode, pass, ic, dead)
      /\ ic \in L /\ L \subseteq D
  BY <1>3, Here DEF ListInv
<1>5. /\ dead /\ referrers[ic] = {} /\ pass = "deadcode" /\ WalkOn
      /\ opcode' = opcode /\ branch' = branch /\ entry' = entry /\ dead' = dead
  BY DEF EliminateDead, DeadHere, Visiting
<1>6. Place(ic) = n
  BY <1>1, <1>4, PlaceIs
<1>7. /\ Q = RemoveAt(program, n)
      /\ rf2 = IF Branch(opcode[ic]) THEN [referrers EXCEPT ![branch[ic]] = @ \ {ic}]
                                     ELSE referrers
  BY <1>2, <1>6 DEF EliminateDead, Free, IsBranch, Unwired, Branch
<1>8. Moves(program, Q, n, pass, ps2, i2)
  BY <1>1, <1>2, <1>5, WalkOnMoves
<1>9. pass \in DOMAIN NextPass /\ pass \notin Early /\ pass # "nops"
  BY <1>5, NextPasses DEF Early
<1>10. Listed(Q, D) /\ Range(Q) = L \ {ic} /\ Walk(Q, opcode, ps2, i2, dead)
  <2>1. pass = "deadcode" => opcode = opcode /\ dead
    BY <1>5
  <2>2. pass \in Early => opcode[ic] # "HALT"
    BY <1>9
  <2>3. \A m \in 1 .. Len(program) : opcode[program[m]] # "NOP" => opcode[program[m]] # "NOP"
    OBVIOUS
  <2>4. /\ Listed(Q, D) /\ Range(Q) = Range(program) \ {ic}
        /\ Walk(Q, opcode, ps2, i2, dead)
    BY <1>1, <1>4, <1>7, <1>8, <1>9, <2>1, <2>2, <2>3, WalkFrees
  <2>. QED BY <1>3, <2>4
<1>11. /\ Shape(D, opcode, branch, rf2, entry)
       /\ Links(L \ {ic}, opcode, branch, rf2, entry)
  BY <1>4, <1>5, <1>7, FreeingKeepsLinks
<1>. QED BY <1>2, <1>3, <1>5, <1>10, <1>11 DEF ListInv

LEMMA KeepAliveKeeps ==
    ASSUME ListInv, KeepAlive
    PROVE  ListInv'
<1>1. PICK n \in 1 .. Len(program) :
          program[n] = ic /\ Behind(program, opcode, pass, n, dead)
  BY Here
<1>2. PICK ps2, i2, dd2 : ps2 = pass' /\ i2 = ic' /\ dd2 = dead'
  OBVIOUS
<1>3. /\ Listed(program, DOMAIN opcode) /\ Walk(program, opcode, pass, ic, dead)
  BY DEF ListInv
<1>4. /\ pass = "deadcode" /\ WalkOn
      /\ program' = program /\ opcode' = opcode /\ branch' = branch
      /\ referrers' = referrers /\ entry' = entry
      /\ dd2 = (opcode[ic] \in Final)
  BY <1>2 DEF KeepAlive, NeverGoesOn, Visiting, code, Final
<1>5. Moves(program, program, n, pass, ps2, i2)
  BY <1>1, <1>2, <1>4, WalkOnMoves
<1>6. pass \in DOMAIN NextPass /\ pass # "nops"
  BY <1>4, NextPasses
<1>7. dd2 \in BOOLEAN /\ (dd2 <=> opcode[ic] \in Final)
  <2>1. dd2 = (opcode[ic] \in Final)
    BY <1>4
  <2>2. (opcode[ic] \in Final) \in BOOLEAN
    BY DEF Final
  <2>3. dd2 \in BOOLEAN
    BY <2>1, <2>2, Zenon
  <2>4. dd2 <=> opcode[ic] \in Final
    BY <2>1, Zenon
  <2>. QED BY <2>3, <2>4
<1>8. Walk(program, opcode, ps2, i2, dd2)
  BY <1>1, <1>3, <1>4, <1>5, <1>6, <1>7, WalkStays
<1>. QED BY <1>2, <1>4, <1>8 DEF ListInv

LEMMA PassByKeeps ==
    ASSUME ListInv, PassBy
    PROVE  ListInv'
<1>1. PICK n \in 1 .. Len(program) :
          program[n] = ic /\ Behind(program, opcode, pass, n, dead)
  BY Here
<1>2. PICK ps2, i2 : ps2 = pass' /\ i2 = ic'
  OBVIOUS
<1>3. /\ Listed(program, DOMAIN opcode) /\ Walk(program, opcode, pass, ic, dead)
      /\ dead \in BOOLEAN
  BY DEF ListInv, Walk
<1>4. /\ pass \in Early /\ WalkOn /\ (pass = "nops" => opcode[ic] # "NOP")
      /\ program' = program /\ opcode' = opcode /\ branch' = branch
      /\ referrers' = referrers /\ entry' = entry /\ dead' = dead
  BY DEF PassBy, Visiting, code, Early
<1>5. Moves(program, program, n, pass, ps2, i2)
  BY <1>1, <1>2, <1>4, WalkOnMoves
<1>6. pass \in DOMAIN NextPass /\ pass # "deadcode"
  BY <1>4, NextPasses DEF Early
<1>7. Walk(program, opcode, ps2, i2, dead)
  BY <1>1, <1>3, <1>4, <1>5, <1>6, WalkStays
<1>. QED BY <1>2, <1>4, <1>7 DEF ListInv

LEMMA EncodeKeeps ==
    ASSUME ListInv, Encode
    PROVE  ListInv'
<1>1. /\ pass = "encode" /\ pass' = "done"
      /\ program' = program /\ opcode' = opcode /\ branch' = branch
      /\ referrers' = referrers /\ entry' = entry /\ dead' = dead /\ ic' = ic
  BY DEF Encode, code
<1>2. Walk(program, opcode, "encode", ic, dead)
  BY <1>1 DEF ListInv
<1>3. Walk(program, opcode, "done", ic, dead)
  BY <1>2 DEF Walk, Behind, Passes, Early
<1>. QED BY <1>1, <1>3 DEF ListInv

LEMMA ListInvKept ==
    ListInv /\ [Next]_vars => ListInv'
<1>1. ASSUME ListInv, UNCHANGED vars PROVE ListInv'
  BY <1>1 DEF ListInv, vars, code
<1>. QED BY <1>1, EliminateNopKeeps, ReplaceJumpKeeps, OptimizeTailCallKeeps, PushSmallIntKeeps,
            EliminateDeadKeeps, KeepAliveKeeps, PassByKeeps, EncodeKeeps DEF Next, Done
(***************************************************************************)
(* The list to begin with                                                  *)
(***************************************************************************)
LEMMA MaxIs ==
    ASSUME NEW n \in Nat, NEW S, S \subseteq 1 .. n, S # {}
    PROVE  Max(S) \in S
<1>. DEFINE T == {n - x : x \in S}
<1>1. T \subseteq Nat /\ T # {}
  <2>1. \A x \in S : n - x \in Nat
    OBVIOUS
  <2>. QED BY <2>1
<1>2. PICK m \in T : \A k \in T : m <= k
  <2>. HIDE DEF T
  <2>. QED BY <1>1, LeastNumber
<1>3. PICK x \in S : m = n - x
  BY <1>2
<1>4. \A y \in S : x >= y
  <2>1. ASSUME NEW y \in S PROVE x >= y
    <3>1. m <= n - y
      BY <1>2
    <3>. QED BY <1>3, <3>1
  <2>. QED BY <2>1
<1>. QED BY <1>3, <1>4 DEF Max

LEMMA StartIsInv ==
    ASSUME Init
    PROVE  ListInv
<1>1. PICK g \in Listings : Start(g)
  BY DEF Init
<1>. DEFINE pushes    == {j \in DOMAIN g : IsClosurePush(g[j])}
            closures  == {g[i].arg.v : i \in pushes}
            bodies(k) == {i + 3 : i \in {j \in DOMAIN g : IsClosurePush(g[j]) /\ g[j].arg.v = k}}
<1>2. PICK N \in Nat \ {0} :
          /\ N = Len(g) /\ DOMAIN g = 1 .. N /\ g[N].op = "HALT"
          /\ \A i \in 1 .. N :
                /\ g[i].op \in Opcodes
                /\ g[i].op \in {"JMP", "JZ"} => i + g[i].jump \in 1 .. N /\ g[i].jump # 0
                /\ g[i].op \notin {"JMP", "JZ"} => g[i].jump = 0
                /\ IsClosurePush(g[i]) =>
                      i + 3 \in 1 .. N /\ g[i].arg.v \in Int /\ g[i].arg.v < 0
  <2>1. Listing(g)
    BY ListingAssumption
  <2>2. Len(g) \in Nat \ {0} /\ DOMAIN g = 1 .. Len(g)
    BY <2>1 DEF Listing
  <2>. QED BY <2>1, <2>2 DEF Listing
<1>3. /\ program = [i \in 1 .. N |-> i] /\ opcode = [i \in 1 .. N |-> g[i].op]
      /\ branch = [i \in 1 .. N |-> IF g[i].jump = 0 THEN None ELSE i + g[i].jump]
      /\ pass = "nops" /\ ic = 1 /\ dead = FALSE
  BY <1>1, <1>2 DEF Start
<1>4. referrers = [i \in 1 .. N |->
          {j \in 1 .. N : branch[j] = i} \cup {k \in closures : i \in bodies(k)}]
  BY <1>1, <1>2 DEF Start
<1>5. entry = [k \in closures |-> Max(bodies(k))]
  BY <1>1, <1>2 DEF Start
<1>6. \A k \in closures : k \in Int /\ k < 0
  BY <1>2
<1>7. ASSUME NEW k \in closures PROVE Max(bodies(k)) \in bodies(k) /\ Max(bodies(k)) \in 1 .. N
  <2>1. bodies(k) \subseteq 1 .. N /\ bodies(k) # {}
    BY <1>2
  <2>. HIDE DEF bodies
  <2>. QED BY <1>2, <2>1, MaxIs
<1>. HIDE DEF bodies, closures, pushes
<1>8. /\ Len(program) = N /\ DOMAIN program = 1 .. N /\ \A n \in 1 .. N : program[n] = n
      /\ DOMAIN opcode = 1 .. N /\ Range(program) = 1 .. N
  <2>1. program \in Seq(1 .. N) /\ Len(program) = N
    BY <1>2, <1>3
  <2>. QED BY <1>3, <2>1 DEF Range
<1>9. Listed(program, 1 .. N)
  <2>1. program \in Seq(1 .. N) /\ program # <<>>
    BY <1>2, <1>3
  <2>. QED BY <1>8, <2>1 DEF Listed
<1>10. Shape(1 .. N, opcode, branch, referrers, entry)
  <2>1. opcode \in [1 .. N -> Opcodes]
    BY <1>2, <1>3
  <2>2. DOMAIN branch = 1 .. N /\ DOMAIN referrers = 1 .. N /\ DOMAIN entry = closures
    BY <1>3, <1>4, <1>5
  <2>3. \A i \in 1 .. N : referrers[i] \subseteq Int
    BY <1>2, <1>4, <1>6
  <2>. QED BY <1>2, <1>6, <2>1, <2>2, <2>3 DEF Shape
<1>11. Links(1 .. N, opcode, branch, referrers, entry)
  <2>1. ASSUME NEW i \in 1 .. N, Branch(opcode[i])
        PROVE  branch[i] \in 1 .. N /\ i \in referrers[branch[i]]
    <3>1. branch[i] \in 1 .. N
      BY <1>2, <1>3, <2>1 DEF Branch
    <3>. QED BY <1>4, <3>1
  <2>2. ASSUME NEW i \in 1 .. N, NEW r \in referrers[i], r > 0
        PROVE  r \in 1 .. N /\ Branch(opcode[r]) /\ branch[r] = i
    <3>1. r \in 1 .. N /\ branch[r] = i
      BY <1>4, <1>6, <2>2
    <3>2. g[r].jump # 0
      BY <1>2, <1>3, <3>1 DEF None
    <3>. QED BY <1>2, <1>3, <3>1, <3>2 DEF Branch
  <2>3. ASSUME NEW k \in DOMAIN entry PROVE entry[k] \in 1 .. N /\ k \in referrers[entry[k]]
    BY <1>4, <1>5, <1>7
  <2>. QED BY <2>1, <2>2, <2>3 DEF Links
<1>12. Walk(program, opcode, pass, ic, dead)
  <2>1. opcode[program[Len(program)]] = "HALT"
    BY <1>2, <1>3, <1>8
  <2>2. 1 \in 1 .. Len(program) /\ program[1] = ic
    BY <1>2, <1>3, <1>8
  <2>3. Behind(program, opcode, pass, 1, dead)
    BY <1>3 DEF Behind
  <2>4. "HALT" \in Final /\ pass \in Passes
    BY <1>3 DEF Final, Passes, Early
  <2>. QED BY <1>3, <2>1, <2>2, <2>3, <2>4 DEF Walk
<1>. QED BY <1>8, <1>9, <1>10, <1>11, <1>12 DEF ListInv

THEOREM ListInvariant ==
    Spec => []ListInv
<1>. QED BY StartIsInv, ListInvKept, PTL DEF Spec

(* Before and after every step of every pass, jumps and closures lead to   *)
(* instructions of the list, which know them, and no instruction has a     *)
(* referrer that has been freed or does not lead to it.                    *)
THEOREM LinksAreExact ==
    Spec => []LinksExact
<1>1. ListInv => LinksExact
  <2>1. ASSUME NEW L, L = Range(program), Links(L, opcode, branch, referrers, entry)
        PROVE  LinksExact
    BY <2>1 DEF Links, Branch, LinksExact, IsBranch
  <2>. QED BY <2>1 DEF ListInv
<1>. QED BY <1>1, ListInvariant, PTL

(* Opcodes and operands are known ones, and no walk stands at an           *)
(* instruction that has been freed.                                        *)
THEOREM CodeIsTyped ==
    Spec => []TypeOK
<1>. DEFINE E == \A i \in DOMAIN operand : operand[i].type \in Operands
<1>1. Init => E
  <2>1. ASSUME NEW g \in Listings, Start(g) PROVE E
    <3>1. operand = [i \in DOMAIN g |-> g[i].arg]
      BY <2>1 DEF Start
    <3>2. \A i \in DOMAIN g : g[i].arg.type \in Operands
      BY ListingAssumption DEF Listing
    <3>. QED BY <3>1, <3>2
  <2>. QED BY <2>1 DEF Init
<1>2. E /\ [Next]_vars => E'
  <2>1. [Next]_vars => operand' = operand
    BY DEF Next, vars, Visiting, EliminateNop, ReplaceJump, OptimizeTailCall, PushSmallInt,
           EliminateDead, KeepAlive, PassBy, Encode, Done
  <2>. QED BY <2>1
<1>3. ListInv /\ E => TypeOK
  <2>1. ASSUME ListInv, E PROVE TypeOK
    <3>1. Range(program) \subseteq DOMAIN opcode /\ ic \in Range(program)
      BY <2>1, Here
    <3>2. /\ opcode \in [DOMAIN opcode -> Opcodes]
          /\ DOMAIN branch = DOMAIN opcode /\ DOMAIN referrers = DOMAIN opcode
      BY <2>1 DEF ListInv, Shape
    <3>3. pass \in DOMAIN NextPass \cup {"encode", "done"} /\ dead \in BOOLEAN
      BY <2>1, NextPasses DEF ListInv, Walk, Passes
    <3>. QED BY <2>1, <3>1, <3>2, <3>3 DEF TypeOK
  <2>. QED BY <2>1
<1>. QED BY <1>1, <1>2, <1>3, ListInvariant, PTL DEF Spec
(***************************************************************************)
(* The encoding                                                            *)
(***************************************************************************)

(* Places in the memory of the vm for the places in a list.                *)
Labels(P, op, f) ==
    /\ f \in [1 .. Len(P) -> Nat] /\ f[1] = 0
    /\ \A n \in 1 .. Len(P) : n > 1 => f[n] = f[n - 1] + 1 + OperandSize(op[P[n - 1]])

LEMMA OperandSizeIsNat ==
    \A op : OperandSize(op) \in Nat
BY SizeAssumption DEF OperandSize

LEMMA LabelsAre ==
    ASSUME NEW D, Listed(program, D)
    PROVE  Labels(program, opcode, LabelOf)
<1>1. PICK N \in Nat \ {0} : N = Len(program) /\ DOMAIN program = 1 .. N
  BY ListedFacts
<1>. DEFINE grow(n) == 1 + OperandSize(opcode[program[n - 1]])
            size == [n \in 1 .. N |-> n - 1]
            base == [n \in 1 .. N |-> 0]
            less == [n \in 1 .. N |-> IF n = 1 THEN 1 ELSE n - 1]
            comb == [n \in 1 .. N |-> [v \in Nat |-> v + grow(n)]]
<1>2. \A n : grow(n) \in Nat
  BY OperandSizeIsNat
<1>. HIDE DEF grow
<1>3. /\ size \in [1 .. N -> Nat] /\ base \in [1 .. N -> Nat] /\ less \in [1 .. N -> 1 .. N]
      /\ comb \in [1 .. N -> [Nat -> Nat]]
      /\ \A n \in 1 .. N : size[n] # 0 => size[less[n]] < size[n]
  <2>1. size \in [1 .. N -> Nat] /\ base \in [1 .. N -> Nat]
    OBVIOUS
  <2>2. less \in [1 .. N -> 1 .. N]
    OBVIOUS
  <2>3. comb \in [1 .. N -> [Nat -> Nat]]
    <3>1. ASSUME NEW n \in 1 .. N PROVE [v \in Nat |-> v + grow(n)] \in [Nat -> Nat]
      BY <1>2
    <3>. QED BY <3>1
  <2>4. ASSUME NEW n \in 1 .. N, size[n] # 0 PROVE size[less[n]] < size[n]
    BY <2>4
  <2>. QED BY <2>1, <2>2, <2>3, <2>4
<1>4. PICK f \in [1 .. N -> Nat] : \A n \in 1 .. N : Recurs(f, n, size, base, less, comb)
  <2>. HIDE DEF size, base, less, comb
  <2>. QED BY <1>3, RecursiveFunction
<1>5. ASSUME NEW n \in 1 .. N PROVE f[n] = IF n = 1 THEN 0 ELSE f[n - 1] + grow(n)
  <2>1. f[n] = IF size[n] = 0 THEN base[n] ELSE comb[n][f[less[n]]]
    BY <1>4 DEF Recurs
  <2>2. CASE n = 1
    BY <2>1, <2>2
  <2>3. CASE n # 1
    <3>1. n - 1 \in 1 .. N /\ f[n - 1] \in Nat
      BY <1>4, <2>3
    <3>. QED BY <2>1, <2>3, <3>1
  <2>. QED BY <2>2, <2>3
<1>. HIDE DEF size, base, less, comb
<1>. DEFINE IsIt(h) == h = [n \in DOMAIN program |->
                IF n = 1 THEN 0 ELSE h[n - 1] + 1 + OperandSize(opcode[program[n - 1]])]
<1>6. IsIt(f)
  <2>1. ASSUME NEW n \in 1 .. N
        PROVE  f[n] = IF n = 1 THEN 0
                      ELSE f[n - 1] + 1 + OperandSize(opcode[program[n - 1]])
    <3>1. CASE n = 1
      BY <1>5, <3>1
    <3>2. CASE n # 1
      <4>1. n - 1 \in 1 .. N /\ f[n - 1] \in Nat /\ OperandSize(opcode[program[n - 1]]) \in Nat
        BY <1>4, <3>2, OperandSizeIsNat
      <4>2. f[n] = f[n - 1] + (1 + OperandSize(opcode[program[n - 1]]))
        BY <1>5, <3>2 DEF grow
      <4>. QED BY <3>2, <4>1, <4>2
    <3>. QED BY <3>1, <3>2
  <2>. QED BY <1>1, <1>4, <2>1
<1>7. LabelOf = CHOOSE h : IsIt(h)
  BY DEF LabelOf
<1>8. IsIt(LabelOf)
  <2>. HIDE DEF IsIt
  <2>. QED BY <1>6, <1>7
<1>. DEFINE lb == LabelOf
<1>9. lb = [n \in 1 .. N |->
                IF n = 1 THEN 0 ELSE lb[n - 1] + 1 + OperandSize(opcode[program[n - 1]])]
  BY <1>1, <1>8
<1>. HIDE DEF lb, IsIt
<1>10. \A n \in 1 .. N : lb[n] =
                IF n = 1 THEN 0 ELSE lb[n - 1] + 1 + OperandSize(opcode[program[n - 1]])
  BY <1>9
<1>11. ASSUME NEW n \in 1 .. N PROVE lb[n] \in Nat
  <2>. DEFINE S == {k \in Nat : k + 1 \in 1 .. N => lb[k + 1] \in Nat}
  <2>1. 0 \in S
    BY <1>10
  <2>2. ASSUME NEW k \in Nat, k \in S PROVE k + 1 \in S
    <3>1. ASSUME k + 2 \in 1 .. N PROVE lb[k + 2] \in Nat
      <4>1. k + 1 \in 1 .. N /\ k + 2 - 1 = k + 1 /\ k + 2 # 1
        BY <3>1
      <4>2. lb[k + 2] = lb[k + 1] + 1 + OperandSize(opcode[program[k + 1]])
        BY <1>10, <3>1, <4>1
      <4>3. lb[k + 1] \in Nat /\ OperandSize(opcode[program[k + 1]]) \in Nat
        BY <2>2, <4>1, OperandSizeIsNat
      <4>. QED BY <4>2, <4>3
    <3>2. k + 1 + 1 = k + 2
      OBVIOUS
    <3>. QED BY <3>1, <3>2
  <2>. HIDE DEF S
  <2>3. Nat \subseteq S
    BY <2>1, <2>2, SetInduction
  <2>4. n - 1 \in S /\ n - 1 + 1 = n
    BY <2>3
  <2>. QED BY <2>4 DEF S
<1>12. lb \in [1 .. N -> Nat]
  BY <1>9, <1>11
<1>13. Labels(program, opcode, lb)
  <2>1. 1 \in 1 .. N
    BY <1>1
  <2>. QED BY <1>1, <1>10, <1>12, <2>1 DEF Labels
<1>. QED BY <1>13 DEF lb

(* Labels grow along the list.                                             *)
LEMMA LabelsDiffer ==
    ASSUME NEW D, NEW P, Listed(P, D), NEW op, NEW f, Labels(P, op, f),
           NEW m \in 1 .. Len(P), NEW n \in 1 .. Len(P), f[m] = f[n]
    PROVE  m = n
<1>1. PICK N \in Nat : N = Len(P)
  BY ListedFacts
<1>2. /\ f \in [1 .. N -> Nat]
      /\ \A a \in 1 .. N : a > 1 => f[a] = f[a - 1] + 1 + OperandSize(op[P[a - 1]])
  BY <1>1 DEF Labels
<1>. DEFINE S == {k \in Nat : \A a \in 1 .. N : a + k + 1 \in 1 .. N => f[a] < f[a + k + 1]}
<1>3. ASSUME NEW a \in 1 .. N, a + 1 \in 1 .. N PROVE f[a] < f[a + 1]
  <2>1. a + 1 > 1 /\ a + 1 - 1 = a
    OBVIOUS
  <2>2. f[a + 1] = f[a] + 1 + OperandSize(op[P[a]])
    BY <1>2, <1>3, <2>1
  <2>. QED BY <1>2, <2>2, OperandSizeIsNat
<1>4. 0 \in S
  <2>1. \A a \in 1 .. N : a + 0 + 1 = a + 1
    OBVIOUS
  <2>. QED BY <1>3, <2>1
<1>5. ASSUME NEW k \in Nat, k \in S PROVE k + 1 \in S
  <2>1. ASSUME NEW a \in 1 .. N, a + (k + 1) + 1 \in 1 .. N PROVE f[a] < f[a + (k + 1) + 1]
    <3>1. PICK b \in 1 .. N : b = a + k + 1 /\ b + 1 = a + (k + 1) + 1
      BY <2>1
    <3>2. f[a] < f[b] /\ f[b] < f[b + 1]
      BY <1>3, <1>5, <2>1, <3>1
    <3>3. f[a] \in Nat /\ f[b] \in Nat /\ f[b + 1] \in Nat
      BY <1>2, <2>1, <3>1
    <3>4. f[a] < f[b + 1]
      BY <3>2, <3>3
    <3>. QED BY <3>1, <3>4
  <2>. QED BY <2>1
<1>. HIDE DEF S
<1>6. Nat \subseteq S
  BY <1>4, <1>5, SetInduction
<1>7. ASSUME NEW a \in 1 .. N, NEW b \in 1 .. N, a < b PROVE f[a] # f[b]
  <2>1. b - a - 1 \in S /\ a + (b - a - 1) + 1 = b
    BY <1>6, <1>7
  <2>2. f[a] < f[b]
    BY <2>1 DEF S
  <2>. QED BY <1>2, <2>2
<1>. QED BY <1>1, <1>7

(* vm_run skips what the encoder has written, after all but a jump.        *)
LEMMA SizesAgree ==
    ASSUME NEW op \in Opcodes, op # "JMP"
    PROVE  OperandSize(op) = VmSkip(op)
<1>1. CASE op = "PUSH_VALUE"
  BY <1>1 DEF OperandSize, VmSkip
<1>2. CASE op \in {"PUSH_LOCAL", "POP_LOCAL", "COW_LOCAL", "INIT_LOCAL"}
  BY <1>2 DEF OperandSize, VmSkip
<1>3. CASE op \in {"JZ", "EXTERNAL"}
  BY <1>3 DEF OperandSize, VmSkip
<1>4. CASE op \notin {"PUSH_VALUE", "PUSH_LOCAL", "POP_LOCAL", "COW_LOCAL", "INIT_LOCAL",
                      "JZ", "EXTERNAL"}
  <2>1. OperandSize(op) = 0
    BY <1>4 DEF OperandSize
  <2>2. VmSkip(op) = 0
    BY <1>4 DEF VmSkip
  <2>. QED BY <2>1, <2>2
<1>. QED BY <1>1, <1>2, <1>3, <1>4

(* What the encoder has written is the list P.                             *)
Written(P, op, arg, br, lb, mem) ==
    /\ lb[P[1]] = 0
    /\ \A n \in 1 .. Len(P) :
        /\ lb[P[n]] \in DOMAIN mem
        /\ mem[lb[P[n]]].op = op[P[n]] /\ op[P[n]] # "NOP"
        /\ mem[lb[P[n]]].arg = Stored(arg[P[n]])
        /\ Branch(op[P[n]]) => mem[lb[P[n]]].target = lb[br[P[n]]]
        /\ op[P[n]] \notin Final =>
               n # Len(P) /\ lb[P[n + 1]] = lb[P[n]] + 1 + VmSkip(op[P[n]])
LEMMA EncodeWrites ==
    ASSUME ListInv, Encode
    PROVE  Written(program, opcode, operand, branch, label', memory')
<1>. DEFINE at == [i \in Range(program) |-> LabelOf[Place(i)]]
            who(l) == CHOOSE j \in Range(program) : at[j] = l
<1>1. /\ Listed(program, DOMAIN opcode) /\ DOMAIN opcode \subseteq Nat \ {0}
      /\ opcode \in [DOMAIN opcode -> Opcodes]
      /\ \A i \in Range(program) : Branch(opcode[i]) => branch[i] \in Range(program)
      /\ opcode[program[Len(program)]] \in Final
      /\ \A n \in 1 .. Len(program) : opcode[program[n]] # "NOP"
  BY DEF ListInv, Shape, Links, Walk, Encode
<1>2. PICK N \in Nat \ {0} :
          /\ N = Len(program)
          /\ \A n \in 1 .. N : program[n] \in Range(program) /\ program[n] \in DOMAIN opcode
          /\ \A i : i \in Range(program) <=> \E n \in 1 .. N : program[n] = i
  BY <1>1, ListedFacts
<1>3. Labels(program, opcode, LabelOf)
  BY <1>1, LabelsAre
<1>4. \A n \in 1 .. N : at[program[n]] = LabelOf[n]
  BY <1>1, <1>2, PlaceIs
<1>5. label' = at
  BY DEF Encode
<1>6. memory' = [l \in Range(at) |->
           LET i == CHOOSE j \in Range(program) : at[j] = l
           IN  [op |-> opcode[i],
                arg |-> Stored(operand[i]),
                target |-> IF IsBranch(i) THEN at[branch[i]] ELSE None]]
  BY DEF Encode
<1>7. PICK mem : mem = memory'
  OBVIOUS
<1>8. DOMAIN at = Range(program)
  OBVIOUS
<1>9. \A n \in 1 .. N : at[program[n]] \in Range(at)
  BY <1>2, <1>8 DEF Range
<1>. HIDE DEF at
<1>10. ASSUME NEW n \in 1 .. N PROVE who(at[program[n]]) = program[n]
  <2>1. \E j \in Range(program) : at[j] = at[program[n]]
    BY <1>2
  <2>2. PICK j : j = who(at[program[n]])
    OBVIOUS
  <2>3. j \in Range(program) /\ at[j] = at[program[n]]
    BY <2>1, <2>2
  <2>4. PICK m \in 1 .. N : program[m] = j
    BY <1>2, <2>3
  <2>5. LabelOf[m] = LabelOf[n]
    BY <1>4, <2>3, <2>4
  <2>6. m = n
    BY <1>1, <1>2, <1>3, <2>5, LabelsDiffer
  <2>. QED BY <2>2, <2>4, <2>6
<1>11. mem = [l \in Range(at) |->
            [op |-> opcode[who(l)],
             arg |-> Stored(operand[who(l)]),
             target |-> IF IsBranch(who(l)) THEN at[branch[who(l)]] ELSE None]]
  BY <1>6, <1>7
<1>. HIDE DEF who
<1>12. ASSUME NEW n \in 1 .. N
       PROVE  /\ at[program[n]] \in DOMAIN mem
              /\ mem[at[program[n]]] =
                     [op |-> opcode[program[n]], arg |-> Stored(operand[program[n]]),
                      target |-> IF IsBranch(program[n]) THEN at[branch[program[n]]] ELSE None]
  BY <1>9, <1>10, <1>11
<1>13. ASSUME NEW n \in 1 .. N, opcode[program[n]] \notin Final
       PROVE  /\ n # N
              /\ at[program[n + 1]] = at[program[n]] + 1 + VmSkip(opcode[program[n]])
  <2>1. n # N
    BY <1>1, <1>2, <1>13
  <2>2. n + 1 \in 1 .. N /\ n + 1 > 1 /\ n + 1 - 1 = n
    BY <2>1
  <2>3. LabelOf[n + 1] = LabelOf[n] + 1 + OperandSize(opcode[program[n]])
    <3>1. \A m \in 1 .. N : m > 1 =>
              LabelOf[m] = LabelOf[m - 1] + 1 + OperandSize(opcode[program[m - 1]])
      BY <1>2, <1>3 DEF Labels
    <3>2. PICK m \in 1 .. N : m = n + 1 /\ m > 1 /\ m - 1 = n
      BY <2>2
    <3>3. LabelOf[m] = LabelOf[m - 1] + 1 + OperandSize(opcode[program[m - 1]])
      BY <3>1, <3>2
    <3>. QED BY <3>2, <3>3
  <2>4. opcode[program[n]] \in Opcodes /\ opcode[program[n]] # "JMP"
    BY <1>1, <1>2, <1>13 DEF Final
  <2>5. OperandSize(opcode[program[n]]) = VmSkip(opcode[program[n]])
    BY <2>4, SizesAgree
  <2>. QED BY <1>4, <2>1, <2>2, <2>3, <2>5
<1>14. ASSUME NEW n \in 1 .. N, Branch(opcode[program[n]])
       PROVE  IsBranch(program[n])
  BY <1>14 DEF Branch, IsBranch
<1>15. Written(program, opcode, operand, branch, at, mem)
  <2>1. ASSUME NEW n \in 1 .. N
        PROVE  /\ at[program[n]] \in DOMAIN mem
               /\ mem[at[program[n]]].op = opcode[program[n]]
               /\ mem[at[program[n]]].arg = Stored(operand[program[n]])
               /\ Branch(opcode[program[n]]) => mem[at[program[n]]].target = at[branch[program[n]]]
    <3>1. PICK t : t = IF IsBranch(program[n]) THEN at[branch[program[n]]] ELSE None
      OBVIOUS
    <3>2. mem[at[program[n]]] =
              [op |-> opcode[program[n]], arg |-> Stored(operand[program[n]]), target |-> t]
      BY <1>12, <3>1
    <3>3. Branch(opcode[program[n]]) => t = at[branch[program[n]]]
      BY <1>14, <3>1
    <3>4. PICK l : l = at[program[n]]
      OBVIOUS
    <3>5. mem[l] = [op |-> opcode[program[n]], arg |-> Stored(operand[program[n]]), target |-> t]
      BY <3>2, <3>4
    <3>6. /\ mem[l].op = opcode[program[n]] /\ mem[l].arg = Stored(operand[program[n]])
          /\ mem[l].target = t
      BY <3>5
    <3>. QED BY <1>12, <3>3, <3>4, <3>6
  <2>2. \A n \in 1 .. N : opcode[program[n]] # "NOP"
    BY <1>1, <1>2
  <2>3. at[program[1]] = 0
    BY <1>3, <1>4 DEF Labels
  <2>. QED BY <1>2, <1>13, <2>1, <2>2, <2>3 DEF Written
<1>. QED BY <1>5, <1>7, <1>15

(* The list is encoded only once and nothing changes after that.           *)
WrittenInv == pass = "done" => Written(program, opcode, operand, branch, label, memory)

LEMMA WrittenInvKept ==
    ListInv /\ WrittenInv /\ [Next]_vars => WrittenInv'
<1>1. ASSUME ListInv, Encode PROVE WrittenInv'
  <2>1. PICK lb, mem : lb = label' /\ mem = memory'
    OBVIOUS
  <2>2. Written(program, opcode, operand, branch, lb, mem)
    BY <1>1, <2>1, EncodeWrites
  <2>3. /\ program' = program /\ opcode' = opcode /\ branch' = branch /\ operand' = operand
    BY <1>1 DEF Encode, code
  <2>. QED BY <2>1, <2>2, <2>3 DEF WrittenInv
<1>2. ASSUME WrittenInv, UNCHANGED vars PROVE WrittenInv'
  BY <1>2 DEF WrittenInv, vars, code
<1>3. ASSUME NEW p \in DOMAIN NextPass, Visiting(p) PROVE WrittenInv'
  <2>1. pass' = p \/ pass' = NextPass[p]
    BY <1>3 DEF Visiting, WalkOn
  <2>2. p # "done" /\ NextPass[p] # "done"
    BY NextPasses DEF Early
  <2>. QED BY <2>1, <2>2 DEF WrittenInv
<1>4. ASSUME PassBy PROVE pass \in DOMAIN NextPass /\ Visiting(pass)
  BY <1>4, NextPasses DEF PassBy, Early
<1>5. {"nops", "jumps", "tailcalls", "smallints", "deadcode"} \subseteq DOMAIN NextPass
  BY NextPasses DEF Early
<1>6. ASSUME EliminateNop \/ ReplaceJump \/ OptimizeTailCall \/ PushSmallInt
             \/ EliminateDead \/ KeepAlive
      PROVE  \E p \in DOMAIN NextPass : Visiting(p)
  BY <1>5, <1>6 DEF EliminateNop, ReplaceJump, OptimizeTailCall, PushSmallInt,
                    EliminateDead, KeepAlive
<1>. QED BY <1>1, <1>2, <1>3, <1>4, <1>6 DEF Next, Done

LEMMA WrittenInvariant ==
    Spec => []WrittenInv
<1>1. Init => WrittenInv
  BY DEF Init, Start, WrittenInv
<1>. QED BY <1>1, ListInvariant, WrittenInvKept, PTL DEF Spec

(* What iprogram_gen writes is the list, as vm_run reads it: the           *)
(* instructions at their labels, jumps to labels, one instruction behind   *)
(* the other, no NOP, and an end to it.                                    *)
THEOREM EncodingIsFaithful ==
    Spec => []BytecodeIsTheList
<1>2. ListInv /\ WrittenInv => BytecodeIsTheList
  <2>1. ASSUME ListInv, WrittenInv, pass = "done", NEW i \in Range(program)
        PROVE  /\ label[i] \in DOMAIN memory
               /\ memory[label[i]].op = opcode[i] /\ opcode[i] # "NOP"
               /\ memory[label[i]].arg = Stored(operand[i])
               /\ IsBranch(i) => memory[label[i]].target = label[branch[i]]
               /\ ~NeverGoesOn(i) => /\ NextOf(i) # None
                                     /\ label[NextOf(i)] = label[i] + 1 + VmSkip(opcode[i])
    <3>1. Listed(program, DOMAIN opcode) /\ DOMAIN opcode \subseteq Nat \ {0}
      BY <2>1 DEF ListInv, Shape
    <3>2. PICK n \in 1 .. Len(program) : program[n] = i
      BY <3>1, ListedFacts
    <3>3. /\ label[i] \in DOMAIN memory
          /\ memory[label[i]].op = opcode[i] /\ opcode[i] # "NOP"
          /\ memory[label[i]].arg = Stored(operand[i])
          /\ Branch(opcode[i]) => memory[label[i]].target = label[branch[i]]
          /\ opcode[i] \notin Final =>
               n # Len(program) /\ label[program[n + 1]] = label[i] + 1 + VmSkip(opcode[i])
      BY <2>1, <3>2 DEF WrittenInv, Written
    <3>4. ASSUME n # Len(program) PROVE NextOf(i) = program[n + 1] /\ NextOf(i) # None
      <4>1. n + 1 \in 1 .. Len(program)
        BY <3>1, <3>4, ListedFacts
      <4>2. program[n + 1] \in DOMAIN opcode
        BY <3>1, <4>1, ListedFacts
      <4>3. NextOf(i) = program[n + 1]
        BY <3>1, <3>2, <3>4, PlaceIs
      <4>. QED BY <3>1, <4>2, <4>3 DEF None
    <3>. QED BY <3>3, <3>4 DEF IsBranch, Branch, NeverGoesOn, Final
  <2>2. ASSUME ListInv, WrittenInv, pass = "done" PROVE label[Head(program)] = 0
    <3>1. Head(program) = program[1]
      BY <2>2 DEF ListInv, Listed
    <3>. QED BY <2>2, <3>1 DEF WrittenInv, Written
  <2>. QED BY <2>1, <2>2 DEF BytecodeIsTheList
<1>. QED BY <1>2, ListInvariant, WrittenInvariant, PTL

(***************************************************************************)
(* What the program means                                                  *)
(***************************************************************************)

(* The flow of the list P, place by place.                                 *)
FlowIs(F, P, op, arg, br) ==
    /\ DOMAIN F = Range(P)
    /\ \A n \in 1 .. Len(P) :
          /\ F[P[n]].op = op[P[n]] /\ F[P[n]].arg = arg[P[n]] /\ F[P[n]].branch = br[P[n]]
          /\ F[P[n]].next = IF n = Len(P) THEN None ELSE P[n + 1]

(* Small integers are what they are called, for all their operands.        *)
ArgsInv ==
    /\ DOMAIN operand = DOMAIN opcode
    /\ \A i \in DOMAIN operand : operand[i].type = "integer" => operand[i] = Integer(operand[i].v)

LEMMA FlowOfList ==
    ListInv => FlowIs(ListFlow, program, opcode, operand, branch)
<1>. SUFFICES ASSUME ListInv PROVE FlowIs(ListFlow, program, opcode, operand, branch)
  OBVIOUS
<1>1. Listed(program, DOMAIN opcode)
  BY DEF ListInv
<1>2. \A n \in 1 .. Len(program) : program[n] \in Range(program)
  BY <1>1, ListedFacts
<1>3. PICK F : F = ListFlow
  OBVIOUS
<1>4. F = [i \in Range(program) |->
           [op |-> opcode[i], arg |-> operand[i], next |-> NextOf(i), branch |-> branch[i]]]
  BY <1>3 DEF ListFlow
<1>5. ASSUME NEW n \in 1 .. Len(program)
      PROVE  /\ F[program[n]].op = opcode[program[n]] /\ F[program[n]].arg = operand[program[n]]
             /\ F[program[n]].branch = branch[program[n]]
             /\ F[program[n]].next = IF n = Len(program) THEN None ELSE program[n + 1]
  <2>1. PICK i : i = program[n] /\ i \in Range(program)
    BY <1>2
  <2>2. NextOf(i) = IF n = Len(program) THEN None ELSE program[n + 1]
    BY <1>1, <2>1, PlaceIs
  <2>3. F[i] = [op |-> opcode[i], arg |-> operand[i], next |-> NextOf(i), branch |-> branch[i]]
    BY <1>4, <2>1
  <2>4. /\ F[i].op = opcode[i] /\ F[i].arg = operand[i]
        /\ F[i].next = NextOf(i) /\ F[i].branch = branch[i]
    BY <2>3
  <2>. QED BY <2>1, <2>2, <2>4
<1>6. DOMAIN F = Range(program)
  BY <1>4
<1>. QED BY <1>3, <1>5, <1>6 DEF FlowIs

(* An instruction that does and jumps as it did.                           *)
LEMMA EffectsAlike ==
    ASSUME NEW x, NEW y, x.op = y.op, x.arg = y.arg
    PROVE  Effects(x) = Effects(y)
BY DEF Effects

LEMMA SameInstruction ==
    ASSUME NEW F, NEW G, NEW i, F[i].op = G[i].op, F[i].arg = G[i].arg,
           G[i].op \notin Final => Leads(F, G, F[i].next, G[i].next),
           Branch(G[i].op) => Leads(F, G, F[i].branch, G[i].branch)
    PROVE  DoesTheSame(F, G, i)
<1>1. Effects(G[i]) = Effects(F[i])
  BY EffectsAlike
<1>. QED BY <1>1 DEF DoesTheSame, Branch

(* What goes on, in the list and out of it.                                *)
Kept(F, G, h, h2, en, B, B2) ==
    /\ DOMAIN G \subseteq DOMAIN F /\ \A i \in DOMAIN G : DoesTheSame(F, G, i)
    /\ Leads(F, G, h, h2)
    /\ \A k \in DOMAIN en : \A j \in DOMAIN G : k \in B2[j] =>
          \E i \in DOMAIN F : k \in B[i] /\ Leads(F, G, i, j)

LEMMA KeptIsStep ==
    ASSUME NEW F, NEW G, F = ListFlow, G = ListFlow', NEW rf2, rf2 = referrers',
           NEW h2, h2 = Head(program'),
           Kept(F, G, Head(program), h2, entry, referrers, rf2)
    PROVE  StepKeepsMeaning
<1>1. DOMAIN F = Range(program)
  BY DEF ListFlow
<1>2. DOMAIN G = Range(program')
  BY DEF ListFlow
<1>3. ASSUME NEW k \in DOMAIN entry, NEW j \in BodiesOf(k)'
      PROVE  \E i \in BodiesOf(k) : Leads(F, G, i, j)
  <2>1. j \in DOMAIN G /\ k \in rf2[j]
    BY <1>2, <1>3 DEF BodiesOf
  <2>2. PICK i \in DOMAIN F : k \in referrers[i] /\ Leads(F, G, i, j)
    BY <2>1 DEF Kept
  <2>. QED BY <1>1, <2>2 DEF BodiesOf
<1>. QED BY <1>3 DEF Kept, StepKeepsMeaning

(* A step that leaves the list as it is, and each instruction where it was. *)
LEMMA Untouched ==
    ASSUME NEW F, NEW P, NEW D, NEW op, NEW arg, NEW br, NEW rf, NEW en,
           Listed(P, D), FlowIs(F, P, op, arg, br), Links(Range(P), op, br, rf, en),
           op[P[Len(P)]] \in Final, NEW i \in Range(P)
    PROVE  /\ op[i] \notin Final => F[i].next \in Range(P)
           /\ Branch(op[i]) => F[i].branch \in Range(P)
           /\ F[i].op = op[i] /\ F[i].arg = arg[i] /\ F[i].branch = br[i]
<1>1. /\ Len(P) \in Nat /\ \A n \in 1 .. Len(P) : P[n] \in Range(P)
  BY ListedFacts
<1>2. PICK n \in 1 .. Len(P) : P[n] = i
  BY ListedFacts
<1>3. /\ F[i].op = op[i] /\ F[i].arg = arg[i] /\ F[i].branch = br[i]
      /\ F[i].next = IF n = Len(P) THEN None ELSE P[n + 1]
  BY <1>2 DEF FlowIs
<1>4. op[i] \notin Final => F[i].next \in Range(P)
  <2>1. n # Len(P) => n + 1 \in 1 .. Len(P)
    BY <1>1
  <2>. QED BY <1>1, <1>2, <1>3, <2>1
<1>. QED BY <1>3, <1>4 DEF Links

LEMMA UnchangedMeans ==
    ASSUME NEW F, NEW P, NEW D, NEW op, NEW arg, NEW br, NEW rf, NEW en,
           Listed(P, D), FlowIs(F, P, op, arg, br), Links(Range(P), op, br, rf, en),
           op[P[Len(P)]] \in Final
    PROVE  Kept(F, F, Head(P), Head(P), en, rf, rf)
<1>1. DOMAIN F = Range(P)
  BY DEF FlowIs
<1>2. \A i \in DOMAIN F : Leads(F, F, i, i)
  BY DEF Leads
<1>3. \A i \in DOMAIN F : DoesTheSame(F, F, i)
  <2>1. ASSUME NEW i \in DOMAIN F PROVE DoesTheSame(F, F, i)
    <3>1. /\ op[i] \notin Final => F[i].next \in DOMAIN F
          /\ Branch(op[i]) => F[i].branch \in DOMAIN F
          /\ F[i].op = op[i]
      BY <1>1, Untouched
    <3>. QED BY <1>2, <3>1, SameInstruction
  <2>. QED BY <2>1
<1>4. Head(P) \in DOMAIN F
  BY <1>1, ListedFacts DEF Listed
<1>. QED BY <1>2, <1>3, <1>4 DEF Kept
(* One instruction becomes another.                                        *)
LEMMA ReplacingMeans ==
    ASSUME NEW F, NEW G, NEW P, NEW D, NEW op, NEW op2, NEW arg, NEW br, NEW rf, NEW rf2, NEW en,
           Listed(P, D), Links(Range(P), op, br, rf, en), op[P[Len(P)]] \in Final,
           FlowIs(F, P, op, arg, br), FlowIs(G, P, op2, arg, br),
           NEW c, \A j \in Range(P) : j # c => op2[j] = op[j],
           DoesTheSame(F, G, c), \A j \in Range(P) : rf2[j] \subseteq rf[j]
    PROVE  Kept(F, G, Head(P), Head(P), en, rf, rf2)
<1>1. DOMAIN F = Range(P) /\ DOMAIN G = Range(P)
  BY DEF FlowIs
<1>2. \A i \in Range(P) : Leads(F, G, i, i)
  BY <1>1 DEF Leads
<1>3. ASSUME NEW i \in Range(P), i # c PROVE DoesTheSame(F, G, i)
  <2>1. /\ op[i] \notin Final => F[i].next \in Range(P)
        /\ Branch(op[i]) => F[i].branch \in Range(P)
        /\ F[i].op = op[i] /\ F[i].arg = arg[i] /\ F[i].branch = br[i]
    BY Untouched
  <2>2. PICK n \in 1 .. Len(P) : P[n] = i
    BY ListedFacts
  <2>3. /\ G[i].op = op2[i] /\ G[i].arg = arg[i] /\ G[i].branch = br[i] /\ G[i].next = F[i].next
    BY <2>2 DEF FlowIs
  <2>4. op2[i] = op[i]
    BY <1>3
  <2>. QED BY <1>2, <2>1, <2>3, <2>4, SameInstruction
<1>4. Head(P) \in DOMAIN F
  BY <1>1, ListedFacts DEF Listed
<1>. QED BY <1>1, <1>2, <1>3, <1>4 DEF Kept

(* An instruction that nothing leads to is freed.                          *)
LEMMA FreeingMeans ==
    ASSUME NEW F, NEW G, NEW P, NEW D, NEW op, NEW op2, NEW arg, NEW br, NEW rf, NEW rf2, NEW en,
           Listed(P, D), Links(Range(P), op, br, rf, en), op[P[Len(P)]] \in Final,
           NEW n \in 1 .. Len(P), n > 1, rf[P[n]] = {}, NEW Q, Q = RemoveAt(P, n),
           FlowIs(F, P, op, arg, br), FlowIs(G, Q, op2, arg, br),
           \A j \in Range(P) : j # P[n - 1] => op2[j] = op[j],
           DoesTheSame(F, G, P[n - 1]), \A j \in Range(P) : rf2[j] \subseteq rf[j]
    PROVE  Kept(F, G, Head(P), Head(Q), en, rf, rf2)
<1>0. /\ Len(P) \in Nat /\ \A m \in 1 .. Len(P) : P[m] \in Range(P)
      /\ \A k, m \in 1 .. Len(P) : P[k] = P[m] => k = m
  BY ListedFacts
<1>1. /\ Listed(Q, D) /\ Len(Q) = Len(P) - 1 /\ Range(Q) = Range(P) \ {P[n]}
      /\ \A m \in 1 .. Len(Q) : Q[m] = IF m < n THEN P[m] ELSE P[m + 1]
  <2>1. Len(P) > 1
    BY <1>0
  <2>. QED BY <2>1, RemovedFacts
<1>2. DOMAIN F = Range(P) /\ DOMAIN G = Range(P) \ {P[n]}
  BY <1>1 DEF FlowIs
<1>3. \A i \in Range(Q) : Leads(F, G, i, i)
  BY <1>1, <1>2 DEF Leads
<1>4. ASSUME NEW i \in Range(Q), i # P[n - 1] PROVE DoesTheSame(F, G, i)
  <2>1. /\ op[i] \notin Final => F[i].next \in Range(P)
        /\ Branch(op[i]) => F[i].branch \in Range(P)
        /\ F[i].op = op[i] /\ F[i].arg = arg[i] /\ F[i].branch = br[i]
        /\ op2[i] = op[i]
    BY <1>1, <1>4, Untouched
  <2>2. PICK m \in 1 .. Len(Q) : Q[m] = i
    BY <1>1, ListedFacts
  <2>3. /\ G[i].op = op2[i] /\ G[i].arg = arg[i] /\ G[i].branch = br[i]
        /\ G[i].next = IF m = Len(Q) THEN None ELSE Q[m + 1]
    BY <2>2 DEF FlowIs
  <2>4. PICK l \in 1 .. Len(P) : l = IF m < n THEN m ELSE m + 1
    BY <1>0, <1>1
  <2>5. P[l] = i /\ l # n /\ l # n - 1
    BY <1>0, <1>1, <1>4, <2>2, <2>4
  <2>12. Len(P) \in Nat /\ Len(Q) = Len(P) - 1 /\ m \in 1 .. Len(Q)
    BY <1>0, <1>1
  <2>6. F[i].next = IF l = Len(P) THEN None ELSE P[l + 1]
    BY <2>5 DEF FlowIs
  <2>7. G[i].next = F[i].next
    <3>1. CASE l = Len(P)
      <4>1. m = Len(Q)
        BY <2>12, <2>4, <3>1
      <4>. QED BY <2>3, <2>6, <3>1, <4>1
    <3>2. CASE l # Len(P)
      <4>1. m # Len(Q) /\ m + 1 \in 1 .. Len(Q)
        BY <2>4, <2>5, <2>12, <3>2
      <4>2. Q[m + 1] = P[l + 1]
        <5>1. CASE m < n
          <6>1. m + 1 < n /\ l = m
            BY <2>4, <2>5, <5>1
          <6>. QED BY <1>1, <4>1, <6>1
        <5>2. CASE ~(m < n)
          <6>1. ~(m + 1 < n) /\ l = m + 1
            BY <2>4, <5>2
          <6>2. Q[m + 1] = P[m + 1 + 1]
            BY <1>1, <4>1, <6>1
          <6>. QED BY <6>1, <6>2
        <5>. QED BY <5>1, <5>2
      <4>. QED BY <2>3, <2>6, <3>2, <4>1, <4>2
    <3>. QED BY <3>1, <3>2
  <2>8. F[i].next # P[n] \/ op[i] \in Final
    <3>1. CASE l = Len(P)
      BY <2>5, <3>1
    <3>2. CASE l # Len(P)
      <4>1. l + 1 \in 1 .. Len(P) /\ l + 1 # n
        BY <1>0, <2>5, <3>2
      <4>. QED BY <1>0, <2>6, <3>2, <4>1
    <3>. QED BY <3>1, <3>2
  <2>9. Branch(op[i]) => F[i].branch # P[n]
    <3>1. Branch(op[i]) => i \in rf[br[i]]
      BY <1>1 DEF Links
    <3>. QED BY <2>1, <3>1
  <2>10. op[i] \notin Final => F[i].next \in Range(Q)
    BY <1>1, <2>1, <2>8
  <2>11. Branch(op[i]) => F[i].branch \in Range(Q)
    BY <1>1, <2>1, <2>9
  <2>. QED BY <1>3, <2>1, <2>3, <2>7, <2>10, <2>11, SameInstruction
<1>5. Leads(F, G, Head(P), Head(Q))
  <2>1. Head(P) = P[1] /\ Head(Q) = Q[1]
    BY <1>1 DEF Listed
  <2>2. 1 \in 1 .. Len(Q) /\ 1 < n
    BY <1>0, <1>1
  <2>3. Q[1] = P[1]
    BY <1>1, <2>2
  <2>4. Q[1] \in Range(Q)
    BY <1>1, <2>2, ListedFacts
  <2>. QED BY <1>3, <2>1, <2>3, <2>4
<1>6. \A j \in DOMAIN G : j \in Range(Q) /\ j \in DOMAIN F /\ rf2[j] \subseteq rf[j]
  BY <1>1, <1>2
<1>. QED BY <1>1, <1>2, <1>3, <1>4, <1>5, <1>6 DEF Kept

(* A NOP is freed, and what led to it leads to its successor.              *)
LEMMA RewiringMeans ==
    ASSUME NEW F, NEW G, NEW P, NEW D, NEW op, NEW arg, NEW br, NEW br2, NEW rf, NEW rf2, NEW en,
           Listed(P, D), Links(Range(P), op, br, rf, en), op[P[Len(P)]] \in Final,
           D \subseteq Nat \ {0}, D \subseteq DOMAIN br, D = DOMAIN rf,
           NEW n \in 1 .. Len(P), n # Len(P), op[P[n]] = "NOP", NEW Q, Q = RemoveAt(P, n),
           NEW to, to = P[n + 1], NEW i, i = P[n],
           br2 = Led(br, rf[i], to), rf2 = Moved(rf, i, to),
           FlowIs(F, P, op, arg, br), FlowIs(G, Q, op, arg, br2)
    PROVE  Kept(F, G, Head(P), Head(Q), en, rf, rf2)
<1>0. /\ Len(P) \in Nat /\ \A m \in 1 .. Len(P) : P[m] \in Range(P)
      /\ \A k, m \in 1 .. Len(P) : P[k] = P[m] => k = m
      /\ Range(P) \subseteq D
  BY ListedFacts
<1>1. /\ Listed(Q, D) /\ Len(Q) = Len(P) - 1 /\ Range(Q) = Range(P) \ {i}
      /\ \A m \in 1 .. Len(Q) : Q[m] = IF m < n THEN P[m] ELSE P[m + 1]
  BY <1>0, RemovedFacts
<1>2. DOMAIN F = Range(P) /\ DOMAIN G = Range(Q)
  BY <1>1 DEF FlowIs
<1>3. i \in Range(P) /\ to \in Range(Q) /\ to # i
  <2>1. n + 1 \in 1 .. Len(P) /\ n + 1 # n
    BY <1>0
  <2>. QED BY <1>0, <1>1, <2>1
<1>4. F[i].op = "NOP" /\ F[i].next = to
  BY DEF FlowIs
<1>5. (\A j \in Range(Q) : Leads(F, G, j, j)) /\ Leads(F, G, i, to)
  <2>1. i \in DOMAIN F \ DOMAIN G
    BY <1>1, <1>2, <1>3
  <2>. QED BY <1>2, <1>3, <1>4, <2>1 DEF Leads
<1>6. ASSUME NEW j \in Range(Q) PROVE DoesTheSame(F, G, j)
  <2>1. /\ op[j] \notin Final => F[j].next \in Range(P)
        /\ Branch(op[j]) => F[j].branch \in Range(P)
        /\ F[j].op = op[j] /\ F[j].arg = arg[j] /\ F[j].branch = br[j]
    BY <1>1, Untouched
  <2>2. PICK m \in 1 .. Len(Q) : Q[m] = j
    BY <1>1, ListedFacts
  <2>3. /\ G[j].op = op[j] /\ G[j].arg = arg[j] /\ G[j].branch = br2[j]
        /\ G[j].next = IF m = Len(Q) THEN None ELSE Q[m + 1]
    BY <2>2 DEF FlowIs
  <2>4. PICK l \in 1 .. Len(P) : l = IF m < n THEN m ELSE m + 1
    BY <1>0, <1>1
  <2>5. P[l] = j /\ l # n
    BY <1>0, <1>1, <2>2, <2>4
  <2>6. F[j].next = IF l = Len(P) THEN None ELSE P[l + 1]
    BY <2>5 DEF FlowIs
  <2>7. ASSUME op[j] \notin Final PROVE Leads(F, G, F[j].next, G[j].next)
    <3>0. l # Len(P)
      BY <2>5, <2>7
    <3>1. m # Len(Q) /\ m + 1 \in 1 .. Len(Q) /\ l + 1 \in 1 .. Len(P)
      BY <1>0, <1>1, <2>4, <2>5, <3>0
    <3>2. Q[m + 1] \in Range(Q)
      BY <1>1, <3>1, ListedFacts
    <3>3. CASE l + 1 = n
      <4>1. m + 1 = n /\ ~(m + 1 < n)
        BY <2>4, <3>3
      <4>2. Q[m + 1] = P[n + 1]
        BY <1>1, <3>1, <4>1
      <4>. QED BY <1>5, <2>3, <2>6, <3>0, <3>1, <3>3, <4>2
    <3>4. CASE l + 1 # n
      <4>1. Q[m + 1] = P[l + 1]
        <5>1. CASE m < n
          <6>1. m + 1 < n /\ l = m
            BY <2>4, <2>5, <3>4, <5>1
          <6>. QED BY <1>1, <3>1, <6>1
        <5>2. CASE ~(m < n)
          <6>1. ~(m + 1 < n) /\ l = m + 1
            BY <2>4, <5>2
          <6>2. Q[m + 1] = P[m + 1 + 1]
            BY <1>1, <3>1, <6>1
          <6>. QED BY <6>1, <6>2
        <5>. QED BY <5>1, <5>2
      <4>. QED BY <1>5, <2>3, <2>6, <3>0, <3>1, <3>2, <4>1
    <3>. QED BY <3>3, <3>4
  <2>8. ASSUME Branch(op[j]) PROVE Leads(F, G, F[j].branch, G[j].branch)
    <3>1. j \in rf[br[j]] /\ br[j] \in Range(P)
      BY <1>1, <2>8 DEF Links
    <3>2. j \in DOMAIN br /\ j > 0
      BY <1>0, <1>1
    <3>3. CASE j \in rf[i]
      <4>1. br[j] = i
        BY <1>3, <3>2, <3>3 DEF Links
      <4>2. br2[j] = to
        BY <3>2, <3>3 DEF Led
      <4>. QED BY <1>5, <2>1, <2>3, <4>1, <4>2
    <3>4. CASE j \notin rf[i]
      <4>1. br2[j] = br[j] /\ br[j] # i
        BY <3>1, <3>2, <3>4 DEF Led
      <4>2. br[j] \in Range(Q)
        BY <1>1, <3>1, <4>1
      <4>. QED BY <1>5, <2>1, <2>3, <4>1, <4>2
    <3>. QED BY <3>3, <3>4
  <2>. QED BY <2>1, <2>3, <2>7, <2>8, SameInstruction
<1>7. Leads(F, G, Head(P), Head(Q))
  <2>1. Head(P) = P[1] /\ Head(Q) = Q[1]
    BY <1>1 DEF Listed
  <2>2. 1 \in 1 .. Len(Q)
    BY <1>0, <1>1
  <2>3. Q[1] \in Range(Q)
    BY <1>1, <2>2, ListedFacts
  <2>4. CASE n = 1
    BY <1>1, <1>5, <2>1, <2>2, <2>4
  <2>5. CASE n # 1
    <3>1. Q[1] = P[1]
      BY <1>1, <2>2, <2>5
    <3>. QED BY <1>5, <2>1, <2>3, <3>1
  <2>. QED BY <2>4, <2>5
<1>8. ASSUME NEW k, NEW j \in DOMAIN G, k \in rf2[j]
      PROVE  \E h \in DOMAIN F : k \in rf[h] /\ Leads(F, G, h, j)
  <2>1. j \in Range(Q) /\ j \in DOMAIN F /\ j \in D /\ to \in D /\ i \in D /\ j # i
    BY <1>0, <1>1, <1>2, <1>3
  <2>2. rf2[j] = IF j = to THEN rf[to] \cup rf[i] ELSE rf[j]
    BY <1>3, <2>1 DEF Moved
  <2>3. k \in rf[j] \/ (j = to /\ k \in rf[i])
    BY <1>8, <2>2
  <2>. QED BY <1>2, <1>3, <1>5, <2>1, <2>3
<1>. QED BY <1>1, <1>2, <1>6, <1>7, <1>8 DEF Kept
(***************************************************************************)
(* Each action keeps the meaning                                           *)
(***************************************************************************)
LEMMA EliminateNopMeans ==
    ASSUME ListInv, ListInv', EliminateNop
    PROVE  StepKeepsMeaning
<1>1. PICK n \in 1 .. Len(program) : program[n] = ic
  BY Here
<1>2. PICK F, G, Q, br2, rf2, h2 :
          /\ F = ListFlow /\ G = ListFlow' /\ Q = program' /\ br2 = branch' /\ rf2 = referrers'
          /\ h2 = Head(program')
  OBVIOUS
<1>3. PICK D : D = DOMAIN opcode
  OBVIOUS
<1>4. /\ Listed(program, D) /\ Links(Range(program), opcode, branch, referrers, entry)
      /\ opcode[program[Len(program)]] = "HALT"
      /\ D \subseteq Nat \ {0} /\ DOMAIN branch = D /\ DOMAIN referrers = D
  <2>1. pass \in Early
    BY DEF EliminateNop, Visiting, Early
  <2>. QED BY <1>3, <2>1 DEF ListInv, Shape, Walk
<1>5. opcode[ic] = "NOP" /\ opcode' = opcode /\ operand' = operand
  BY DEF EliminateNop, Visiting
<1>6. Place(ic) = n /\ NextOf(ic) = IF n = Len(program) THEN None ELSE program[n + 1]
  BY <1>1, <1>4, PlaceIs
<1>7. Q = RemoveAt(program, n) /\ n # Len(program)
  BY <1>1, <1>2, <1>4, <1>5, <1>6 DEF EliminateNop
<1>8. PICK to : to = program[n + 1] /\ to = NextOf(ic)
  BY <1>6, <1>7
<1>9. br2 = Led(branch, referrers[ic], to) /\ rf2 = Moved(referrers, ic, to)
  BY <1>2, <1>8 DEF EliminateNop, Rewire, Led, Moved
<1>10. FlowIs(F, program, opcode, operand, branch)
  BY <1>2, FlowOfList
<1>11. FlowIs(G, Q, opcode, operand, br2)
  <2>1. FlowIs(ListFlow, program, opcode, operand, branch)'
    BY FlowOfList, PTL
  <2>. QED BY <1>2, <1>5, <2>1
<1>12. opcode[program[Len(program)]] \in Final
  BY <1>4 DEF Final
<1>13. Kept(F, G, Head(program), Head(Q), entry, referrers, rf2)
  BY <1>1, <1>4, <1>5, <1>7, <1>8, <1>9, <1>10, <1>11, <1>12, RewiringMeans
<1>. QED BY <1>2, <1>13, KeptIsStep

LEMMA ReplaceJumpMeans ==
    ASSUME ListInv, ListInv', ReplaceJump
    PROVE  StepKeepsMeaning
<1>2. PICK F, G, op2, rf2, h2 :
          /\ F = ListFlow /\ G = ListFlow' /\ op2 = opcode' /\ rf2 = referrers'
          /\ h2 = Head(program')
  OBVIOUS
<1>3. PICK D : D = DOMAIN opcode
  OBVIOUS
<1>4. /\ Listed(program, D) /\ Links(Range(program), opcode, branch, referrers, entry)
      /\ opcode[program[Len(program)]] \in Final
      /\ DOMAIN referrers = D /\ ic \in Range(program) /\ ic \in D
  BY <1>3, Here DEF ListInv, Shape, Walk
<1>5. /\ opcode[ic] = "JMP" /\ opcode[branch[ic]] = "RET" /\ operand' = operand
      /\ program' = program /\ branch' = branch
      /\ op2 = [opcode EXCEPT ![ic] = "RET"] /\ rf2 = Unwired(ic)
  BY <1>2 DEF ReplaceJump, IsUselessJump, Visiting
<1>6. FlowIs(F, program, opcode, operand, branch)
  BY <1>2, FlowOfList
<1>7. FlowIs(G, program, op2, operand, branch)
  <2>1. FlowIs(ListFlow, program, opcode, operand, branch)'
    BY FlowOfList, PTL
  <2>. QED BY <1>2, <1>5, <2>1
<1>8. \A j \in Range(program) : op2[j] = IF j = ic THEN "RET" ELSE opcode[j]
  <2>1. Range(program) \subseteq D
    BY <1>4, ListedFacts
  <2>. QED BY <1>3, <1>5, <2>1
<1>9. DoesTheSame(F, G, ic)
  <2>1. F[ic].op = opcode[ic] /\ F[ic].branch = branch[ic]
    BY <1>4, <1>6, Untouched
  <2>2. branch[ic] \in Range(program)
    BY <1>4, <1>5 DEF Links, Branch
  <2>3. F[branch[ic]].op = "RET"
    BY <1>4, <1>5, <1>6, <2>2, Untouched
  <2>4. PICK n \in 1 .. Len(program) : program[n] = ic
    BY <1>4, ListedFacts
  <2>5. G[ic].op = op2[ic]
    BY <1>7, <2>4 DEF FlowIs
  <2>. QED BY <1>4, <1>5, <1>8, <2>1, <2>3, <2>5 DEF DoesTheSame
<1>10. \A j \in Range(program) : rf2[j] \subseteq referrers[j]
  <2>1. rf2 = [referrers EXCEPT ![branch[ic]] = @ \ {ic}]
    BY <1>5 DEF Unwired
  <2>2. Range(program) \subseteq DOMAIN referrers
    BY <1>4, ListedFacts
  <2>. QED BY <2>1, <2>2
<1>11. Kept(F, G, Head(program), Head(program), entry, referrers, rf2)
  BY <1>4, <1>6, <1>7, <1>8, <1>9, <1>10, ReplacingMeans
<1>12. h2 = Head(program)
  BY <1>2, <1>5
<1>. QED BY <1>2, <1>11, <1>12, KeptIsStep

LEMMA PushSmallIntMeans ==
    ASSUME ListInv, ListInv', ArgsInv, PushSmallInt
    PROVE  StepKeepsMeaning
<1>2. PICK F, G, op2, rf2, h2, o :
          /\ F = ListFlow /\ G = ListFlow' /\ op2 = opcode' /\ rf2 = referrers'
          /\ h2 = Head(program') /\ o = SmallInts[operand[ic].v]
  OBVIOUS
<1>3. PICK D : D = DOMAIN opcode
  OBVIOUS
<1>4. /\ Listed(program, D) /\ Links(Range(program), opcode, branch, referrers, entry)
      /\ opcode[program[Len(program)]] \in Final
      /\ ic \in Range(program) /\ ic \in D
  BY <1>3, Here DEF ListInv, Shape, Walk
<1>5. /\ opcode[ic] = "PUSH_VALUE" /\ operand[ic].type = "integer" /\ operand[ic].v \in 0 .. 2
      /\ operand' = operand /\ program' = program /\ branch' = branch /\ referrers' = referrers
      /\ op2 = [opcode EXCEPT ![ic] = o]
  BY <1>2 DEF PushSmallInt, IsSmallInt, Visiting
<1>6. FlowIs(F, program, opcode, operand, branch)
  BY <1>2, FlowOfList
<1>7. FlowIs(G, program, op2, operand, branch)
  <2>1. FlowIs(ListFlow, program, opcode, operand, branch)'
    BY FlowOfList, PTL
  <2>. QED BY <1>2, <1>5, <2>1
<1>8. \A j \in Range(program) : op2[j] = IF j = ic THEN o ELSE opcode[j]
  <2>1. Range(program) \subseteq D
    BY <1>4, ListedFacts
  <2>. QED BY <1>3, <1>5, <2>1
<1>9. DoesTheSame(F, G, ic)
  <2>1. PICK v \in 0 .. 2 : v = operand[ic].v
    BY <1>5
  <2>2. operand[ic] = Integer(v)
    BY <1>3, <1>4, <1>5, <2>1 DEF ArgsInv
  <2>3. PICK n \in 1 .. Len(program) : program[n] = ic
    BY <1>4, ListedFacts
  <2>4. PICK x : x = F[ic]
    OBVIOUS
  <2>5. PICK y : y = G[ic]
    OBVIOUS
  <2>6. /\ x.op = "PUSH_VALUE" /\ x.arg = Integer(v) /\ y.op = o
        /\ y.next = IF n = Len(program) THEN None ELSE program[n + 1]
        /\ x.next = IF n = Len(program) THEN None ELSE program[n + 1]
    BY <1>4, <1>5, <1>6, <1>7, <1>8, <2>2, <2>3, <2>4, <2>5 DEF FlowIs
  <2>7. Effects(x) = <<Does("PUSH_VALUE", Integer(v))>>
    <3>1. Effects(x) = <<Does(x.op, x.arg)>>
      BY <2>6 DEF Effects, WithOperand
    <3>. QED BY <2>6, <3>1
  <2>8. Effects(y) = <<Does("PUSH_VALUE", Integer(v))>> /\ y.op \notin {"JMP", "JZ"}
    <3>1. SmallInts[0] = "PUSH_ZERO" /\ SmallInts[1] = "PUSH_ONE" /\ SmallInts[2] = "PUSH_TWO"
      BY DEF SmallInts
    <3>2. CASE v = 0
      <4>1. y.op = "PUSH_ZERO"
        BY <1>2, <2>1, <2>6, <3>1, <3>2
      <4>. QED BY <3>2, <4>1 DEF Effects, WithOperand
    <3>3. CASE v = 1
      <4>1. y.op = "PUSH_ONE"
        BY <1>2, <2>1, <2>6, <3>1, <3>3
      <4>. QED BY <3>3, <4>1 DEF Effects, WithOperand
    <3>4. CASE v = 2
      <4>1. y.op = "PUSH_TWO"
        BY <1>2, <2>1, <2>6, <3>1, <3>4
      <4>. QED BY <3>4, <4>1 DEF Effects, WithOperand
    <3>. QED BY <3>2, <3>3, <3>4
  <2>9. x.next \in Range(program) /\ DOMAIN G = Range(program)
    <3>1. x.next \in Range(program)
      BY <1>4, <1>5, <1>6, <2>4, Untouched DEF Final
    <3>. QED BY <1>7, <3>1 DEF FlowIs
  <2>10. Leads(F, G, x.next, y.next)
    BY <2>6, <2>9 DEF Leads
  <2>. QED BY <2>4, <2>5, <2>6, <2>7, <2>8, <2>10 DEF DoesTheSame
<1>10. \A j \in Range(program) : rf2[j] \subseteq referrers[j]
  BY <1>2, <1>5
<1>11. Kept(F, G, Head(program), Head(program), entry, referrers, rf2)
  BY <1>4, <1>6, <1>7, <1>8, <1>9, <1>10, ReplacingMeans
<1>12. h2 = Head(program)
  BY <1>2, <1>5
<1>. QED BY <1>2, <1>11, <1>12, KeptIsStep

LEMMA OptimizeTailCallMeans ==
    ASSUME ListInv, ListInv', OptimizeTailCall
    PROVE  StepKeepsMeaning
<1>1. PICK n \in 1 .. Len(program) : program[n] = ic
  BY Here
<1>2. PICK F, G, Q, op2, rf2, h2 :
          /\ F = ListFlow /\ G = ListFlow' /\ Q = program' /\ op2 = opcode' /\ rf2 = referrers'
          /\ h2 = Head(program')
  OBVIOUS
<1>3. PICK D : D = DOMAIN opcode
  OBVIOUS
<1>4. /\ Listed(program, D) /\ Links(Range(program), opcode, branch, referrers, entry)
      /\ opcode[program[Len(program)]] \in Final
  BY <1>3 DEF ListInv, Walk
<1>5. /\ opcode[ic] = "RET" /\ referrers[ic] = {} /\ operand' = operand
      /\ PrevOf(ic) # None /\ opcode[PrevOf(ic)] = "CALL"
      /\ branch' = branch
      /\ op2 = [opcode EXCEPT ![PrevOf(ic)] = "GOTO"]
  BY <1>2 DEF OptimizeTailCall, IsTailCall, Visiting
<1>6. Place(ic) = n /\ PrevOf(ic) = IF n = 1 THEN None ELSE program[n - 1]
  BY <1>1, <1>4, PlaceIs
<1>7. Q = RemoveAt(program, n) /\ rf2 = referrers
  BY <1>2, <1>5, <1>6 DEF OptimizeTailCall, Free, IsBranch
<1>8. /\ Len(program) \in Nat /\ Range(program) \subseteq D
      /\ \A k, m \in 1 .. Len(program) : program[k] = program[m] => k = m
      /\ \A m \in 1 .. Len(program) : program[m] \in Range(program)
  BY <1>4, ListedFacts
<1>9. n > 1 /\ n - 1 \in 1 .. Len(program) /\ n - 1 # n /\ n - 1 # Len(program) /\ n - 1 + 1 = n
  BY <1>5, <1>6, <1>8
<1>10. PICK c : c = program[n - 1] /\ c = PrevOf(ic) /\ c \in Range(program) /\ c \in D /\ c # ic
  BY <1>1, <1>6, <1>8, <1>9
<1>11. /\ opcode[c] = "CALL"
       /\ \A j \in Range(program) : op2[j] = IF j = c THEN "GOTO" ELSE opcode[j]
  BY <1>3, <1>5, <1>8, <1>10
<1>12. FlowIs(F, program, opcode, operand, branch)
  BY <1>2, FlowOfList
<1>13. FlowIs(G, Q, op2, operand, branch)
  <2>1. FlowIs(ListFlow, program, opcode, operand, branch)'
    BY FlowOfList, PTL
  <2>. QED BY <1>2, <1>5, <2>1
<1>14. DoesTheSame(F, G, c)
  <2>1. F[c].op = "CALL" /\ F[c].next = ic
    BY <1>1, <1>9, <1>10, <1>11, <1>12 DEF FlowIs
  <2>2. F[ic].op = "RET"
    BY <1>1, <1>5, <1>12 DEF FlowIs
  <2>3. Range(Q) = Range(program) \ {program[n]} /\ Listed(Q, D)
    <3>1. Len(program) > 1
      BY <1>8, <1>9
    <3>. QED BY <1>4, <1>7, <3>1, RemovedFacts
  <2>4. PICK m \in 1 .. Len(Q) : Q[m] = c
    BY <1>1, <1>10, <2>3, ListedFacts
  <2>5. G[c].op = "GOTO"
    BY <1>10, <1>11, <1>13, <2>4 DEF FlowIs
  <2>. QED BY <2>1, <2>2, <2>5 DEF DoesTheSame
<1>15. Kept(F, G, Head(program), Head(Q), entry, referrers, rf2)
  <2>1. \A j \in Range(program) : j # program[n - 1] => op2[j] = opcode[j]
    BY <1>10, <1>11
  <2>2. DoesTheSame(F, G, program[n - 1]) /\ \A j \in Range(program) : rf2[j] \subseteq referrers[j]
    BY <1>7, <1>10, <1>14
  <2>3. referrers[program[n]] = {} /\ n > 1 /\ Q = RemoveAt(program, n)
    BY <1>1, <1>5, <1>7, <1>9
  <2>. QED BY <1>4, <1>12, <1>13, <2>1, <2>2, <2>3, FreeingMeans
<1>. QED BY <1>2, <1>15, KeptIsStep

LEMMA EliminateDeadMeans ==
    ASSUME ListInv, ListInv', EliminateDead
    PROVE  StepKeepsMeaning
<1>1. PICK n \in 1 .. Len(program) : program[n] = ic /\ Behind(program, opcode, pass, n, dead)
  BY Here
<1>2. PICK F, G, Q, rf2, h2 :
          /\ F = ListFlow /\ G = ListFlow' /\ Q = program' /\ rf2 = referrers'
          /\ h2 = Head(program')
  OBVIOUS
<1>3. PICK D : D = DOMAIN opcode
  OBVIOUS
<1>4. /\ Listed(program, D) /\ Links(Range(program), opcode, branch, referrers, entry)
      /\ opcode[program[Len(program)]] \in Final /\ DOMAIN referrers = D
  BY <1>3 DEF ListInv, Walk, Shape
<1>5. /\ dead /\ referrers[ic] = {} /\ pass = "deadcode"
      /\ opcode' = opcode /\ branch' = branch /\ operand' = operand
  BY DEF EliminateDead, DeadHere, Visiting
<1>6. Place(ic) = n
  BY <1>1, <1>4, PlaceIs
<1>7. Q = RemoveAt(program, n)
  BY <1>2, <1>6 DEF EliminateDead, Free
<1>8. /\ Len(program) \in Nat /\ Range(program) \subseteq D
      /\ \A k, m \in 1 .. Len(program) : program[k] = program[m] => k = m
      /\ \A m \in 1 .. Len(program) : program[m] \in Range(program)
  BY <1>4, ListedFacts
<1>9. n > 1 /\ opcode[program[n - 1]] \in Final
  BY <1>1, <1>5 DEF Behind
<1>10. \A j \in Range(program) : rf2[j] \subseteq referrers[j]
  <2>1. rf2 = IF IsBranch(ic) THEN [referrers EXCEPT ![branch[ic]] = @ \ {ic}] ELSE referrers
    BY <1>2 DEF EliminateDead, Free, Unwired
  <2>. QED BY <1>4, <1>8, <2>1
<1>12. FlowIs(F, program, opcode, operand, branch)
  BY <1>2, FlowOfList
<1>13. FlowIs(G, Q, opcode, operand, branch)
  <2>1. FlowIs(ListFlow, program, opcode, operand, branch)'
    BY FlowOfList, PTL
  <2>. QED BY <1>2, <1>5, <2>1
<1>14. DoesTheSame(F, G, program[n - 1])
  <2>0. n - 1 \in 1 .. Len(program) /\ n - 1 # n
    BY <1>8, <1>9
  <2>1. PICK c : c = program[n - 1] /\ c # program[n] /\ c \in Range(program)
    BY <1>8, <2>0
  <2>2. Range(Q) = Range(program) \ {program[n]} /\ Listed(Q, D)
    <3>1. Len(program) > 1
      BY <1>8, <1>9
    <3>. QED BY <1>4, <1>7, <3>1, RemovedFacts
  <2>3. PICK m \in 1 .. Len(Q) : Q[m] = c
    BY <2>1, <2>2, ListedFacts
  <2>4. /\ G[c].op = opcode[c] /\ G[c].arg = operand[c] /\ G[c].branch = branch[c]
        /\ DOMAIN G = Range(Q)
    BY <1>13, <2>3 DEF FlowIs
  <2>5. F[c].op = opcode[c] /\ F[c].arg = operand[c] /\ F[c].branch = branch[c]
    BY <2>0, <2>1, <1>12 DEF FlowIs
  <2>6. Branch(opcode[c]) => branch[c] \in Range(Q)
    <3>1. Branch(opcode[c]) => branch[c] \in Range(program) /\ c \in referrers[branch[c]]
      BY <1>4, <2>1 DEF Links
    <3>. QED BY <1>1, <1>5, <2>2, <3>1
  <2>7. Branch(opcode[c]) => Leads(F, G, F[c].branch, G[c].branch)
    BY <2>4, <2>5, <2>6 DEF Leads
  <2>8. opcode[c] \in Final
    BY <1>9, <2>1
  <2>9. DoesTheSame(F, G, c)
    BY <2>4, <2>5, <2>7, <2>8, SameInstruction
  <2>. QED BY <2>1, <2>9
<1>15. Kept(F, G, Head(program), Head(Q), entry, referrers, rf2)
  BY <1>1, <1>4, <1>5, <1>7, <1>9, <1>10, <1>12, <1>13, <1>14, FreeingMeans
<1>. QED BY <1>2, <1>15, KeptIsStep

(* The other steps leave the list alone.                                   *)
LEMMA OthersMean ==
    ASSUME ListInv, UNCHANGED <<program, opcode, operand, branch, referrers>>
    PROVE  StepKeepsMeaning
<1>1. PICK F, G, rf2, h2 : F = ListFlow /\ G = ListFlow' /\ rf2 = referrers' /\ h2 = Head(program')
  OBVIOUS
<1>2. G = F /\ rf2 = referrers /\ h2 = Head(program)
  BY <1>1 DEF ListFlow, NextOf, Place
<1>3. FlowIs(F, program, opcode, operand, branch)
  BY <1>1, FlowOfList
<1>4. Kept(F, F, Head(program), Head(program), entry, referrers, referrers)
  <2>1. /\ Listed(program, DOMAIN opcode)
        /\ Links(Range(program), opcode, branch, referrers, entry)
        /\ opcode[program[Len(program)]] \in Final
    BY DEF ListInv, Walk
  <2>. QED BY <1>3, <2>1, UnchangedMeans
<1>. QED BY <1>1, <1>2, <1>4, KeptIsStep

LEMMA ArgsInvariant ==
    Spec => []ArgsInv
<1>1. Init => ArgsInv
  <2>1. ASSUME NEW g \in Listings, Start(g) PROVE ArgsInv
    <3>1. operand = [i \in DOMAIN g |-> g[i].arg] /\ opcode = [i \in DOMAIN g |-> g[i].op]
      BY <2>1 DEF Start
    <3>2. \A i \in DOMAIN g : g[i].arg.type = "integer" => g[i].arg = Integer(g[i].arg.v)
      BY ListingAssumption DEF Listing
    <3>. QED BY <3>1, <3>2 DEF ArgsInv
  <2>. QED BY <2>1 DEF Init
<1>2. ArgsInv /\ [Next]_vars => ArgsInv'
  <2>1. [Next]_vars => operand' = operand /\ DOMAIN opcode' = DOMAIN opcode
    BY DEF Next, vars, code, Visiting, EliminateNop, ReplaceJump, OptimizeTailCall, PushSmallInt,
           EliminateDead, KeepAlive, PassBy, Encode, Done
  <2>. QED BY <2>1 DEF ArgsInv
<1>. QED BY <1>1, <1>2, PTL DEF Spec

(* No step of any pass, from any list that ast_gen_r makes, changes what   *)
(* the instructions that are left do and lead to, where the program begins *)
(* or where the closures do.                                               *)
THEOREM EveryStepKeepsMeaning ==
    Spec => MeaningIsKept
<1>1. ListInv /\ ListInv' /\ ArgsInv /\ [Next]_vars => [StepKeepsMeaning]_vars
  <2>1. ASSUME ListInv, ListInv', ArgsInv, Next PROVE StepKeepsMeaning
    <3>1. ASSUME KeepAlive \/ PassBy \/ Encode \/ Done
          PROVE  UNCHANGED <<program, opcode, operand, branch, referrers>>
      BY <3>1 DEF KeepAlive, PassBy, Encode, Done, Visiting, vars, code
    <3>. QED BY <2>1, <3>1, EliminateNopMeans, ReplaceJumpMeans, OptimizeTailCallMeans,
                PushSmallIntMeans, EliminateDeadMeans, OthersMean DEF Next
  <2>. QED BY <2>1
<1>. QED BY <1>1, ListInvariant, ArgsInvariant, PTL DEF Spec, MeaningIsKept

(***************************************************************************)
(* Runs                                                                    *)
(***************************************************************************)

(* A run from c that comes to res, where it has ended, in n steps.         *)
Stops(F, c, n, res) ==
    /\ res.st # "on"
    /\ \E r : r[0] = c /\ r[n] = res /\ \A k \in 0 .. n - 1 : r[k + 1] = Step(F, r[k])

LEMMA StopsNow ==
    ASSUME NEW F, NEW c, NEW res, c.st # "on"
    PROVE  Stops(F, c, 0, res) <=> res = c
<1>1. ASSUME res = c PROVE Stops(F, c, 0, res)
  <2>1. PICK r : r = [k \in {0} |-> c]
    OBVIOUS
  <2>2. r[0] = c /\ \A k \in 0 .. 0 - 1 : r[k + 1] = Step(F, r[k])
    BY <2>1
  <2>. QED BY <1>1, <2>2 DEF Stops
<1>. QED BY <1>1 DEF Stops

LEMMA StopsBefore ==
    ASSUME NEW F, NEW c, NEW n \in Nat, NEW res, Stops(F, Step(F, c), n, res)
    PROVE  Stops(F, c, n + 1, res)
<1>1. PICK r : r[0] = Step(F, c) /\ r[n] = res /\ \A k \in 0 .. n - 1 : r[k + 1] = Step(F, r[k])
  BY DEF Stops
<1>2. PICK q : q = [k \in 0 .. n + 1 |-> IF k = 0 THEN c ELSE r[k - 1]]
  OBVIOUS
<1>3. q[0] = c /\ q[n + 1] = res
  BY <1>1, <1>2
<1>4. ASSUME NEW k \in 0 .. n + 1 - 1 PROVE q[k + 1] = Step(F, q[k])
  <2>1. q[k + 1] = r[k]
    BY <1>2
  <2>2. CASE k = 0
    BY <1>1, <1>3, <2>1, <2>2
  <2>3. CASE k # 0
    <3>1. k - 1 \in 0 .. n - 1 /\ k - 1 + 1 = k /\ q[k] = r[k - 1]
      BY <1>2, <2>3
    <3>2. r[k] = Step(F, r[k - 1])
      BY <1>1, <3>1
    <3>. QED BY <2>1, <3>1, <3>2
  <2>. QED BY <2>2, <2>3
<1>. QED BY <1>3, <1>4 DEF Stops

LEMMA StopsAfter ==
    ASSUME NEW F, NEW c, NEW n \in Nat, NEW res, Stops(F, c, n, res), c.st = "on"
    PROVE  n - 1 \in Nat /\ Stops(F, Step(F, c), n - 1, res)
<1>1. PICK r : r[0] = c /\ r[n] = res /\ \A k \in 0 .. n - 1 : r[k + 1] = Step(F, r[k])
  BY DEF Stops
<1>2. n # 0
  BY <1>1 DEF Stops
<1>3. PICK m \in Nat : m = n - 1 /\ n = m + 1
  BY <1>2
<1>4. PICK q : q = [k \in 0 .. m |-> r[k + 1]]
  OBVIOUS
<1>5. q[0] = Step(F, c)
  <2>1. 0 \in 0 .. n - 1 /\ 0 + 1 = 1 /\ 0 \in 0 .. m
    BY <1>3
  <2>2. r[0 + 1] = Step(F, r[0])
    BY <1>1, <2>1
  <2>. QED BY <1>1, <1>4, <2>1, <2>2
<1>6. q[m] = res
  BY <1>1, <1>3, <1>4
<1>7. ASSUME NEW k \in 0 .. m - 1 PROVE q[k + 1] = Step(F, q[k])
  <2>1. k + 1 \in 0 .. n - 1 /\ k + 1 \in 0 .. m /\ k \in 0 .. m
    BY <1>3
  <2>2. r[k + 1 + 1] = Step(F, r[k + 1])
    BY <1>1, <2>1
  <2>. QED BY <1>4, <2>1, <2>2
<1>8. Stops(F, Step(F, c), m, res)
  BY <1>5, <1>6, <1>7 DEF Stops
<1>. QED BY <1>3, <1>8

(* What has ended stays so, wherever it is.                                *)
LEMMA EndedStays ==
    ASSUME NEW F, NEW G, NEW c, c.st # "on", NEW n \in Nat, NEW res, Stops(F, c, n, res)
    PROVE  Stops(G, c, n, res)
<1>1. \A H : Step(H, c) = c
  BY DEF Step
<1>2. PICK r : r[0] = c /\ r[n] = res /\ \A k \in 0 .. n - 1 : r[k + 1] = Step(F, r[k])
  BY DEF Stops
<1>. DEFINE S == {k \in Nat : k <= n => r[k] = c}
<1>3. 0 \in S
  BY <1>2
<1>4. ASSUME NEW k \in Nat, k \in S PROVE k + 1 \in S
  <2>1. ASSUME k + 1 <= n PROVE r[k + 1] = c
    <3>1. k \in 0 .. n - 1 /\ r[k] = c
      BY <1>4, <2>1
    <3>. QED BY <1>1, <1>2, <3>1
  <2>. QED BY <2>1
<1>. HIDE DEF S
<1>5. Nat \subseteq S
  BY <1>3, <1>4, SetInduction
<1>6. ASSUME NEW k \in 0 .. n - 1 PROVE r[k + 1] = Step(G, r[k])
  <2>1. r[k + 1] = c /\ r[k] = c
    <3>1. k \in S /\ k + 1 \in S
      BY <1>5
    <3>. QED BY <3>1 DEF S
  <2>. QED BY <1>1, <2>1
<1>. QED BY <1>2, <1>6 DEF Stops

(* Sequences, of whatever.                                                 *)
IsSeq(s) == Len(s) \in Nat /\ s = [k \in 1 .. Len(s) |-> s[k]]

LEMMA SeqIsSeq ==
    ASSUME NEW S, NEW s \in Seq(S)
    PROVE  IsSeq(s)
BY DEF IsSeq

LEMMA IsSeqIn ==
    ASSUME NEW s, IsSeq(s)
    PROVE  \E S : s \in Seq(S)
<1>1. PICK S : S = {s[k] : k \in 1 .. Len(s)}
  OBVIOUS
<1>2. \A k \in 1 .. Len(s) : s[k] \in S
  BY <1>1
<1>3. s \in [1 .. Len(s) -> S]
  BY <1>2 DEF IsSeq
<1>4. PICK n \in Nat : s \in [1 .. n -> S]
  BY <1>3 DEF IsSeq
<1>5. s \in Seq(S)
  BY <1>4, IsASeq
<1>. QED BY <1>5

LEMMA Joined ==
    ASSUME NEW s, NEW t, NEW u, IsSeq(s), IsSeq(t), IsSeq(u)
    PROVE  IsSeq(s \o t) /\ s \o <<>> = s /\ <<>> \o s = s /\ (s \o t) \o u = s \o (t \o u)
<1>1. PICK A, B, C : s \in Seq(A) /\ t \in Seq(B) /\ u \in Seq(C)
  BY IsSeqIn
<1>2. PICK S : S = A \cup B \cup C
  OBVIOUS
<1>3. s \in Seq(S) /\ t \in Seq(S) /\ u \in Seq(S)
  BY <1>1, <1>2, SeqDef
<1>4. s \o t \in Seq(S)
  BY <1>3, ConcatProperties
<1>5. s \o <<>> = s /\ <<>> \o s = s
  BY <1>3, ConcatEmptySeq
<1>6. (s \o t) \o u = s \o (t \o u)
  BY <1>3, ConcatAssociative
<1>. QED BY <1>4, <1>5, <1>6, SeqIsSeq

LEMMA PairIs ==
    ASSUME NEW a, NEW b
    PROVE  <<a>> \o <<b>> = <<a, b>>
<1>1. PICK S : S = {a, b}
  OBVIOUS
<1>2. PICK s, t, u : s = <<a>> /\ t = <<b>> /\ u = <<a, b>>
  OBVIOUS
<1>3. s \in Seq(S) /\ t \in Seq(S) /\ u \in Seq(S)
  BY <1>1, <1>2
<1>4. Len(s) = 1 /\ Len(t) = 1 /\ Len(u) = 2 /\ s[1] = a /\ t[1] = b /\ u[1] = a /\ u[2] = b
  BY <1>2
<1>5. s \o t \in Seq(S) /\ Len(s \o t) = 2
  BY <1>3, <1>4, ConcatProperties
<1>6. (s \o t)[1] = a /\ (s \o t)[2] = b
  BY <1>3, <1>4, <1>5
<1>7. s \o t = u
  BY <1>3, <1>4, <1>5, <1>6, SeqEqual
<1>. QED BY <1>2, <1>7

LEMMA EffectsIsSeq ==
    ASSUME NEW x
    PROVE  IsSeq(Effects(x))
<1>1. \A y : <<y>> \in Seq({y})
  OBVIOUS
<1>2. \A y, z : <<y, z>> \in Seq({y, z})
  OBVIOUS
<1>3. <<>> \in Seq({})
  OBVIOUS
<1>4. \/ Effects(x) = <<>>
      \/ \E y : Effects(x) = <<y>>
      \/ \E y, z : Effects(x) = <<y, z>>
  BY DEF Effects
<1>. QED BY <1>1, <1>2, <1>3, <1>4, SeqIsSeq

(***************************************************************************)
(* One step of a run                                                       *)
(***************************************************************************)
(* Where an instruction x takes a run whose effects, with those of x, are u. *)
Takes(to, x, u, d) ==
    /\ x.op \in {"RET", "GOTO", "HALT"} => to = Running(None, u, d, "end")
    /\ x.op = "JZ" /\ d = <<>> => to = Running(None, u, d, "cut")
    /\ x.op = "JZ" /\ d # <<>> =>
           to = Running(IF Head(d) THEN x.next ELSE x.branch, u, Tail(d), "on")
    /\ x.op = "JMP" => to = Running(x.branch, u, d, "on")
    /\ x.op \notin Final \cup {"JZ"} => to = Running(x.next, u, d, "on")

LEMMA StepIs ==
    ASSUME NEW F, NEW i \in DOMAIN F, NEW ev, NEW d, NEW c, c = Running(i, ev, d, "on"),
           NEW x, x = F[i], NEW u, u = ev \o Effects(x)
    PROVE  Takes(Step(F, c), x, u, d)
<1>1. c.at = i /\ c.ev = ev /\ c.d = d /\ c.st = "on"
  BY DEF Running
<1>. DEFINE To(at, d2, st) == Running(at, ev \o Effects(x), d2, st)
<1>2. Step(F, c) = CASE x.op \in {"RET", "GOTO", "HALT"} -> To(None, d, "end")
               [] x.op = "JZ" /\ d = <<>> -> To(None, d, "cut")
               [] x.op = "JZ" /\ d # <<>> ->
                      To(IF Head(d) THEN x.next ELSE x.branch, Tail(d), "on")
               [] x.op = "JMP" -> To(x.branch, d, "on")
               [] OTHER -> To(x.next, d, "on")
  BY <1>1 DEF Step
<1>3. \A at, d2, st : To(at, d2, st) = Running(at, u, d2, st)
  OBVIOUS
<1>. HIDE DEF To
<1>. QED BY <1>2, <1>3 DEF Final, Takes

LEMMA StatusOf ==
    \A at, ev, d, st : Running(at, ev, d, st).st = st
BY DEF Running

(* Effects tell what a jump, a test or an end is.                          *)
Control == {"RET", "GOTO", "HALT", "JZ"}

LEMMA EffectsTell ==
    ASSUME NEW x, NEW y, Effects(x) = Effects(y), y.op \in Control
    PROVE  x.op = y.op
<1>1. PICK a, b : a = x.op /\ b = y.op
  OBVIOUS
<1>2. CASE b = "GOTO"
  <2>1. Effects(y) = <<Effect("CALL"), Effect("RET")>>
    BY <1>1, <1>2 DEF Effects, WithOperand
  <2>2. a # "GOTO" => Effects(x) = <<>> \/ \E z : Effects(x) = <<z>>
    <3>1. a \in {"NOP", "JMP"} => Effects(x) = <<>>
      BY <1>1 DEF Effects, WithOperand
    <3>2. a \in WithOperand => Effects(x) = <<Does(a, x.arg)>>
      BY <1>1 DEF Effects, WithOperand
    <3>3. a = "PUSH_ZERO" => Effects(x) = <<Does("PUSH_VALUE", Integer(0))>>
      BY <1>1 DEF Effects, WithOperand
    <3>4. a = "PUSH_ONE" => Effects(x) = <<Does("PUSH_VALUE", Integer(1))>>
      BY <1>1 DEF Effects, WithOperand
    <3>5. a = "PUSH_TWO" => Effects(x) = <<Does("PUSH_VALUE", Integer(2))>>
      BY <1>1 DEF Effects, WithOperand
    <3>6. a = "EXTERNAL" => Effects(x) = <<Effect("Extern")>>
      BY <1>1 DEF Effects, WithOperand
    <3>7. a \notin {"NOP", "JMP", "GOTO", "PUSH_ZERO", "PUSH_ONE", "PUSH_TWO", "EXTERNAL"}
                       \cup WithOperand => Effects(x) = <<Effect(a)>>
      BY <1>1 DEF Effects, WithOperand
    <3>. QED BY <3>1, <3>2, <3>3, <3>4, <3>5, <3>6, <3>7
  <2>3. \A z, u, v : <<z>> # <<u, v>>
    <3>1. \A z, u, v : Len(<<z>>) = 1 /\ Len(<<u, v>>) = 2
      OBVIOUS
    <3>. QED BY <3>1
  <2>4. \A u, v : <<>> # <<u, v>>
    <3>1. \A u, v : Len(<<>>) = 0 /\ Len(<<u, v>>) = 2
      OBVIOUS
    <3>. QED BY <3>1
  <2>. QED BY <1>1, <1>2, <2>1, <2>2, <2>3, <2>4
<1>3. CASE b # "GOTO"
  <2>1. Effects(y) = <<Effect(b)>>
    BY <1>1, <1>3 DEF Effects, WithOperand, Control
  <2>2. Effects(x) = <<Effect(b)>>
    BY <2>1
  <2>3. \A z : <<>> # <<z>> 
    <3>1. \A z : Len(<<>>) = 0 /\ Len(<<z>>) = 1
      OBVIOUS
    <3>. QED BY <3>1
  <2>4. \A u, v, z : <<u, v>> # <<z>>
    <3>1. \A u, v, z : Len(<<z>>) = 1 /\ Len(<<u, v>>) = 2
      OBVIOUS
    <3>. QED BY <3>1
  <2>5. a \notin {"NOP", "JMP", "GOTO"}
    <3>1. a \in {"NOP", "JMP"} => Effects(x) = <<>>
      BY <1>1 DEF Effects, WithOperand
    <3>2. a = "GOTO" => Effects(x) = <<Effect("CALL"), Effect("RET")>>
      BY <1>1 DEF Effects, WithOperand
    <3>. QED BY <2>2, <2>3, <2>4, <3>1, <3>2
  <2>6. \A z, u : <<z>> = <<u>> => z = u
    <3>1. \A z : <<z>>[1] = z
      OBVIOUS
    <3>. QED BY <3>1, Zenon
  <2>7. b \in {"RET", "HALT", "JZ"}
    BY <1>1, <1>3 DEF Control
  <2>8. CASE a \in WithOperand
    <3>1. Effects(x) = <<Does(a, x.arg)>>
      BY <1>1, <2>8 DEF Effects, WithOperand
    <3>2. Does(a, x.arg) = Effect(b)
      BY <2>2, <2>6, <3>1
    <3>3. a = b
      BY <3>2 DEF Does, Effect
    <3>. QED BY <2>7, <2>8, <3>3 DEF WithOperand
  <2>9. CASE a \in {"PUSH_ZERO", "PUSH_ONE", "PUSH_TWO"}
    <3>1. \E n : Effects(x) = <<Does("PUSH_VALUE", Integer(n))>>
      BY <1>1, <2>9 DEF Effects, WithOperand
    <3>2. PICK n : Does("PUSH_VALUE", Integer(n)) = Effect(b)
      BY <2>2, <2>6, <3>1
    <3>3. "PUSH_VALUE" = b
      BY <3>2 DEF Does, Effect
    <3>. QED BY <2>7, <3>3
  <2>10. CASE a = "EXTERNAL"
    <3>1. Effects(x) = <<Effect("Extern")>>
      BY <1>1, <2>10 DEF Effects, WithOperand
    <3>2. Effect("Extern") = Effect(b)
      BY <2>2, <2>6, <3>1
    <3>3. "Extern" = b
      BY <3>2 DEF Does, Effect
    <3>. QED BY <2>7, <3>3
  <2>11. CASE a \notin WithOperand \cup {"PUSH_ZERO", "PUSH_ONE", "PUSH_TWO", "EXTERNAL"}
    <3>1. Effects(x) = <<Effect(a)>>
      BY <1>1, <2>5, <2>11 DEF Effects, WithOperand
    <3>2. Effect(a) = Effect(b)
      BY <2>2, <2>6, <3>1
    <3>3. a = b
      BY <3>2 DEF Does, Effect
    <3>. QED BY <1>1, <3>3
  <2>. QED BY <2>8, <2>9, <2>10, <2>11
<1>. QED BY <1>2, <1>3

(***************************************************************************)
(* A run through F is one through G                                        *)
(***************************************************************************)

(* Wherever F goes it has an instruction.                                  *)
Closed(F) == \A i \in DOMAIN F :
    /\ F[i].op \notin Final => F[i].next \in DOMAIN F
    /\ Branch(F[i].op) => F[i].branch \in DOMAIN F

(* What a run of m steps through F comes to, a run through G comes to.     *)
Carries(F, G, m) == \A i, j, ev, d, res :
    IsSeq(ev) /\ Leads(F, G, i, j) /\ Stops(F, Running(i, ev, d, "on"), m, res) =>
        \E l \in 0 .. m : Stops(G, Running(j, ev, d, "on"), l, res)

LEMMA GoesOnTheSame ==
    ASSUME NEW F, NEW G, NEW i, NEW j, Leads(F, G, i, j), NEW ev, IsSeq(ev), NEW d, NEW res,
           NEW m \in Nat, NEW n \in Nat, n < m, Carries(F, G, n),
           Stops(F, Running(i, ev, d, "on"), n, res),
           NEW e, Step(G, e) = Running(j, ev, d, "on")
    PROVE  \E l \in 0 .. m : Stops(G, e, l, res)
<1>1. PICK l \in 0 .. n : Stops(G, Running(j, ev, d, "on"), l, res)
  BY DEF Carries
<1>2. Stops(G, e, l + 1, res)
  BY <1>1, StopsBefore
<1>3. l + 1 \in 0 .. m
  OBVIOUS
<1>. QED BY <1>2, <1>3

LEMMA StepCarries ==
    ASSUME NEW F, NEW G, Closed(F), DOMAIN G \subseteq DOMAIN F,
           \A i \in DOMAIN G : DoesTheSame(F, G, i),
           NEW m \in Nat, \A n \in 0 .. m - 1 : Carries(F, G, n)
    PROVE  Carries(F, G, m)
<1>. SUFFICES ASSUME NEW i, NEW j, NEW ev, NEW d, NEW res,
                     IsSeq(ev), Leads(F, G, i, j), Stops(F, Running(i, ev, d, "on"), m, res)
              PROVE  \E l \in 0 .. m : Stops(G, Running(j, ev, d, "on"), l, res)
  BY DEF Carries
<1>1. PICK c, e : c = Running(i, ev, d, "on") /\ e = Running(j, ev, d, "on")
  OBVIOUS
<1>2. PICK n \in Nat : n = m - 1 /\ n \in 0 .. m - 1 /\ n < m /\ Stops(F, Step(F, c), n, res)
  <2>1. c.st = "on"
    BY <1>1, StatusOf
  <2>2. m - 1 \in Nat /\ Stops(F, Step(F, c), m - 1, res)
    BY <1>1, <2>1, StopsAfter
  <2>. QED BY <2>2
<1>3. Carries(F, G, n)
  BY <1>2
<1>4. CASE i # j
  <2>1. PICK x : x = F[i] /\ i \in DOMAIN F /\ x.op = "NOP" /\ x.next = j
    BY <1>4 DEF Leads
  <2>2. Effects(x) = <<>>
    BY <2>1 DEF Effects, WithOperand
  <2>3. Step(F, c) = Running(j, ev, d, "on")
    <3>1. PICK u : u = ev \o Effects(x)
      OBVIOUS
    <3>2. x.op \notin Final \cup {"JZ"}
      BY <2>1 DEF Final
    <3>3. Takes(Step(F, c), x, u, d)
      BY <1>1, <2>1, <3>1, StepIs
    <3>4. Step(F, c) = Running(x.next, u, d, "on")
      BY <3>2, <3>3 DEF Takes
    <3>5. u = ev
      BY <2>2, <3>1, Joined
    <3>. QED BY <2>1, <3>4, <3>5
  <2>4. Leads(F, G, j, j)
    BY DEF Leads
  <2>5. PICK l \in 0 .. n : Stops(G, e, l, res)
    BY <1>1, <1>2, <1>3, <2>3, <2>4 DEF Carries
  <2>. QED BY <1>1, <1>2, <2>5
<1>5. CASE i = j
  <2>1. i \in DOMAIN G /\ i \in DOMAIN F
    BY <1>5 DEF Leads
  <2>2. PICK x : x = F[i]
    OBVIOUS
  <2>3. PICK y : y = G[i]
    OBVIOUS
  <2>4. PICK u : u = ev \o Effects(x)
    OBVIOUS
  <2>5. IsSeq(u) /\ IsSeq(Effects(x)) /\ IsSeq(Effects(y))
    BY <2>4, EffectsIsSeq, Joined
  <2>F. Takes(Step(F, c), x, u, d)
    BY <1>1, <2>1, <2>2, <2>4, StepIs
  <2>6. CASE /\ Effects(y) = Effects(x) /\ (y.op = "JMP" <=> x.op = "JMP")
             /\ y.op \notin Final => Leads(F, G, x.next, y.next)
             /\ y.op \in {"JMP", "JZ"} => Leads(F, G, x.branch, y.branch)
    <3>1. u = ev \o Effects(y)
      BY <2>4, <2>6
    <3>G. Takes(Step(G, e), y, u, d)
      BY <1>1, <1>5, <2>1, <2>3, <3>1, StepIs
    <3>2. x.op \in Control \/ y.op \in Control => x.op = y.op
      BY <2>6, EffectsTell
    <3>3. CASE x.op \in {"RET", "GOTO", "HALT"}
      <4>1. Step(F, c) = Running(None, u, d, "end")
        BY <2>F, <3>3 DEF Takes
      <4>2. Step(G, e) = Running(None, u, d, "end")
        BY <3>G, <3>2, <3>3 DEF Takes, Control
      <4>3. Stops(G, Step(G, e), n, res)
        BY <1>2, <4>1, <4>2, StatusOf, EndedStays
      <4>. QED BY <1>1, <1>2, <4>3, StopsBefore
    <3>4. CASE x.op = "JZ" /\ d = <<>>
      <4>1. Step(F, c) = Running(None, u, d, "cut")
        BY <2>F, <3>4 DEF Takes
      <4>2. Step(G, e) = Running(None, u, d, "cut")
        <5>1. y.op = "JZ"
          BY <3>2, <3>4 DEF Control
        <5>. QED BY <3>G, <3>4, <5>1 DEF Takes
      <4>3. Stops(G, Step(G, e), n, res)
        BY <1>2, <4>1, <4>2, StatusOf, EndedStays
      <4>. QED BY <1>1, <1>2, <4>3, StopsBefore
    <3>5. CASE x.op = "JZ" /\ d # <<>>
      <4>0. y.op = "JZ"
        BY <3>2, <3>5 DEF Control
      <4>1. PICK i2, j2 : /\ i2 = (IF Head(d) THEN x.next ELSE x.branch)
                          /\ j2 = (IF Head(d) THEN y.next ELSE y.branch)
        OBVIOUS
      <4>2. Step(F, c) = Running(i2, u, Tail(d), "on")
        BY <2>F, <3>5, <4>1 DEF Takes
      <4>3. Step(G, e) = Running(j2, u, Tail(d), "on")
        BY <3>G, <3>5, <4>0, <4>1 DEF Takes
      <4>4. Leads(F, G, i2, j2)
        BY <2>6, <4>0, <4>1 DEF Final
      <4>. QED BY <1>1, <1>2, <1>3, <2>5, <4>2, <4>3, <4>4, GoesOnTheSame
    <3>6. CASE x.op = "JMP"
      <4>0. y.op = "JMP"
        BY <2>6, <3>6
      <4>1. Step(F, c) = Running(x.branch, u, d, "on")
        BY <2>F, <3>6 DEF Takes
      <4>2. Step(G, e) = Running(y.branch, u, d, "on")
        BY <3>G, <4>0 DEF Takes
      <4>3. Leads(F, G, x.branch, y.branch)
        BY <2>6, <4>0
      <4>. QED BY <1>1, <1>2, <1>3, <2>5, <4>1, <4>2, <4>3, GoesOnTheSame
    <3>7. CASE x.op \notin Final \cup {"JZ"}
      <4>0. y.op \notin Final \cup {"JZ"}
        BY <2>6, <3>2, <3>7 DEF Final, Control
      <4>1. Step(F, c) = Running(x.next, u, d, "on")
        BY <2>F, <3>7 DEF Takes
      <4>2. Step(G, e) = Running(y.next, u, d, "on")
        BY <3>G, <4>0 DEF Takes
      <4>3. Leads(F, G, x.next, y.next)
        BY <2>6, <4>0
      <4>. QED BY <1>1, <1>2, <1>3, <2>5, <4>1, <4>2, <4>3, GoesOnTheSame
    <3>. QED BY <3>3, <3>4, <3>5, <3>6, <3>7 DEF Final
  <2>7. CASE y.op = "RET" /\ x.op = "JMP" /\ F[x.branch].op = "RET"
    <3>1. PICK z : z = F[x.branch] /\ x.branch \in DOMAIN F /\ z.op = "RET"
      BY <2>1, <2>2, <2>7 DEF Closed, Branch
    <3>2. Effects(x) = <<>> /\ Effects(z) = Effects(y)
      BY <2>7, <3>1 DEF Effects, WithOperand
    <3>3. PICK v : v = ev \o Effects(y)
      OBVIOUS
    <3>4. Step(F, c) = Running(x.branch, ev, d, "on")
      <4>1. Step(F, c) = Running(x.branch, u, d, "on")
        BY <2>F, <2>7 DEF Takes
      <4>2. u = ev
        BY <2>4, <3>2, Joined
      <4>. QED BY <4>1, <4>2
    <3>5. Step(F, Step(F, c)) = Running(None, v, d, "end")
      <4>1. PICK k : k = x.branch /\ k \in DOMAIN F /\ F[k] = z
        BY <3>1
      <4>2. PICK w : w = ev \o Effects(F[k])
        OBVIOUS
      <4>3. Step(F, Running(k, ev, d, "on")) = Running(None, w, d, "end")
        <5>1. Takes(Step(F, Running(k, ev, d, "on")), F[k], w, d)
          BY <4>1, <4>2, StepIs
        <5>2. F[k].op \in {"RET", "GOTO", "HALT"}
          BY <3>1, <4>1
        <5>. QED BY <5>1, <5>2 DEF Takes
      <4>4. w = v
        BY <3>2, <3>3, <4>1, <4>2
      <4>. QED BY <3>4, <4>1, <4>3, <4>4
    <3>6. Step(G, e) = Running(None, v, d, "end")
      <4>1. Takes(Step(G, e), y, v, d)
        BY <1>1, <1>5, <2>1, <2>3, <3>3, StepIs
      <4>. QED BY <2>7, <4>1 DEF Takes
    <3>7. n - 1 \in Nat /\ Stops(F, Step(F, Step(F, c)), n - 1, res)
      BY <1>2, <3>4, StatusOf, StopsAfter
    <3>8. Stops(G, Step(G, e), n - 1, res)
      BY <3>5, <3>6, <3>7, StatusOf, EndedStays
    <3>9. Stops(G, e, n - 1 + 1, res) /\ n - 1 + 1 \in 0 .. m
      BY <1>2, <3>7, <3>8, StopsBefore
    <3>. QED BY <1>1, <3>9
  <2>8. CASE y.op = "GOTO" /\ x.op = "CALL" /\ F[x.next].op = "RET"
    <3>1. PICK z : z = F[x.next] /\ x.next \in DOMAIN F /\ z.op = "RET"
      BY <2>1, <2>2, <2>8 DEF Closed, Final
    <3>2. /\ Effects(x) = <<Effect("CALL")>> /\ Effects(z) = <<Effect("RET")>>
          /\ Effects(y) = <<Effect("CALL"), Effect("RET")>>
      BY <2>8, <3>1 DEF Effects, WithOperand
    <3>3. PICK v : v = ev \o Effects(y)
      OBVIOUS
    <3>4. Step(F, c) = Running(x.next, u, d, "on")
      BY <2>F, <2>8 DEF Takes, Final
    <3>5. u \o Effects(z) = v
      <4>1. IsSeq(Effects(x)) /\ IsSeq(Effects(z))
        BY EffectsIsSeq
      <4>2. u \o Effects(z) = ev \o (Effects(x) \o Effects(z))
        BY <2>4, <4>1, Joined
      <4>3. <<Effect("CALL")>> \o <<Effect("RET")>> = <<Effect("CALL"), Effect("RET")>>
        BY PairIs
      <4>. QED BY <3>2, <3>3, <4>2, <4>3
    <3>6. Step(F, Step(F, c)) = Running(None, v, d, "end")
      <4>1. PICK k : k = x.next /\ k \in DOMAIN F /\ F[k] = z
        BY <3>1
      <4>2. PICK w : w = u \o Effects(F[k])
        OBVIOUS
      <4>3. Step(F, Running(k, u, d, "on")) = Running(None, w, d, "end")
        <5>1. Takes(Step(F, Running(k, u, d, "on")), F[k], w, d)
          BY <4>1, <4>2, StepIs
        <5>2. F[k].op \in {"RET", "GOTO", "HALT"}
          BY <3>1, <4>1
        <5>. QED BY <5>1, <5>2 DEF Takes
      <4>4. w = v
        BY <3>5, <4>1, <4>2
      <4>. QED BY <3>4, <4>1, <4>3, <4>4
    <3>7. Step(G, e) = Running(None, v, d, "end")
      <4>1. Takes(Step(G, e), y, v, d)
        BY <1>1, <1>5, <2>1, <2>3, <3>3, StepIs
      <4>. QED BY <2>8, <4>1 DEF Takes
    <3>8. n - 1 \in Nat /\ Stops(F, Step(F, Step(F, c)), n - 1, res)
      BY <1>2, <3>4, StatusOf, StopsAfter
    <3>9. Stops(G, Step(G, e), n - 1, res)
      BY <3>6, <3>7, <3>8, StatusOf, EndedStays
    <3>10. Stops(G, e, n - 1 + 1, res) /\ n - 1 + 1 \in 0 .. m
      BY <1>2, <3>8, <3>9, StopsBefore
    <3>. QED BY <1>1, <3>10
  <2>9. DoesTheSame(F, G, i)
    BY <2>1
  <2>. QED BY <2>2, <2>3, <2>6, <2>7, <2>8, <2>9 DEF DoesTheSame
<1>. QED BY <1>4, <1>5

LEMMA RunsCarried ==
    ASSUME NEW F, NEW G, Closed(F), DOMAIN G \subseteq DOMAIN F,
           \A i \in DOMAIN G : DoesTheSame(F, G, i)
    PROVE  \A m \in Nat : Carries(F, G, m)
<1>. DEFINE S == {n \in Nat : \A k \in 0 .. n - 1 : Carries(F, G, k)}
<1>1. 0 \in S
  OBVIOUS
<1>2. ASSUME NEW n \in Nat, n \in S PROVE n + 1 \in S
  <2>1. Carries(F, G, n)
    BY <1>2, StepCarries
  <2>2. \A k \in 0 .. n + 1 - 1 : k \in 0 .. n - 1 \/ k = n
    OBVIOUS
  <2>. QED BY <1>2, <2>1, <2>2
<1>. HIDE DEF S
<1>3. Nat \subseteq S
  BY <1>1, <1>2, SetInduction
<1>4. ASSUME NEW m \in Nat PROVE Carries(F, G, m)
  <2>1. m + 1 \in S /\ m \in 0 .. m + 1 - 1
    BY <1>3
  <2>. QED BY <2>1 DEF S
<1>. QED BY <1>4

(* Whatever F comes to from i, G comes to from j, and in no more steps.    *)
Means(F, i, G, j) == \A d, res : \A m \in Nat :
    Stops(F, Begin(i, d), m, res) => \E l \in 0 .. m : Stops(G, Begin(j, d), l, res)

LEMMA CarriedMeans ==
    ASSUME NEW F, NEW G, \A m \in Nat : Carries(F, G, m), NEW i, NEW j, Leads(F, G, i, j)
    PROVE  Means(F, i, G, j)
<1>1. ASSUME NEW d, NEW res, NEW m \in Nat, Stops(F, Begin(i, d), m, res)
      PROVE  \E l \in 0 .. m : Stops(G, Begin(j, d), l, res)
  <2>1. IsSeq(<<>>)
    BY EmptySeq, SeqIsSeq
  <2>. QED BY <1>1, <2>1 DEF Carries, Begin
<1>. QED BY <1>1 DEF Means

LEMMA MeansTrans ==
    ASSUME NEW F, NEW G, NEW H, NEW i, NEW j, NEW k, Means(F, i, G, j), Means(G, j, H, k)
    PROVE  Means(F, i, H, k)
<1>1. ASSUME NEW d, NEW res, NEW m \in Nat, Stops(F, Begin(i, d), m, res)
      PROVE  \E l \in 0 .. m : Stops(H, Begin(k, d), l, res)
  <2>1. PICK n \in 0 .. m : Stops(G, Begin(j, d), n, res)
    BY <1>1 DEF Means
  <2>2. PICK l \in 0 .. n : Stops(H, Begin(k, d), l, res)
    BY <2>1 DEF Means
  <2>. QED BY <2>2
<1>. QED BY <1>1 DEF Means

LEMMA ListIsClosed ==
    ListInv => Closed(ListFlow)
<1>. SUFFICES ASSUME ListInv PROVE Closed(ListFlow)
  OBVIOUS
<1>1. PICK F : F = ListFlow
  OBVIOUS
<1>2. FlowIs(F, program, opcode, operand, branch)
  BY <1>1, FlowOfList
<1>3. /\ Listed(program, DOMAIN opcode) /\ Links(Range(program), opcode, branch, referrers, entry)
      /\ opcode[program[Len(program)]] \in Final
  BY DEF ListInv, Walk
<1>4. DOMAIN F = Range(program)
  BY <1>2 DEF FlowIs
<1>5. ASSUME NEW i \in DOMAIN F
      PROVE  /\ F[i].op \notin Final => F[i].next \in DOMAIN F
             /\ Branch(F[i].op) => F[i].branch \in DOMAIN F
  BY <1>2, <1>3, <1>4, Untouched
<1>. QED BY <1>1, <1>5 DEF Closed

LEMMA StepMeansTheSame ==
    ASSUME ListInv, StepKeepsMeaning, NEW F, F = ListFlow, NEW G, G = ListFlow'
    PROVE  \A i, j : Leads(F, G, i, j) => Means(F, i, G, j)
<1>1. Closed(F)
  BY ListIsClosed
<1>2. DOMAIN G \subseteq DOMAIN F /\ \A i \in DOMAIN G : DoesTheSame(F, G, i)
  BY DEF StepKeepsMeaning
<1>3. \A m \in Nat : Carries(F, G, m)
  BY <1>1, <1>2, RunsCarried
<1>. QED BY <1>3, CarriedMeans

(***************************************************************************)
(* The encoded program runs as the list does                               *)
(***************************************************************************)

(* G has the instructions of F, at their labels.                           *)
Placed(F, G, lb) == \A i \in DOMAIN F :
    /\ lb[i] \in DOMAIN G /\ G[lb[i]].op = F[i].op /\ G[lb[i]].arg = F[i].arg
    /\ F[i].op \notin Final => G[lb[i]].next = lb[F[i].next]
    /\ Branch(F[i].op) => G[lb[i]].branch = lb[F[i].branch]

RunsAt(F, G, lb, m) == \A i \in DOMAIN F : \A ev, d, res :
    Stops(F, Running(i, ev, d, "on"), m, res) => Stops(G, Running(lb[i], ev, d, "on"), m, res)

LEMMA StepRunsAt ==
    ASSUME NEW F, NEW G, NEW lb, Closed(F), Placed(F, G, lb),
           NEW n \in Nat, RunsAt(F, G, lb, n)
    PROVE  RunsAt(F, G, lb, n + 1)
<1>. SUFFICES ASSUME NEW i \in DOMAIN F, NEW ev, NEW d, NEW res,
                     Stops(F, Running(i, ev, d, "on"), n + 1, res)
              PROVE  Stops(G, Running(lb[i], ev, d, "on"), n + 1, res)
  BY DEF RunsAt
<1>1. PICK c, e : c = Running(i, ev, d, "on") /\ e = Running(lb[i], ev, d, "on")
  OBVIOUS
<1>2. Stops(F, Step(F, c), n, res)
  <2>1. c.st = "on" /\ n + 1 \in Nat /\ n + 1 - 1 = n
    BY <1>1, StatusOf
  <2>. QED BY <1>1, <2>1, StopsAfter
<1>3. PICK j, x, y : j = lb[i] /\ x = F[i] /\ y = G[j]
  OBVIOUS
<1>4. /\ j \in DOMAIN G /\ y.op = x.op /\ y.arg = x.arg
      /\ x.op \notin Final => y.next = lb[x.next] /\ x.next \in DOMAIN F
      /\ Branch(x.op) => y.branch = lb[x.branch] /\ x.branch \in DOMAIN F
  BY <1>3 DEF Placed, Closed
<1>5. PICK u : u = ev \o Effects(x)
  OBVIOUS
<1>6. u = ev \o Effects(y)
  BY <1>4, <1>5, EffectsAlike
<1>7. j \in DOMAIN G /\ y = G[j] /\ y.op = x.op /\ e = Running(j, ev, d, "on")
  BY <1>1, <1>3, <1>4
<1>8. Takes(Step(F, c), x, u, d) /\ Takes(Step(G, e), y, u, d)
  <2>1. Takes(Step(F, c), x, u, d)
    BY <1>1, <1>3, <1>5, StepIs
  <2>2. j \in DOMAIN G /\ e = Running(j, ev, d, "on") /\ y = G[j]
    BY <1>7
  <2>3. Takes(Step(G, e), y, u, d)
    BY <1>6, <2>2, StepIs
  <2>. QED BY <2>1, <2>3
<1>9. Stops(G, Step(G, e), n, res)
  <2>1. CASE x.op \in {"RET", "GOTO", "HALT"}
    <3>1. Step(F, c) = Running(None, u, d, "end")
      BY <1>4, <1>8, <2>1 DEF Takes
    <3>2. Step(G, e) = Running(None, u, d, "end")
      BY <1>4, <1>8, <2>1 DEF Takes
    <3>. QED BY <1>2, <3>1, <3>2, StatusOf, EndedStays
  <2>2. CASE x.op = "JZ" /\ d = <<>>
    <3>1. Step(F, c) = Running(None, u, d, "cut")
      BY <1>4, <1>8, <2>2 DEF Takes
    <3>2. Step(G, e) = Running(None, u, d, "cut")
      BY <1>4, <1>8, <2>2 DEF Takes
    <3>. QED BY <1>2, <3>1, <3>2, StatusOf, EndedStays
  <2>3. CASE x.op = "JZ" /\ d # <<>>
    <3>1. PICK k, l : /\ k = (IF Head(d) THEN x.next ELSE x.branch)
                      /\ l = (IF Head(d) THEN y.next ELSE y.branch)
      OBVIOUS
    <3>2. Step(F, c) = Running(k, u, Tail(d), "on")
      BY <1>4, <1>8, <2>3, <3>1 DEF Takes
    <3>3. Step(G, e) = Running(l, u, Tail(d), "on")
      BY <1>4, <1>8, <2>3, <3>1 DEF Takes
    <3>4. l = lb[k] /\ k \in DOMAIN F
      BY <1>4, <2>3, <3>1 DEF Final, Branch
    <3>. QED BY <1>2, <3>2, <3>3, <3>4 DEF RunsAt
  <2>4. CASE x.op = "JMP"
    <3>2. Step(F, c) = Running(x.branch, u, d, "on")
      BY <1>4, <1>8, <2>4 DEF Takes
    <3>3. Step(G, e) = Running(y.branch, u, d, "on")
      BY <1>4, <1>8, <2>4 DEF Takes
    <3>4. y.branch = lb[x.branch] /\ x.branch \in DOMAIN F
      BY <1>4, <2>4 DEF Branch
    <3>. QED BY <1>2, <3>2, <3>3, <3>4 DEF RunsAt
  <2>5. CASE x.op \notin Final \cup {"JZ"}
    <3>2. Step(F, c) = Running(x.next, u, d, "on")
      BY <1>4, <1>8, <2>5 DEF Takes
    <3>3. Step(G, e) = Running(y.next, u, d, "on")
      BY <1>4, <1>8, <2>5 DEF Takes
    <3>4. y.next = lb[x.next] /\ x.next \in DOMAIN F
      BY <1>4, <2>5
    <3>. QED BY <1>2, <3>2, <3>3, <3>4 DEF RunsAt
  <2>. QED BY <2>1, <2>2, <2>3, <2>4, <2>5 DEF Final
<1>. QED BY <1>1, <1>9, StopsBefore

LEMMA PlacedMeans ==
    ASSUME NEW F, NEW G, NEW lb, Closed(F), Placed(F, G, lb)
    PROVE  \A i \in DOMAIN F : Means(F, i, G, lb[i])
<1>. DEFINE S == {n \in Nat : RunsAt(F, G, lb, n)}
<1>1. 0 \in S
  <2>1. ASSUME NEW i \in DOMAIN F, NEW ev, NEW d, NEW res,
               Stops(F, Running(i, ev, d, "on"), 0, res)
        PROVE  FALSE
    <3>1. res = Running(i, ev, d, "on") /\ res.st # "on"
      BY <2>1 DEF Stops
    <3>. QED BY <3>1, StatusOf
  <2>. QED BY <2>1 DEF RunsAt
<1>2. ASSUME NEW n \in Nat, n \in S PROVE n + 1 \in S
  BY <1>2, StepRunsAt
<1>. HIDE DEF S
<1>3. Nat \subseteq S
  BY <1>1, <1>2, SetInduction
<1>4. \A n \in Nat : RunsAt(F, G, lb, n)
  BY <1>3 DEF S
<1>5. ASSUME NEW i \in DOMAIN F, NEW d, NEW res, NEW m \in Nat, Stops(F, Begin(i, d), m, res)
      PROVE  \E l \in 0 .. m : Stops(G, Begin(lb[i], d), l, res)
  BY <1>4, <1>5 DEF RunsAt, Begin
<1>. QED BY <1>5 DEF Means

(* Indices of variables fit a byte. *)
Fits == \A i \in DOMAIN operand : Stored(operand[i]) = operand[i]

LEMMA MemoryIsPlaced ==
    ASSUME ListInv, ArgsInv, WrittenInv, pass = "done", Fits
    PROVE  Placed(ListFlow, MemoryFlow, label) /\ label[Head(program)] = 0
<1>1. PICK F, G : F = ListFlow /\ G = MemoryFlow
  OBVIOUS
<1>2. FlowIs(F, program, opcode, operand, branch)
  BY <1>1, FlowOfList
<1>3. /\ Listed(program, DOMAIN opcode) /\ Written(program, opcode, operand, branch, label, memory)
  BY DEF ListInv, WrittenInv
<1>4. /\ Len(program) \in Nat /\ Range(program) \subseteq DOMAIN opcode
      /\ \A n \in 1 .. Len(program) : program[n] \in Range(program)
  BY <1>3, ListedFacts
<1>5. G = [l \in DOMAIN memory |->
              [op |-> memory[l].op, arg |-> memory[l].arg,
               next |-> l + 1 + VmSkip(memory[l].op), branch |-> memory[l].target]]
  BY <1>1 DEF MemoryFlow
<1>6. ASSUME NEW i \in DOMAIN F
      PROVE  /\ label[i] \in DOMAIN G /\ G[label[i]].op = F[i].op /\ G[label[i]].arg = F[i].arg
             /\ F[i].op \notin Final => G[label[i]].next = label[F[i].next]
             /\ Branch(F[i].op) => G[label[i]].branch = label[F[i].branch]
  <2>1. i \in Range(program) /\ i \in DOMAIN operand
    BY <1>2, <1>4 DEF FlowIs, ArgsInv
  <2>2. PICK n \in 1 .. Len(program) : program[n] = i
    BY <1>3, <2>1, ListedFacts
  <2>3. /\ F[i].op = opcode[i] /\ F[i].arg = operand[i] /\ F[i].branch = branch[i]
        /\ F[i].next = IF n = Len(program) THEN None ELSE program[n + 1]
    BY <1>2, <2>2 DEF FlowIs
  <2>4. PICK l : l = label[i]
    OBVIOUS
  <2>5. /\ l \in DOMAIN memory /\ memory[l].op = opcode[i] /\ memory[l].arg = Stored(operand[i])
        /\ Branch(opcode[i]) => memory[l].target = label[branch[i]]
        /\ opcode[i] \notin Final =>
               n # Len(program) /\ label[program[n + 1]] = l + 1 + VmSkip(opcode[i])
    BY <1>3, <2>2, <2>4 DEF Written
  <2>6. G[l] = [op |-> memory[l].op, arg |-> memory[l].arg,
                next |-> l + 1 + VmSkip(memory[l].op), branch |-> memory[l].target]
    BY <1>5, <2>5
  <2>7. /\ G[l].op = memory[l].op /\ G[l].arg = memory[l].arg
        /\ G[l].next = l + 1 + VmSkip(memory[l].op) /\ G[l].branch = memory[l].target
    BY <2>6
  <2>8. Stored(operand[i]) = operand[i]
    BY <2>1 DEF Fits
  <2>9. l \in DOMAIN G
    BY <1>5, <2>5
  <2>. QED BY <2>3, <2>4, <2>5, <2>7, <2>8, <2>9
<1>7. label[Head(program)] = 0
  <2>1. Head(program) = program[1]
    BY <1>3 DEF Listed
  <2>. QED BY <1>3, <2>1 DEF Written
<1>. QED BY <1>1, <1>6, <1>7 DEF Placed

(***************************************************************************)
(* From the list that is generated to the bytes that are run               *)
(***************************************************************************)

(* F is the list at first, h where the program began, and B who referred   *)
(* to each instruction, the closures whose body it begins among them.      *)
MeansWhatItDid(F, h, B) ==
    /\ Means(F, h, ListFlow, Head(program))
    /\ \A k \in DOMAIN entry : \A j \in BodiesOf(k) :
          \E i \in DOMAIN F : k \in B[i] /\ Means(F, i, ListFlow, j)

BytesMeanWhatItDid(F, h, B) == pass = "done" /\ Fits =>
    /\ Means(F, h, MemoryFlow, 0)
    /\ \A k \in DOMAIN entry :
          \E i \in DOMAIN F : k \in B[i] /\ Means(F, i, MemoryFlow, label[entry[k]])

LEMMA MeansWhatItDidKept ==
    ASSUME NEW F, NEW h, NEW B
    PROVE  ListInv /\ [StepKeepsMeaning]_vars /\ DOMAIN entry' = DOMAIN entry
               /\ MeansWhatItDid(F, h, B) => MeansWhatItDid(F, h, B)'
<1>1. ASSUME ListInv, StepKeepsMeaning, DOMAIN entry' = DOMAIN entry, MeansWhatItDid(F, h, B)
      PROVE  MeansWhatItDid(F, h, B)'
  <2>1. PICK G, H, e, e2 : /\ G = ListFlow /\ H = ListFlow'
                           /\ e = Head(program) /\ e2 = Head(program')
    OBVIOUS
  <2>2. \A i, j : Leads(G, H, i, j) => Means(G, i, H, j)
    BY <1>1, <2>1, StepMeansTheSame
  <2>3. Means(F, h, H, e2)
    <3>1. Means(F, h, G, e)
      BY <1>1, <2>1 DEF MeansWhatItDid
    <3>2. Leads(G, H, e, e2)
      BY <1>1, <2>1 DEF StepKeepsMeaning
    <3>. QED BY <2>2, <3>1, <3>2, MeansTrans
  <2>4. ASSUME NEW k \in DOMAIN entry, NEW j \in BodiesOf(k)'
        PROVE  \E i \in DOMAIN F : k \in B[i] /\ Means(F, i, H, j)
    <3>1. PICK m \in BodiesOf(k) : Leads(G, H, m, j)
      BY <1>1, <2>1, <2>4 DEF StepKeepsMeaning
    <3>2. PICK i \in DOMAIN F : k \in B[i] /\ Means(F, i, G, m)
      BY <1>1, <2>1 DEF MeansWhatItDid
    <3>. QED BY <2>2, <3>1, <3>2, MeansTrans
  <2>. QED BY <1>1, <2>1, <2>3, <2>4 DEF MeansWhatItDid
<1>2. ASSUME UNCHANGED vars, MeansWhatItDid(F, h, B) PROVE MeansWhatItDid(F, h, B)'
  BY <1>2 DEF MeansWhatItDid, BodiesOf, ListFlow, NextOf, Place, vars, code
<1>. QED BY <1>1, <1>2

LEMMA BytesMean ==
    ASSUME NEW F, NEW h, NEW B
    PROVE  ListInv /\ ArgsInv /\ WrittenInv /\ MeansWhatItDid(F, h, B) =>
               BytesMeanWhatItDid(F, h, B)
<1>. SUFFICES ASSUME ListInv, ArgsInv, WrittenInv, MeansWhatItDid(F, h, B), pass = "done", Fits
              PROVE  /\ Means(F, h, MemoryFlow, 0)
                     /\ \A k \in DOMAIN entry : \E i \in DOMAIN F :
                           k \in B[i] /\ Means(F, i, MemoryFlow, label[entry[k]])
  BY DEF BytesMeanWhatItDid
<1>1. PICK G, M : G = ListFlow /\ M = MemoryFlow
  OBVIOUS
<1>2. Placed(G, M, label) /\ label[Head(program)] = 0 /\ Closed(G)
  BY <1>1, MemoryIsPlaced, ListIsClosed
<1>3. \A i \in DOMAIN G : Means(G, i, M, label[i])
  BY <1>2, PlacedMeans
<1>4. DOMAIN G = Range(program)
  BY <1>1 DEF ListFlow
<1>5. Means(F, h, M, 0)
  <2>1. PICK e : e = Head(program)
    OBVIOUS
  <2>2. e \in DOMAIN G
    BY <1>4, <2>1, ListedFacts DEF ListInv, Listed
  <2>3. Means(F, h, G, e)
    BY <1>1, <2>1 DEF MeansWhatItDid
  <2>4. Means(G, e, M, 0)
    BY <1>2, <1>3, <2>1, <2>2
  <2>. QED BY <2>3, <2>4, MeansTrans
<1>6. ASSUME NEW k \in DOMAIN entry
      PROVE  \E i \in DOMAIN F : k \in B[i] /\ Means(F, i, M, label[entry[k]])
  <2>1. PICK e : e = entry[k]
    OBVIOUS
  <2>2. e \in Range(program) /\ k \in referrers[e]
    BY <2>1 DEF ListInv, Links
  <2>3. PICK i \in DOMAIN F : k \in B[i] /\ Means(F, i, G, e)
    BY <1>1, <2>2 DEF MeansWhatItDid, BodiesOf
  <2>4. Means(G, e, M, label[e])
    BY <1>3, <1>4, <2>2
  <2>. QED BY <2>1, <2>3, <2>4, MeansTrans
<1>. QED BY <1>1, <1>5, <1>6

(* Whatever a run of the list that ast_gen_r has made comes to, however    *)
(* its tests turn out, a run of what the passes have made of it comes to   *)
(* at every step, with the same effects, and so does a run of the bytes    *)
(* that iprogram_gen writes, from byte 0: the main program and the bodies  *)
(* of the closures alike.                                                  *)
THEOREM OptimizerAndEncoderKeepMeaning ==
    ASSUME NEW F, NEW h, NEW B
    PROVE  Spec /\ ListFlow = F /\ Head(program) = h /\ referrers = B =>
               [](MeansWhatItDid(F, h, B) /\ BytesMeanWhatItDid(F, h, B))
<1>1. ListFlow = F /\ Head(program) = h /\ referrers = B => MeansWhatItDid(F, h, B)
  <2>1. ASSUME ListFlow = F, Head(program) = h, referrers = B PROVE MeansWhatItDid(F, h, B)
    <3>1. \A i : Means(F, i, F, i)
      <4>1. \A m \in Nat : m \in 0 .. m
        OBVIOUS
      <4>. QED BY <4>1 DEF Means
    <3>2. DOMAIN F = Range(program)
      BY <2>1 DEF ListFlow
    <3>. QED BY <2>1, <3>1, <3>2 DEF MeansWhatItDid, BodiesOf
  <2>. QED BY <2>1
<1>2. [Next]_vars => DOMAIN entry' = DOMAIN entry
  BY DEF Next, vars, code, Visiting, EliminateNop, Rewire, ReplaceJump, OptimizeTailCall,
         PushSmallInt, EliminateDead, KeepAlive, PassBy, Encode, Done
<1>3. Spec => [][StepKeepsMeaning]_vars
  BY EveryStepKeepsMeaning DEF MeaningIsKept
<1>4. Spec /\ ListFlow = F /\ Head(program) = h /\ referrers = B => []MeansWhatItDid(F, h, B)
  BY <1>1, <1>2, <1>3, ListInvariant, MeansWhatItDidKept, PTL DEF Spec
<1>. QED BY <1>4, ListInvariant, ArgsInvariant, WrittenInvariant, BytesMean, PTL

(***************************************************************************)
(* Runs over syntax trees                                                  *)
(***************************************************************************)

(* A run over a tree from c that comes to res, where it has ended.         *)
TreeStops(c, n, res) ==
    /\ res.st # "on"
    /\ \E r : r[0] = c /\ r[n] = res /\ \A k \in 0 .. n - 1 : r[k + 1] = TreeStep(r[k])

LEMMA TreeStopsAfter ==
    ASSUME NEW c, NEW n \in Nat, NEW res, TreeStops(c, n, res), c.st = "on"
    PROVE  \E m \in Nat : n = m + 1 /\ TreeStops(TreeStep(c), m, res)
<1>1. PICK r : r[0] = c /\ r[n] = res /\ \A k \in 0 .. n - 1 : r[k + 1] = TreeStep(r[k])
  BY DEF TreeStops
<1>2. n # 0
  BY <1>1 DEF TreeStops
<1>3. PICK m \in Nat : m = n - 1 /\ n = m + 1
  BY <1>2
<1>4. PICK q : q = [k \in 0 .. m |-> r[k + 1]]
  OBVIOUS
<1>5. q[0] = TreeStep(c)
  <2>1. 0 \in 0 .. n - 1 /\ 0 + 1 = 1 /\ 0 \in 0 .. m
    BY <1>3
  <2>2. r[0 + 1] = TreeStep(r[0])
    BY <1>1, <2>1
  <2>. QED BY <1>1, <1>4, <2>1, <2>2
<1>6. q[m] = res
  BY <1>1, <1>3, <1>4
<1>7. ASSUME NEW k \in 0 .. m - 1 PROVE q[k + 1] = TreeStep(q[k])
  <2>1. k + 1 \in 0 .. n - 1 /\ k + 1 \in 0 .. m /\ k \in 0 .. m
    BY <1>3
  <2>2. r[k + 1 + 1] = TreeStep(r[k + 1])
    BY <1>1, <2>1
  <2>. QED BY <1>4, <2>1, <2>2
<1>8. TreeStops(TreeStep(c), m, res)
  BY <1>5, <1>6, <1>7 DEF TreeStops
<1>. QED BY <1>3, <1>8

(* What has ended is where it comes to.                                    *)
LEMMA TreeEnded ==
    ASSUME NEW c, NEW n \in Nat, NEW res, TreeStops(c, n, res), c.st # "on"
    PROVE  res = c
<1>1. TreeStep(c) = c
  BY DEF TreeStep
<1>2. PICK r : r[0] = c /\ r[n] = res /\ \A k \in 0 .. n - 1 : r[k + 1] = TreeStep(r[k])
  BY DEF TreeStops
<1>. DEFINE S == {k \in Nat : k <= n => r[k] = c}
<1>3. 0 \in S
  BY <1>2
<1>4. ASSUME NEW k \in Nat, k \in S PROVE k + 1 \in S
  <2>1. ASSUME k + 1 <= n PROVE r[k + 1] = c
    <3>1. k \in 0 .. n - 1 /\ r[k] = c
      BY <1>4, <2>1
    <3>. QED BY <1>1, <1>2, <3>1
  <2>. QED BY <2>1
<1>. HIDE DEF S
<1>5. Nat \subseteq S
  BY <1>3, <1>4, SetInduction
<1>6. n \in S
  BY <1>5
<1>. QED BY <1>2, <1>6 DEF S

(* One step, for each kind of what is still to do.                         *)
LEMMA RunningHas ==
    \A at, ev, d, st : /\ Running(at, ev, d, st).at = at /\ Running(at, ev, d, st).ev = ev
                       /\ Running(at, ev, d, st).d = d /\ Running(at, ev, d, st).st = st
BY DEF Running

LEMMA UnfoldStep ==
    ASSUME NEW ev, IsSeq(ev), NEW d, NEW a, NEW rest
    PROVE  TreeStep(Running(Then(a, rest), ev, d, "on")) = Running(Unfold(a, rest), ev, d, "on")
<1>1. PICK k, c : k = Then(a, rest) /\ c = Running(k, ev, d, "on")
  OBVIOUS
<1>2. c.at = k /\ c.ev = ev /\ c.d = d /\ c.st = "on"
  BY <1>1, RunningHas
<1>3. k.t = "then" /\ k.tree = a /\ k.rest = rest
  BY <1>1 DEF Then
<1>4. TreeStep(c) = Running(Unfold(a, rest), ev \o <<>>, d, "on")
  BY <1>2, <1>3 DEF TreeStep
<1>. QED BY <1>1, <1>4, Joined

LEMMA DoStep ==
    ASSUME NEW ev, NEW d, NEW e, NEW rest
    PROVE  TreeStep(Running(Do(e, rest), ev, d, "on")) = Running(rest, ev \o <<e>>, d, "on")
<1>1. PICK k, c : k = Do(e, rest) /\ c = Running(k, ev, d, "on")
  OBVIOUS
<1>2. c.at = k /\ c.ev = ev /\ c.d = d /\ c.st = "on"
  BY <1>1, RunningHas
<1>3. k.t = "do" /\ k.effect = e /\ k.rest = rest
  BY <1>1 DEF Do
<1>. QED BY <1>1, <1>2, <1>3 DEF TreeStep

LEMMA EndStep ==
    ASSUME NEW ev, NEW d, NEW op
    PROVE  TreeStep(Running(End(op), ev, d, "on")) = Running(None, ev \o <<Effect(op)>>, d, "end")
<1>1. PICK k, c : k = End(op) /\ c = Running(k, ev, d, "on")
  OBVIOUS
<1>2. c.at = k /\ c.ev = ev /\ c.d = d /\ c.st = "on"
  BY <1>1, RunningHas
<1>3. k.t = "end" /\ k.op = op
  BY <1>1 DEF End
<1>. QED BY <1>1, <1>2, <1>3 DEF TreeStep

LEMMA TestStep ==
    ASSUME NEW ev, NEW d, NEW yes, NEW no
    PROVE  TreeStep(Running(Test(yes, no), ev, d, "on")) =
               IF d = <<>> THEN Running(None, ev \o <<Effect("JZ")>>, d, "cut")
               ELSE Running(IF Head(d) THEN yes ELSE no, ev \o <<Effect("JZ")>>, Tail(d), "on")
<1>1. PICK k, c : k = Test(yes, no) /\ c = Running(k, ev, d, "on")
  OBVIOUS
<1>2. c.at = k /\ c.ev = ev /\ c.d = d /\ c.st = "on"
  BY <1>1, RunningHas
<1>3. k.t = "test" /\ k.yes = yes /\ k.no = no
  BY <1>1 DEF Test
<1>4. d = <<>> => TreeStep(c) = Running(None, ev \o <<Effect("JZ")>>, d, "cut")
  BY <1>2, <1>3 DEF TreeStep
<1>5. d # <<>> => TreeStep(c) = Running(IF Head(d) THEN yes ELSE no,
                                        ev \o <<Effect("JZ")>>, Tail(d), "on")
  BY <1>2, <1>3 DEF TreeStep
<1>. QED BY <1>1, <1>4, <1>5

(***************************************************************************)
(* Code does what a tree has to be done                                    *)
(***************************************************************************)

(* What a run of m steps over TODO comes to, a run through F from i comes  *)
(* to, in less than twice as many steps and s more.                        *)
FollowsIn(F, i, todo, m, s) == \A ev, d, res :
    IsSeq(ev) /\ TreeStops(Running(todo, ev, d, "on"), m, res) =>
        \E l \in Nat : l < 2 * m + s /\ Stops(F, Running(i, ev, d, "on"), l, res)

Follows(F, i, todo, M, s) == \A m \in 0 .. M : FollowsIn(F, i, todo, m, s)

LEMMA FollowsLess ==
    ASSUME NEW F, NEW i, NEW todo, NEW M \in Nat, NEW s \in Nat, NEW N \in Nat, NEW t \in Nat,
           N <= M, s <= t, Follows(F, i, todo, M, s)
    PROVE  Follows(F, i, todo, N, t)
<1>1. ASSUME NEW m \in 0 .. N, NEW ev, NEW d, NEW res,
             IsSeq(ev), TreeStops(Running(todo, ev, d, "on"), m, res)
      PROVE  \E l \in Nat : l < 2 * m + t /\ Stops(F, Running(i, ev, d, "on"), l, res)
  <2>1. m \in 0 .. M
    OBVIOUS
  <2>2. PICK l \in Nat : l < 2 * m + s /\ Stops(F, Running(i, ev, d, "on"), l, res)
    BY <1>1, <2>1 DEF Follows, FollowsIn
  <2>3. l < 2 * m + t
    BY <2>2
  <2>. QED BY <2>2, <2>3
<1>. QED BY <1>1 DEF Follows, FollowsIn

(* The first step over what is to do. *)
LEMMA FirstTreeStep ==
    ASSUME NEW todo, NEW m \in Nat, NEW ev, NEW d, NEW res,
           TreeStops(Running(todo, ev, d, "on"), m, res)
    PROVE  \E n \in Nat : m = n + 1 /\ TreeStops(TreeStep(Running(todo, ev, d, "on")), n, res)
<1>1. PICK c : c = Running(todo, ev, d, "on")
  OBVIOUS
<1>2. c.st = "on"
  BY <1>1, StatusOf
<1>. QED BY <1>1, <1>2, TreeStopsAfter

LEMMA UnfoldFollows ==
    ASSUME NEW F, NEW i, NEW a, NEW rest, NEW M \in Nat, NEW s \in Nat,
           Follows(F, i, Unfold(a, rest), M, s + 2)
    PROVE  Follows(F, i, Then(a, rest), M + 1, s)
<1>1. ASSUME NEW m \in 0 .. M + 1, NEW ev, NEW d, NEW res,
             IsSeq(ev), TreeStops(Running(Then(a, rest), ev, d, "on"), m, res)
      PROVE  \E l \in Nat : l < 2 * m + s /\ Stops(F, Running(i, ev, d, "on"), l, res)
  <2>1. PICK n \in Nat : /\ m = n + 1
                         /\ TreeStops(TreeStep(Running(Then(a, rest), ev, d, "on")), n, res)
    BY <1>1, FirstTreeStep
  <2>2. TreeStops(Running(Unfold(a, rest), ev, d, "on"), n, res)
    <3>1. TreeStep(Running(Then(a, rest), ev, d, "on")) = Running(Unfold(a, rest), ev, d, "on")
      BY <1>1, UnfoldStep
    <3>. QED BY <2>1, <3>1
  <2>3. n \in 0 .. M
    BY <2>1
  <2>4. PICK l \in Nat : l < 2 * n + (s + 2) /\ Stops(F, Running(i, ev, d, "on"), l, res)
    BY <1>1, <2>2, <2>3 DEF Follows, FollowsIn
  <2>5. l < 2 * m + s
    BY <2>1, <2>4
  <2>. QED BY <2>4, <2>5
<1>. QED BY <1>1 DEF Follows, FollowsIn

(* An instruction without an effect. *)
LEMMA SkipFollows ==
    ASSUME NEW F, NEW i \in DOMAIN F, NEW j, NEW todo, NEW M \in Nat, NEW s \in Nat,
           (F[i].op = "NOP" /\ F[i].next = j) \/ (F[i].op = "JMP" /\ F[i].branch = j),
           Follows(F, j, todo, M, s)
    PROVE  Follows(F, i, todo, M, s + 1)
<1>1. ASSUME NEW m \in 0 .. M, NEW ev, NEW d, NEW res,
             IsSeq(ev), TreeStops(Running(todo, ev, d, "on"), m, res)
      PROVE  \E l \in Nat : l < 2 * m + (s + 1) /\ Stops(F, Running(i, ev, d, "on"), l, res)
  <2>1. PICK x, u : x = F[i] /\ u = ev \o Effects(x)
    OBVIOUS
  <2>2. PICK c : c = Running(i, ev, d, "on")
    OBVIOUS
  <2>3. Effects(x) = <<>>
    BY <2>1 DEF Effects, WithOperand
  <2>4. u = ev
    BY <1>1, <2>1, <2>3, Joined
  <2>5. Takes(Step(F, c), x, u, d)
    BY <2>1, <2>2, StepIs
  <2>6. Step(F, c) = Running(j, ev, d, "on")
    BY <2>1, <2>4, <2>5 DEF Takes, Final
  <2>7. PICK l \in Nat : l < 2 * m + s /\ Stops(F, Running(j, ev, d, "on"), l, res)
    BY <1>1 DEF Follows, FollowsIn
  <2>8. Stops(F, c, l + 1, res)
    BY <2>6, <2>7, StopsBefore
  <2>9. l + 1 \in Nat /\ l + 1 < 2 * m + (s + 1)
    BY <2>7
  <2>. QED BY <2>2, <2>8, <2>9
<1>. QED BY <1>1 DEF Follows, FollowsIn

(* An instruction with one effect. *)
LEMMA DoFollows ==
    ASSUME NEW F, NEW i \in DOMAIN F, NEW e, NEW rest, NEW M \in Nat, NEW s \in Nat,
           Effects(F[i]) = <<e>>, F[i].op \notin Final \cup {"JZ"},
           Follows(F, F[i].next, rest, M, s + 1)
    PROVE  Follows(F, i, Do(e, rest), M + 1, s)
<1>1. ASSUME NEW m \in 0 .. M + 1, NEW ev, NEW d, NEW res,
             IsSeq(ev), TreeStops(Running(Do(e, rest), ev, d, "on"), m, res)
      PROVE  \E l \in Nat : l < 2 * m + s /\ Stops(F, Running(i, ev, d, "on"), l, res)
  <2>1. PICK x, u : x = F[i] /\ u = ev \o Effects(x)
    OBVIOUS
  <2>2. PICK c : c = Running(i, ev, d, "on")
    OBVIOUS
  <2>3. u = ev \o <<e>> /\ IsSeq(u)
    BY <1>1, <2>1, EffectsIsSeq, Joined
  <2>4. PICK n \in Nat : /\ m = n + 1
                         /\ TreeStops(TreeStep(Running(Do(e, rest), ev, d, "on")), n, res)
    BY <1>1, FirstTreeStep
  <2>5. TreeStops(Running(rest, u, d, "on"), n, res)
    <3>1. TreeStep(Running(Do(e, rest), ev, d, "on")) = Running(rest, ev \o <<e>>, d, "on")
      BY DoStep
    <3>. QED BY <2>3, <2>4, <3>1
  <2>6. Takes(Step(F, c), x, u, d)
    BY <2>1, <2>2, StepIs
  <2>7. Step(F, c) = Running(x.next, u, d, "on")
    BY <2>1, <2>6 DEF Takes
  <2>8. n \in 0 .. M
    BY <2>4
  <2>9. PICK l \in Nat : l < 2 * n + (s + 1) /\ Stops(F, Running(x.next, u, d, "on"), l, res)
    BY <2>1, <2>3, <2>5, <2>8 DEF Follows, FollowsIn
  <2>10. Stops(F, c, l + 1, res)
    BY <2>7, <2>9, StopsBefore
  <2>11. l + 1 \in Nat /\ l + 1 < 2 * m + s
    BY <2>4, <2>9
  <2>. QED BY <2>2, <2>10, <2>11
<1>. QED BY <1>1 DEF Follows, FollowsIn

(* Where both end, after one step. *)
LEMMA EndTogether ==
    ASSUME NEW F, NEW c, NEW e, NEW n \in Nat, NEW res, NEW s \in Nat,
           Step(F, c) = e, e.st # "on", TreeStops(e, n, res)
    PROVE  \E l \in Nat : l < 2 * (n + 1) + s /\ Stops(F, c, l, res)
<1>1. res = e
  BY TreeEnded
<1>2. Stops(F, Step(F, c), 0, res)
  BY <1>1, StopsNow
<1>3. Stops(F, c, 0 + 1, res)
  BY <1>2, StopsBefore
<1>4. 0 + 1 \in Nat /\ 0 + 1 < 2 * (n + 1) + s
  OBVIOUS
<1>. QED BY <1>3, <1>4

LEMMA TestFollows ==
    ASSUME NEW F, NEW i \in DOMAIN F, NEW yes, NEW no, NEW M \in Nat, NEW s \in Nat,
           F[i].op = "JZ",
           Follows(F, F[i].next, yes, M, s + 1), Follows(F, F[i].branch, no, M, s + 1)
    PROVE  Follows(F, i, Test(yes, no), M + 1, s)
<1>1. ASSUME NEW m \in 0 .. M + 1, NEW ev, NEW d, NEW res,
             IsSeq(ev), TreeStops(Running(Test(yes, no), ev, d, "on"), m, res)
      PROVE  \E l \in Nat : l < 2 * m + s /\ Stops(F, Running(i, ev, d, "on"), l, res)
  <2>1. PICK x, u : x = F[i] /\ u = ev \o Effects(x)
    OBVIOUS
  <2>2. PICK c : c = Running(i, ev, d, "on")
    OBVIOUS
  <2>3. Effects(x) = <<Effect("JZ")>>
    BY <2>1 DEF Effects, WithOperand
  <2>4. u = ev \o <<Effect("JZ")>> /\ IsSeq(u)
    BY <1>1, <2>1, <2>3, EffectsIsSeq, Joined
  <2>5. PICK n \in Nat : /\ m = n + 1
                         /\ TreeStops(TreeStep(Running(Test(yes, no), ev, d, "on")), n, res)
    BY <1>1, FirstTreeStep
  <2>6. n \in 0 .. M
    BY <2>5
  <2>7. Takes(Step(F, c), x, u, d)
    BY <2>1, <2>2, StepIs
  <2>8. CASE d = <<>>
    <3>1. PICK e : e = Running(None, u, d, "cut")
      OBVIOUS
    <3>2. TreeStops(e, n, res)
      <4>1. TreeStep(Running(Test(yes, no), ev, d, "on"))
                = Running(None, ev \o <<Effect("JZ")>>, d, "cut")
        BY <2>8, TestStep
      <4>. QED BY <2>4, <2>5, <3>1, <4>1
    <3>3. Step(F, c) = e /\ e.st # "on"
      <4>1. e.st # "on"
        BY <3>1, StatusOf
      <4>. QED BY <2>1, <2>7, <2>8, <3>1, <4>1 DEF Takes
    <3>4. \E l \in Nat : l < 2 * (n + 1) + s /\ Stops(F, c, l, res)
      BY <3>2, <3>3, EndTogether
    <3>. QED BY <2>2, <2>5, <3>4
  <2>9. CASE d # <<>>
    <3>1. PICK j, todo : /\ j = (IF Head(d) THEN x.next ELSE x.branch)
                         /\ todo = (IF Head(d) THEN yes ELSE no)
      OBVIOUS
    <3>2. TreeStops(Running(todo, u, Tail(d), "on"), n, res)
      <4>1. TreeStep(Running(Test(yes, no), ev, d, "on"))
                = Running(todo, ev \o <<Effect("JZ")>>, Tail(d), "on")
        BY <2>9, <3>1, TestStep
      <4>. QED BY <2>4, <2>5, <4>1
    <3>3. Step(F, c) = Running(j, u, Tail(d), "on")
      BY <2>1, <2>7, <2>9, <3>1 DEF Takes
    <3>4. Follows(F, j, todo, M, s + 1)
      BY <2>1, <3>1
    <3>5. PICK l \in Nat : l < 2 * n + (s + 1) /\ Stops(F, Running(j, u, Tail(d), "on"), l, res)
      BY <2>4, <2>6, <3>2, <3>4 DEF Follows, FollowsIn
    <3>6. Stops(F, c, l + 1, res)
      BY <3>3, <3>5, StopsBefore
    <3>7. l + 1 \in Nat /\ l + 1 < 2 * m + s
      BY <2>5, <3>5
    <3>. QED BY <2>2, <3>6, <3>7
  <2>. QED BY <2>8, <2>9
<1>. QED BY <1>1 DEF Follows, FollowsIn

LEMMA EndFollows ==
    ASSUME NEW F, NEW i \in DOMAIN F, F[i].op \in {"RET", "HALT"}, NEW M \in Nat, NEW s \in Nat
    PROVE  Follows(F, i, End(F[i].op), M, s)
<1>1. ASSUME NEW m \in 0 .. M, NEW ev, NEW d, NEW res,
             IsSeq(ev), TreeStops(Running(End(F[i].op), ev, d, "on"), m, res)
      PROVE  \E l \in Nat : l < 2 * m + s /\ Stops(F, Running(i, ev, d, "on"), l, res)
  <2>1. PICK x, u : x = F[i] /\ u = ev \o Effects(x)
    OBVIOUS
  <2>2. PICK c, e : c = Running(i, ev, d, "on") /\ e = Running(None, u, d, "end")
    OBVIOUS
  <2>3. Effects(x) = <<Effect(x.op)>>
    BY <2>1 DEF Effects, WithOperand
  <2>4. PICK n \in Nat : /\ m = n + 1
                         /\ TreeStops(TreeStep(Running(End(x.op), ev, d, "on")), n, res)
    BY <1>1, <2>1, FirstTreeStep
  <2>5. TreeStops(e, n, res)
    <3>1. TreeStep(Running(End(x.op), ev, d, "on"))
              = Running(None, ev \o <<Effect(x.op)>>, d, "end")
      BY EndStep
    <3>. QED BY <2>1, <2>2, <2>3, <2>4, <3>1
  <2>6. Takes(Step(F, c), x, u, d)
    BY <2>1, <2>2, StepIs
  <2>7. Step(F, c) = e /\ e.st # "on"
    <3>1. e.st # "on"
      BY <2>2, StatusOf
    <3>. QED BY <2>1, <2>2, <2>6, <3>1 DEF Takes
  <2>8. \E l \in Nat : l < 2 * (n + 1) + s /\ Stops(F, c, l, res)
    BY <2>5, <2>7, EndTogether
  <2>. QED BY <2>2, <2>4, <2>8
<1>. QED BY <1>1 DEF Follows, FollowsIn

(***************************************************************************)
(* Where pieces of code lie                                                *)
(***************************************************************************)

(* The sequence h lies in g, behind the first o instructions.              *)
Lies(g, h, o) == \A i \in 1 .. Len(h) : o + i \in 1 .. Len(g) /\ g[o + i] = h[i]

LEMMA JoinedHas ==
    ASSUME NEW s, NEW t, IsSeq(s), IsSeq(t)
    PROVE  /\ IsSeq(s \o t) /\ Len(s) \in Nat /\ Len(t) \in Nat
           /\ Len(s \o t) = Len(s) + Len(t)
           /\ \A i \in 1 .. Len(s) : (s \o t)[i] = s[i]
           /\ \A i \in 1 .. Len(t) : (s \o t)[Len(s) + i] = t[i]
<1>1. PICK A, B : s \in Seq(A) /\ t \in Seq(B)
  BY IsSeqIn
<1>2. PICK S : S = A \cup B
  OBVIOUS
<1>3. s \in Seq(S) /\ t \in Seq(S)
  BY <1>1, <1>2, SeqDef
<1>4. s \o t \in Seq(S) /\ Len(s \o t) = Len(s) + Len(t) /\ Len(s) \in Nat /\ Len(t) \in Nat
  BY <1>3, ConcatProperties
<1>5. \A i \in 1 .. Len(s) + Len(t) : (s \o t)[i] = IF i <= Len(s) THEN s[i] ELSE t[i - Len(s)]
  BY <1>3, ConcatProperties
<1>6. \A i \in 1 .. Len(s) : (s \o t)[i] = s[i]
  BY <1>4, <1>5
<1>7. ASSUME NEW i \in 1 .. Len(t) PROVE (s \o t)[Len(s) + i] = t[i]
  <2>1. Len(s) + i \in 1 .. Len(s) + Len(t) /\ ~(Len(s) + i <= Len(s)) /\ Len(s) + i - Len(s) = i
    BY <1>4
  <2>. QED BY <1>5, <2>1
<1>. QED BY <1>4, <1>6, <1>7, SeqIsSeq

LEMMA ShortSeqs ==
    /\ IsSeq(<<>>) /\ Len(<<>>) = 0
    /\ \A x : IsSeq(<<x>>) /\ Len(<<x>>) = 1
    /\ \A x, y : IsSeq(<<x, y>>) /\ Len(<<x, y>>) = 2
    /\ \A x, y, z, w : IsSeq(<<x, y, z, w>>) /\ Len(<<x, y, z, w>>) = 4
<1>1. <<>> \in Seq({}) /\ Len(<<>>) = 0
  OBVIOUS
<1>2. \A x : <<x>> \in Seq({x}) /\ Len(<<x>>) = 1
  OBVIOUS
<1>3. \A x, y : <<x, y>> \in Seq({x, y}) /\ Len(<<x, y>>) = 2
  OBVIOUS
<1>4. \A x, y, z, w : <<x, y, z, w>> \in Seq({x, y, z, w}) /\ Len(<<x, y, z, w>>) = 4
  OBVIOUS
<1>. QED BY <1>1, <1>2, <1>3, <1>4, SeqIsSeq

LEMMA LiesJoined ==
    ASSUME NEW g, NEW s, NEW t, IsSeq(s), IsSeq(t), NEW o \in Nat
    PROVE  /\ IsSeq(s \o t) /\ Len(s) \in Nat /\ Len(t) \in Nat
           /\ Len(s \o t) = Len(s) + Len(t)
           /\ Lies(g, s \o t, o) => Lies(g, s, o) /\ Lies(g, t, o + Len(s))
<1>1. /\ IsSeq(s \o t) /\ Len(s) \in Nat /\ Len(t) \in Nat
      /\ Len(s \o t) = Len(s) + Len(t)
      /\ \A i \in 1 .. Len(s) : (s \o t)[i] = s[i]
      /\ \A i \in 1 .. Len(t) : (s \o t)[Len(s) + i] = t[i]
  BY JoinedHas
<1>2. ASSUME Lies(g, s \o t, o) PROVE Lies(g, s, o) /\ Lies(g, t, o + Len(s))
  <2>1. ASSUME NEW i \in 1 .. Len(s) PROVE o + i \in 1 .. Len(g) /\ g[o + i] = s[i]
    <3>1. i \in 1 .. Len(s \o t)
      BY <1>1
    <3>. QED BY <1>1, <1>2, <3>1 DEF Lies
  <2>2. ASSUME NEW i \in 1 .. Len(t)
        PROVE  o + Len(s) + i \in 1 .. Len(g) /\ g[o + Len(s) + i] = t[i]
    <3>1. Len(s) + i \in 1 .. Len(s \o t) /\ o + Len(s) + i = o + (Len(s) + i)
      BY <1>1
    <3>. QED BY <1>1, <1>2, <3>1 DEF Lies
  <2>. QED BY <2>1, <2>2 DEF Lies
<1>. QED BY <1>1, <1>2

(* Three in a row, and four.                                               *)
LEMMA LiesThree ==
    ASSUME NEW g, NEW s, NEW t, NEW u, IsSeq(s), IsSeq(t), IsSeq(u), NEW o \in Nat
    PROVE  /\ IsSeq(s \o t \o u) /\ Len(s) \in Nat /\ Len(t) \in Nat /\ Len(u) \in Nat
           /\ Len(s \o t \o u) = Len(s) + Len(t) + Len(u)
           /\ Lies(g, s \o t \o u, o) =>
                 Lies(g, s, o) /\ Lies(g, t, o + Len(s)) /\ Lies(g, u, o + Len(s) + Len(t))
<1>1. PICK v : v = s \o t
  OBVIOUS
<1>2. /\ IsSeq(v) /\ Len(v) = Len(s) + Len(t) /\ Len(s) \in Nat /\ Len(t) \in Nat
      /\ Lies(g, v, o) => Lies(g, s, o) /\ Lies(g, t, o + Len(s))
  BY <1>1, LiesJoined
<1>3. /\ IsSeq(v \o u) /\ Len(v \o u) = Len(v) + Len(u) /\ Len(u) \in Nat
      /\ Lies(g, v \o u, o) => Lies(g, v, o) /\ Lies(g, u, o + Len(v))
  BY <1>2, LiesJoined
<1>4. o + Len(v) = o + Len(s) + Len(t) /\ Len(v) + Len(u) = Len(s) + Len(t) + Len(u)
  BY <1>2, <1>3
<1>. QED BY <1>1, <1>2, <1>3, <1>4

(* The same in two parts: what a step says of five sequences is too much   *)
(* for one.                                                                *)
LEMMA SeqOfThree ==
    ASSUME NEW s, NEW t, NEW u, IsSeq(s), IsSeq(t), IsSeq(u)
    PROVE  IsSeq(s \o t \o u)
BY JoinedHas

LEMMA LiesInThree ==
    ASSUME NEW g, NEW s, NEW t, NEW u, IsSeq(s), IsSeq(t), IsSeq(u), NEW o \in Nat
    PROVE  /\ Len(t) \in Nat /\ Len(s \o t \o u) = Len(s) + Len(t) + Len(u)
           /\ Lies(g, s \o t \o u, o) =>
                 Lies(g, s, o) /\ Lies(g, t, o + Len(s)) /\ Lies(g, u, o + Len(s) + Len(t))
BY LiesThree

LEMMA LiesFour ==
    ASSUME NEW g, NEW s, NEW t, NEW u, NEW v, IsSeq(s), IsSeq(t), IsSeq(u), IsSeq(v),
           NEW o \in Nat
    PROVE  /\ IsSeq(s \o t \o u \o v)
           /\ Len(s) \in Nat /\ Len(t) \in Nat /\ Len(u) \in Nat /\ Len(v) \in Nat
           /\ Len(s \o t \o u \o v) = Len(s) + Len(t) + Len(u) + Len(v)
           /\ Lies(g, s \o t \o u \o v, o) =>
                 /\ Lies(g, s, o) /\ Lies(g, t, o + Len(s)) /\ Lies(g, u, o + Len(s) + Len(t))
                 /\ Lies(g, v, o + Len(s) + Len(t) + Len(u))
<1>1. PICK w : w = s \o t \o u
  OBVIOUS
<1>2. /\ IsSeq(w) /\ Len(s) \in Nat /\ Len(t) \in Nat /\ Len(u) \in Nat
      /\ Len(w) = Len(s) + Len(t) + Len(u)
      /\ Lies(g, w, o) =>
            Lies(g, s, o) /\ Lies(g, t, o + Len(s)) /\ Lies(g, u, o + Len(s) + Len(t))
  BY <1>1, LiesThree
<1>3. /\ IsSeq(w \o v) /\ Len(w \o v) = Len(w) + Len(v) /\ Len(v) \in Nat
      /\ Lies(g, w \o v, o) => Lies(g, w, o) /\ Lies(g, v, o + Len(w))
  BY <1>2, LiesJoined
<1>4. /\ o + Len(w) = o + Len(s) + Len(t) + Len(u)
      /\ Len(w) + Len(v) = Len(s) + Len(t) + Len(u) + Len(v)
  BY <1>2, <1>3
<1>. QED BY <1>1, <1>2, <1>3, <1>4

(* One instruction, two and four.                                          *)
LEMMA LiesShort ==
    ASSUME NEW g, NEW o \in Nat
    PROVE  /\ \A x : Lies(g, <<x>>, o) => o + 1 \in 1 .. Len(g) /\ g[o + 1] = x
           /\ \A x, y : Lies(g, <<x, y>>, o) =>
                 /\ o + 1 \in 1 .. Len(g) /\ g[o + 1] = x
                 /\ o + 2 \in 1 .. Len(g) /\ g[o + 2] = y
           /\ \A x, y, z, w : Lies(g, <<x, y, z, w>>, o) =>
                 /\ o + 1 \in 1 .. Len(g) /\ g[o + 1] = x
                 /\ o + 2 \in 1 .. Len(g) /\ g[o + 2] = y
                 /\ o + 3 \in 1 .. Len(g) /\ g[o + 3] = z
                 /\ o + 4 \in 1 .. Len(g) /\ g[o + 4] = w
<1>1. ASSUME NEW x, Lies(g, <<x>>, o) PROVE o + 1 \in 1 .. Len(g) /\ g[o + 1] = x
  <2>0. PICK h : h = <<x>>
    OBVIOUS
  <2>1. h[1] = x /\ Len(h) = 1
    BY <2>0
  <2>2. 1 \in 1 .. Len(h)
    BY <2>1
  <2>. QED BY <1>1, <2>0, <2>1, <2>2 DEF Lies
<1>2. ASSUME NEW x, NEW y, Lies(g, <<x, y>>, o)
      PROVE  /\ o + 1 \in 1 .. Len(g) /\ g[o + 1] = x
             /\ o + 2 \in 1 .. Len(g) /\ g[o + 2] = y
  <2>0. PICK h : h = <<x, y>>
    OBVIOUS
  <2>1. h[1] = x /\ h[2] = y /\ Len(h) = 2
    BY <2>0
  <2>2. 1 \in 1 .. Len(h) /\ 2 \in 1 .. Len(h)
    BY <2>1
  <2>. QED BY <1>2, <2>0, <2>1, <2>2 DEF Lies
<1>3. ASSUME NEW x, NEW y, NEW z, NEW w, Lies(g, <<x, y, z, w>>, o)
      PROVE  /\ o + 1 \in 1 .. Len(g) /\ g[o + 1] = x
             /\ o + 2 \in 1 .. Len(g) /\ g[o + 2] = y
             /\ o + 3 \in 1 .. Len(g) /\ g[o + 3] = z
             /\ o + 4 \in 1 .. Len(g) /\ g[o + 4] = w
  <2>0. PICK h : h = <<x, y, z, w>>
    OBVIOUS
  <2>1. h[1] = x /\ h[2] = y /\ h[3] = z /\ h[4] = w /\ Len(h) = 4
    BY <2>0
  <2>2. 1 \in 1 .. Len(h) /\ 2 \in 1 .. Len(h) /\ 3 \in 1 .. Len(h) /\ 4 \in 1 .. Len(h)
    BY <2>1
  <2>. QED BY <1>3, <2>0, <2>1, <2>2 DEF Lies
<1>. QED BY <1>1, <1>2, <1>3

(***************************************************************************)
(* Where the parts of a node lie in the code for it                        *)
(***************************************************************************)
LEMMA ClosureLayout ==
    ASSUME NEW g, NEW v, NEW body, IsSeq(body), NEW o \in Nat
    PROVE  /\ IsSeq(ClosureCode(v, body))
           /\ Len(body) \in Nat
           /\ Len(ClosureCode(v, body)) = Len(body) + 6
           /\ Lies(g, ClosureCode(v, body), o) => LET e == o + Len(body) IN
                 /\ o + 1 \in 1 .. Len(g) /\ o + 2 \in 1 .. Len(g)
                 /\ o + 3 \in 1 .. Len(g) /\ o + 4 \in 1 .. Len(g)
                 /\ e + 5 \in 1 .. Len(g) /\ e + 6 \in 1 .. Len(g)
                 /\ g[o + 1] = Push(v) /\ g[o + 2] = Instr("SET_ACTIVATION")
                 /\ g[o + 3] = Jump("JMP", Len(body) + 3) /\ g[o + 4] = Instr("NOP")
                 /\ Lies(g, body, o + 4)
                 /\ g[e + 5] = Instr("RET") /\ g[e + 6] = Instr("NOP")
<1>0. PICK h : h = ClosureCode(v, body)
  OBVIOUS
<1>1. PICK a, c : /\ a = <<Push(v), Instr("SET_ACTIVATION"),
                            Jump("JMP", Len(body) + 3), Instr("NOP")>>
                  /\ c = <<Instr("RET"), Instr("NOP")>>
  OBVIOUS
<1>2. IsSeq(a) /\ IsSeq(c)
  BY <1>1, ShortSeqs
<1>L. Len(a) = 4 /\ Len(c) = 2
  BY <1>1, ShortSeqs
<1>3. h = a \o body \o c
  BY <1>0, <1>1 DEF ClosureCode
<1>4. /\ IsSeq(h) /\ Len(body) \in Nat /\ Len(h) = Len(a) + Len(body) + Len(c)
      /\ Lies(g, h, o) => /\ Lies(g, a, o) /\ Lies(g, body, o + Len(a))
                          /\ Lies(g, c, o + Len(a) + Len(body))
  <2>1. /\ IsSeq(a \o body \o c)
        /\ Len(body) \in Nat
        /\ Len(a \o body \o c) = Len(a) + Len(body) + Len(c)
        /\ Lies(g, a \o body \o c, o) =>
              /\ Lies(g, a, o) /\ Lies(g, body, o + Len(a))
              /\ Lies(g, c, o + Len(a) + Len(body))
    BY <1>2, LiesThree
  <2>. QED BY <1>2, <1>3, <2>1
<1>5. ASSUME Lies(g, a, o)
      PROVE  /\ o + 1 \in 1 .. Len(g) /\ o + 2 \in 1 .. Len(g)
             /\ o + 3 \in 1 .. Len(g) /\ o + 4 \in 1 .. Len(g)
             /\ g[o + 1] = Push(v) /\ g[o + 2] = Instr("SET_ACTIVATION")
             /\ g[o + 3] = Jump("JMP", Len(body) + 3) /\ g[o + 4] = Instr("NOP")
  BY <1>1, <1>5, LiesShort
<1>6. ASSUME Lies(g, c, o + Len(body) + 4)
      PROVE  /\ o + Len(body) + 5 \in 1 .. Len(g) /\ o + Len(body) + 6 \in 1 .. Len(g)
             /\ g[o + Len(body) + 5] = Instr("RET") /\ g[o + Len(body) + 6] = Instr("NOP")
  <2>1. PICK p \in Nat : p = o + Len(body) + 4
    BY <1>4
  <2>2. /\ p + 1 \in 1 .. Len(g) /\ g[p + 1] = Instr("RET")
        /\ p + 2 \in 1 .. Len(g) /\ g[p + 2] = Instr("NOP")
    BY <1>1, <1>6, <2>1, LiesShort
  <2>3. p + 1 = o + Len(body) + 5 /\ p + 2 = o + Len(body) + 6
    BY <1>4, <2>1
  <2>. QED BY <2>2, <2>3
<1>7. o + Len(a) + Len(body) = o + Len(body) + 4 /\ Len(h) = Len(body) + 6
  BY <1>L, <1>4
<1>. QED BY <1>0, <1>L, <1>4, <1>5, <1>6, <1>7

LEMMA BuiltinLayout ==
    ASSUME NEW g, NEW before, NEW args, NEW count, NEW x,
           IsSeq(before), IsSeq(args), IsSeq(count),
           NEW o \in Nat
    PROVE  /\ IsSeq(before \o args \o count \o <<x>>)
           /\ Len(before) \in Nat
           /\ Len(args) \in Nat
           /\ Len(count) \in Nat
           /\ Len(before \o args \o count \o <<x>>) = Len(before) + Len(args) + Len(count) + 1
           /\ Lies(g, before \o args \o count \o <<x>>, o) =>
                 LET e == o + Len(before) + Len(args) + Len(count) + 1 IN
                 /\ Lies(g, before, o) /\ Lies(g, args, o + Len(before))
                 /\ Lies(g, count, o + Len(before) + Len(args))
                 /\ e \in 1 .. Len(g) /\ g[e] = x
<1>0. PICK h : h = before \o args \o count \o <<x>>
  OBVIOUS
<1>1. PICK s : s = before \o args \o count
  OBVIOUS
<1>2. /\ IsSeq(s) /\ Len(before) \in Nat /\ Len(args) \in Nat /\ Len(count) \in Nat
      /\ Len(s) = Len(before) + Len(args) + Len(count)
      /\ Lies(g, s, o) => /\ Lies(g, before, o) /\ Lies(g, args, o + Len(before))
                          /\ Lies(g, count, o + Len(before) + Len(args))
  <2>1. /\ IsSeq(before \o args \o count)
        /\ Len(before) \in Nat
        /\ Len(args) \in Nat
        /\ Len(count) \in Nat
        /\ Len(before \o args \o count) = Len(before) + Len(args) + Len(count)
        /\ Lies(g, before \o args \o count, o) =>
              /\ Lies(g, before, o) /\ Lies(g, args, o + Len(before))
              /\ Lies(g, count, o + Len(before) + Len(args))
    BY <1>1, LiesThree
  <2>. QED BY <1>1, <2>1
<1>3. PICK c : c = <<x>>
  OBVIOUS
<1>4. /\ IsSeq(s \o c) /\ Len(s \o c) = Len(s) + 1
      /\ Lies(g, s \o c, o) =>
            Lies(g, s, o) /\ o + Len(s) + 1 \in 1 .. Len(g) /\ g[o + Len(s) + 1] = x
  <2>1. IsSeq(s) /\ IsSeq(c)
    BY <1>2, <1>3, ShortSeqs
  <2>2. Len(c) = 1
    BY <1>3, ShortSeqs
  <2>3. /\ IsSeq(s \o c) /\ Len(s \o c) = Len(s) + Len(c)
        /\ Lies(g, s \o c, o) => Lies(g, s, o) /\ Lies(g, c, o + Len(s))
    BY <2>1, LiesJoined
  <2>4. PICK p \in Nat : p = o + Len(s)
    BY <1>2
  <2>5. Lies(g, c, p) => p + 1 \in 1 .. Len(g) /\ g[p + 1] = x
    BY <1>3, LiesShort
  <2>. QED BY <2>2, <2>3, <2>4, <2>5
<1>5. o + Len(s) + 1 = o + Len(before) + Len(args) + Len(count) + 1
  BY <1>2
<1>6. h = s \o c
  BY <1>0, <1>1, <1>3
<1>. QED BY <1>0, <1>2, <1>4, <1>5, <1>6

LEMMA ChoiceLayout ==
    ASSUME NEW g, NEW test, NEW yes, IsSeq(test), IsSeq(yes), NEW o \in Nat
    PROVE  /\ IsSeq(ChoiceCode(test, yes)) /\ Len(test) \in Nat /\ Len(yes) \in Nat
           /\ Len(ChoiceCode(test, yes)) = Len(test) + Len(yes) + 2
           /\ Lies(g, ChoiceCode(test, yes), o) => LET t == o + Len(test)
                                   e == o + Len(test) + Len(yes) IN
                 /\ t + 1 \in 1 .. Len(g) /\ e + 2 \in 1 .. Len(g)
                 /\ Lies(g, test, o) /\ g[t + 1] = Jump("JZ", Len(yes) + 1)
                 /\ Lies(g, yes, t + 1) /\ g[e + 2] = Instr("NOP")
<1>0. PICK h : h = ChoiceCode(test, yes)
  OBVIOUS
<1>1. PICK j, c : j = <<Jump("JZ", Len(yes) + 1)>> /\ c = <<Instr("NOP")>>
  OBVIOUS
<1>2. IsSeq(j) /\ IsSeq(c)
  BY <1>1, ShortSeqs
<1>L. Len(j) = 1 /\ Len(c) = 1
  BY <1>1, ShortSeqs
<1>3. h = test \o j \o yes \o c
  BY <1>0, <1>1 DEF ChoiceCode
<1>4. /\ IsSeq(h) /\ Len(test) \in Nat /\ Len(yes) \in Nat
      /\ Len(h) = Len(test) + Len(j) + Len(yes) + Len(c)
      /\ Lies(g, h, o) => /\ Lies(g, test, o) /\ Lies(g, j, o + Len(test))
                          /\ Lies(g, yes, o + Len(test) + Len(j))
                          /\ Lies(g, c, o + Len(test) + Len(j) + Len(yes))
  <2>1. /\ IsSeq(test \o j \o yes \o c) /\ Len(test) \in Nat /\ Len(yes) \in Nat
        /\ Len(test \o j \o yes \o c) = Len(test) + Len(j) + Len(yes) + Len(c)
        /\ Lies(g, test \o j \o yes \o c, o) => /\ Lies(g, test, o) /\ Lies(g, j, o + Len(test))
                            /\ Lies(g, yes, o + Len(test) + Len(j))
                            /\ Lies(g, c, o + Len(test) + Len(j) + Len(yes))
    BY <1>2, LiesFour
  <2>. QED BY <1>2, <1>3, <2>1
<1>5. PICK t, e \in Nat : t = o + Len(test) /\ e = o + Len(test) + Len(yes) + 1
  BY <1>4
<1>6. /\ Lies(g, j, t) => t + 1 \in 1 .. Len(g) /\ g[t + 1] = Jump("JZ", Len(yes) + 1)
      /\ Lies(g, c, e) => e + 1 \in 1 .. Len(g) /\ g[e + 1] = Instr("NOP")
  BY <1>1, LiesShort
<1>7. /\ Len(h) = Len(test) + Len(yes) + 2
      /\ o + Len(test) + Len(j) = t + 1 /\ o + Len(test) + Len(j) + Len(yes) = e
      /\ e + 1 = o + Len(test) + Len(yes) + 2
  BY <1>L, <1>4, <1>5
<1>. QED BY <1>0, <1>4, <1>5, <1>6, <1>7

LEMMA LoopLayout ==
    ASSUME NEW g, NEW test, NEW body, IsSeq(test), IsSeq(body), NEW o \in Nat
    PROVE  /\ IsSeq(LoopCode(test, body)) /\ Len(test) \in Nat /\ Len(body) \in Nat
           /\ Len(LoopCode(test, body)) = Len(test) + Len(body) + 4
           /\ Lies(g, LoopCode(test, body), o) => LET t == o + Len(test)
                                   e == o + Len(test) + Len(body) IN
                 /\ o + 1 \in 1 .. Len(g) /\ t + 2 \in 1 .. Len(g)
                 /\ e + 3 \in 1 .. Len(g) /\ e + 4 \in 1 .. Len(g)
                 /\ g[o + 1] = Instr("NOP") /\ Lies(g, test, o + 1)
                 /\ g[t + 2] = Jump("JZ", Len(body) + 2) /\ Lies(g, body, t + 2)
                 /\ g[e + 3] = Jump("JMP", -(Len(test) + Len(body) + 2))
                 /\ g[e + 4] = Instr("NOP")
<1>0. PICK h : h = LoopCode(test, body)
  OBVIOUS
<1>1. PICK a, j, c : /\ a = <<Instr("NOP")>> /\ j = <<Jump("JZ", Len(body) + 2)>>
                     /\ c = <<Jump("JMP", -(Len(test) + Len(body) + 2)), Instr("NOP")>>
  OBVIOUS
<1>2. IsSeq(a) /\ IsSeq(j) /\ IsSeq(c)
  BY <1>1, ShortSeqs
<1>L. Len(a) = 1 /\ Len(j) = 1 /\ Len(c) = 2
  BY <1>1, ShortSeqs
<1>3. PICK s : s = a \o test \o j \o body
  OBVIOUS
<1>4. h = s \o c
  BY <1>0, <1>1, <1>3 DEF LoopCode
<1>5. /\ IsSeq(s) /\ Len(test) \in Nat /\ Len(body) \in Nat
      /\ Len(s) = Len(a) + Len(test) + Len(j) + Len(body)
      /\ Lies(g, s, o) => /\ Lies(g, a, o) /\ Lies(g, test, o + Len(a))
                          /\ Lies(g, j, o + Len(a) + Len(test))
                          /\ Lies(g, body, o + Len(a) + Len(test) + Len(j))
  <2>1. /\ IsSeq(a \o test \o j \o body) /\ Len(test) \in Nat /\ Len(body) \in Nat
        /\ Len(a \o test \o j \o body) = Len(a) + Len(test) + Len(j) + Len(body)
        /\ Lies(g, a \o test \o j \o body, o) => /\ Lies(g, a, o) /\ Lies(g, test, o + Len(a))
                            /\ Lies(g, j, o + Len(a) + Len(test))
                            /\ Lies(g, body, o + Len(a) + Len(test) + Len(j))
    BY <1>2, LiesFour
  <2>. QED BY <1>2, <1>3, <2>1
<1>6. /\ IsSeq(h) /\ Len(h) = Len(s) + Len(c)
      /\ Lies(g, h, o) => Lies(g, s, o) /\ Lies(g, c, o + Len(s))
  <2>1. IsSeq(s) /\ IsSeq(c)
    BY <1>2, <1>5
  <2>2. /\ IsSeq(s \o c) /\ Len(s \o c) = Len(s) + Len(c)
        /\ Lies(g, s \o c, o) => Lies(g, s, o) /\ Lies(g, c, o + Len(s))
    BY <2>1, LiesJoined
  <2>. QED BY <1>4, <2>2
<1>7. PICK t, e \in Nat : t = o + Len(test) + 1 /\ e = o + Len(test) + Len(body) + 2
  BY <1>5
<1>8. /\ Lies(g, a, o) => o + 1 \in 1 .. Len(g) /\ g[o + 1] = Instr("NOP")
      /\ Lies(g, j, t) => t + 1 \in 1 .. Len(g) /\ g[t + 1] = Jump("JZ", Len(body) + 2)
  BY <1>1, LiesShort
<1>9. Lies(g, c, e) => /\ e + 1 \in 1 .. Len(g) /\ e + 2 \in 1 .. Len(g)
                       /\ g[e + 1] = Jump("JMP", -(Len(test) + Len(body) + 2))
                       /\ g[e + 2] = Instr("NOP")
  BY <1>1, LiesShort
<1>10. /\ Len(h) = Len(test) + Len(body) + 4
       /\ o + Len(a) = o + 1 /\ o + Len(a) + Len(test) = t /\ t + 1 = o + Len(test) + 2
       /\ o + Len(a) + Len(test) + Len(j) = t + 1 /\ o + Len(s) = e
       /\ e + 1 = o + Len(test) + Len(body) + 3 /\ e + 2 = o + Len(test) + Len(body) + 4
  BY <1>L, <1>5, <1>6, <1>7
<1>. QED BY <1>0, <1>5, <1>6, <1>7, <1>8, <1>9, <1>10

LEMMA ConditionalLayout ==
    ASSUME NEW g, NEW test, NEW yes, NEW no, IsSeq(test), IsSeq(yes), IsSeq(no),
           NEW o \in Nat
    PROVE  /\ IsSeq(ConditionalCode(test, yes, no))
           /\ Len(test) \in Nat
           /\ Len(yes) \in Nat
           /\ Len(no) \in Nat
           /\ Len(ConditionalCode(test, yes, no)) = Len(test) + Len(yes) + Len(no) + 4
           /\ Lies(g, ConditionalCode(test, yes, no), o) => LET t == o + Len(test)
                                   y == o + Len(test) + Len(yes)
                                   e == o + Len(test) + Len(yes) + Len(no) IN
                 /\ t + 1 \in 1 .. Len(g) /\ y + 2 \in 1 .. Len(g)
                 /\ y + 3 \in 1 .. Len(g) /\ e + 4 \in 1 .. Len(g)
                 /\ Lies(g, test, o) /\ g[t + 1] = Jump("JZ", Len(yes) + 2)
                 /\ Lies(g, yes, t + 1)
                 /\ g[y + 2] = Jump("JMP", Len(no) + 2) /\ g[y + 3] = Instr("NOP")
                 /\ Lies(g, no, y + 3) /\ g[e + 4] = Instr("NOP")
<1>0. PICK h : h = ConditionalCode(test, yes, no)
  OBVIOUS
<1>1. PICK j, k, c : /\ j = <<Jump("JZ", Len(yes) + 2)>>
                     /\ k = <<Jump("JMP", Len(no) + 2), Instr("NOP")>>
                     /\ c = <<Instr("NOP")>>
  OBVIOUS
<1>2. IsSeq(j) /\ IsSeq(k) /\ IsSeq(c)
  BY <1>1, ShortSeqs
<1>L. Len(j) = 1 /\ Len(k) = 2 /\ Len(c) = 1
  BY <1>1, ShortSeqs
<1>3. PICK s : s = test \o j \o yes \o k
  OBVIOUS
<1>4. h = s \o no \o c
  BY <1>0, <1>1, <1>3 DEF ConditionalCode
<1>5. /\ IsSeq(s) /\ Len(test) \in Nat /\ Len(yes) \in Nat
      /\ Len(s) = Len(test) + Len(j) + Len(yes) + Len(k)
      /\ Lies(g, s, o) => /\ Lies(g, test, o) /\ Lies(g, j, o + Len(test))
                          /\ Lies(g, yes, o + Len(test) + Len(j))
                          /\ Lies(g, k, o + Len(test) + Len(j) + Len(yes))
  <2>1. /\ IsSeq(test \o j \o yes \o k) /\ Len(test) \in Nat /\ Len(yes) \in Nat
        /\ Len(test \o j \o yes \o k) = Len(test) + Len(j) + Len(yes) + Len(k)
        /\ Lies(g, test \o j \o yes \o k, o) =>
              /\ Lies(g, test, o) /\ Lies(g, j, o + Len(test))
              /\ Lies(g, yes, o + Len(test) + Len(j))
              /\ Lies(g, k, o + Len(test) + Len(j) + Len(yes))
    BY <1>2, LiesFour
  <2>. QED BY <1>2, <1>3, <2>1
<1>6. /\ IsSeq(h) /\ Len(no) \in Nat /\ Len(h) = Len(s) + Len(no) + Len(c)
      /\ Lies(g, h, o) => /\ Lies(g, s, o) /\ Lies(g, no, o + Len(s))
                          /\ Lies(g, c, o + Len(s) + Len(no))
  <2>1. /\ IsSeq(s \o no \o c) /\ Len(no) \in Nat
        /\ Len(s \o no \o c) = Len(s) + Len(no) + Len(c)
        /\ Lies(g, s \o no \o c, o) =>
              /\ Lies(g, s, o) /\ Lies(g, no, o + Len(s))
              /\ Lies(g, c, o + Len(s) + Len(no))
    <3>1. IsSeq(s) /\ IsSeq(no) /\ IsSeq(c)
      BY <1>2, <1>5
    <3>2. IsSeq(s \o no \o c)
      BY <3>1, SeqOfThree, Zenon
    <3>3. /\ Len(no) \in Nat /\ Len(s \o no \o c) = Len(s) + Len(no) + Len(c)
          /\ Lies(g, s \o no \o c, o) =>
                /\ Lies(g, s, o) /\ Lies(g, no, o + Len(s))
                /\ Lies(g, c, o + Len(s) + Len(no))
      BY <3>1, LiesInThree
    <3>. QED BY <3>2, <3>3
  <2>. QED BY <1>2, <1>4, <1>5, <2>1
<1>7. PICK t, y, e \in Nat : /\ t = o + Len(test) /\ y = o + Len(test) + Len(yes) + 1
                             /\ e = o + Len(test) + Len(yes) + Len(no) + 3
  BY <1>5, <1>6
<1>8. /\ Lies(g, j, t) => t + 1 \in 1 .. Len(g) /\ g[t + 1] = Jump("JZ", Len(yes) + 2)
      /\ Lies(g, c, e) => e + 1 \in 1 .. Len(g) /\ g[e + 1] = Instr("NOP")
  BY <1>1, LiesShort
<1>9. Lies(g, k, y) => /\ y + 1 \in 1 .. Len(g) /\ y + 2 \in 1 .. Len(g)
                       /\ g[y + 1] = Jump("JMP", Len(no) + 2) /\ g[y + 2] = Instr("NOP")
  BY <1>1, LiesShort
<1>10. /\ Len(h) = Len(test) + Len(yes) + Len(no) + 4
       /\ o + Len(test) + Len(j) = t + 1 /\ o + Len(test) + Len(j) + Len(yes) = y
       /\ o + Len(s) = y + 2 /\ o + Len(s) + Len(no) = e
       /\ y + 1 = o + Len(test) + Len(yes) + 2 /\ y + 2 = o + Len(test) + Len(yes) + 3
       /\ e + 1 = o + Len(test) + Len(yes) + Len(no) + 4
  BY <1>L, <1>5, <1>6, <1>7
<1>. QED BY <1>0, <1>5, <1>6, <1>7, <1>8, <1>9, <1>10

(* What is needed of it where the code lies.                               *)
LEMMA ConditionalLies ==
    ASSUME NEW g, NEW test, NEW yes, NEW no, IsSeq(test), IsSeq(yes), IsSeq(no),
           NEW o \in Nat
    PROVE  /\ Len(test) \in Nat /\ Len(yes) \in Nat /\ Len(no) \in Nat
           /\ Len(ConditionalCode(test, yes, no)) = Len(test) + Len(yes) + Len(no) + 4
           /\ Lies(g, ConditionalCode(test, yes, no), o) =>
                 /\ o + Len(test) + 1 \in 1 .. Len(g)
                 /\ o + Len(test) + Len(yes) + 2 \in 1 .. Len(g)
                 /\ o + Len(test) + Len(yes) + 3 \in 1 .. Len(g)
                 /\ o + Len(test) + Len(yes) + Len(no) + 4 \in 1 .. Len(g)
                 /\ Lies(g, test, o) /\ g[o + Len(test) + 1] = Jump("JZ", Len(yes) + 2)
                 /\ Lies(g, yes, o + Len(test) + 1)
                 /\ g[o + Len(test) + Len(yes) + 2] = Jump("JMP", Len(no) + 2)
                 /\ g[o + Len(test) + Len(yes) + 3] = Instr("NOP")
                 /\ Lies(g, no, o + Len(test) + Len(yes) + 3)
                 /\ g[o + Len(test) + Len(yes) + Len(no) + 4] = Instr("NOP")
BY ConditionalLayout

(***************************************************************************)
(* Syntax trees                                                            *)
(***************************************************************************)

(* What holds of a tree if it holds of its children holds of every tree.   *)
LEMMA TreeInduction ==
    ASSUME NEW T, \A a \in Trees : (\A b \in Children(a) : b \in T) => a \in T
    PROVE  Trees \subseteq T
<1>1. \A a \in Trees : Children(a) \subseteq Trees
  BY TreeAssumption
<1>2. \A a \in Trees : Height[a] \in Nat /\ \A b \in Children(a) : Height[b] < Height[a]
  BY TreeAssumption DEF IsHeight
<1>. DEFINE Bad == {Height[a] : a \in Trees \ T}
<1>. SUFFICES ASSUME Trees \ T # {} PROVE FALSE
  OBVIOUS
<1>3. PICK n \in Bad : \A m \in Bad : n <= m
  <2>1. Bad \subseteq Nat /\ Bad # {}
    BY <1>2
  <2>. HIDE DEF Bad
  <2>. QED BY <2>1, LeastNumber
<1>4. PICK a \in Trees \ T : n = Height[a]
  BY <1>3
<1>5. PICK b \in Children(a) : b \notin T
  BY <1>4
<1>6. Height[b] \in Bad /\ Height[b] < n /\ Height[b] \in Nat /\ n \in Nat
  BY <1>1, <1>2, <1>4, <1>5
<1>. HIDE DEF Bad
<1>7. n <= Height[b]
  BY <1>3, <1>6
<1>. QED BY <1>6, <1>7

(* What is generated are known instructions, with known operands.          *)
Operand(v) ==
    /\ v.type \in Operands
    /\ v.type = "integer" => v = Integer(v.v)
    /\ v.type = "closure" => v.v \in Int /\ v.v < 0

Arguments ==
    {Integer(0)} \cup {Integer(ArgCount[a.args]) : a \in Trees}
        \cup {a.value : a \in {b \in Trees : b.t = "value"}}
        \cup {Slot(a.index) : a \in {b \in Trees : b.t = "local"}}

Instructions == {x \in [op : Opcodes, arg : Arguments, jump : Int] : Operand(x.arg)}

Codes == Seq(Instructions)

LEMMA SlotIsOperand ==
    /\ \A i : Operand(Slot(i))
    /\ \A i : Operand(Integer(i))
<1>1. \A i : Slot(i).type = "local"
  BY DEF Slot
<1>2. \A i : Integer(i).type = "integer" /\ Integer(i).v = i
  BY DEF Integer
<1>. QED BY <1>1, <1>2 DEF Operand, Operands

LEMMA InstructionsAre ==
    /\ \A op \in Opcodes : Instr(op) \in Instructions
    /\ \A op \in Opcodes : \A n \in Int : Jump(op, n) \in Instructions
    /\ \A v \in Arguments : Operand(v) => Push(v) \in Instructions
    /\ \A op \in Opcodes : \A i : Slot(i) \in Arguments => OnLocal(op, i) \in Instructions
<1>1. Integer(0) \in Arguments /\ Operand(Integer(0)) /\ \A i : Operand(Slot(i))
  <2>1. Integer(0) \in Arguments
    BY DEF Arguments
  <2>. QED BY <2>1, SlotIsOperand
<1>2. ASSUME NEW op \in Opcodes, NEW n \in Int PROVE Jump(op, n) \in Instructions
  <2>1. Jump(op, n) \in [op : Opcodes, arg : Arguments, jump : Int]
    BY <1>1 DEF Jump
  <2>2. Jump(op, n).arg = Integer(0)
    BY DEF Jump
  <2>. QED BY <1>1, <2>1, <2>2 DEF Instructions
<1>3. ASSUME NEW op \in Opcodes PROVE Instr(op) \in Instructions
  <2>1. Instr(op) = Jump(op, 0)
    BY DEF Instr, Jump
  <2>. QED BY <1>2, <2>1
<1>4. ASSUME NEW v \in Arguments, Operand(v) PROVE Push(v) \in Instructions
  <2>1. Push(v) \in [op : Opcodes, arg : Arguments, jump : Int]
    BY <1>4 DEF Push, Opcodes
  <2>2. Push(v).arg = v
    BY DEF Push
  <2>. QED BY <1>4, <2>1, <2>2 DEF Instructions
<1>5. ASSUME NEW op \in Opcodes, NEW i, Slot(i) \in Arguments
      PROVE  OnLocal(op, i) \in Instructions
  <2>1. OnLocal(op, i) \in [op : Opcodes, arg : Arguments, jump : Int]
    BY <1>5 DEF OnLocal
  <2>2. OnLocal(op, i).arg = Slot(i)
    BY DEF OnLocal
  <2>. QED BY <1>1, <2>1, <2>2 DEF Instructions
<1>. QED BY <1>2, <1>3, <1>4, <1>5

LEMMA CodesAre ==
    /\ <<>> \in Codes
    /\ \A x \in Instructions : <<x>> \in Codes
    /\ \A x, y \in Instructions : <<x, y>> \in Codes
    /\ \A x, y, z, w \in Instructions : <<x, y, z, w>> \in Codes
    /\ \A s, t \in Codes : s \o t \in Codes
    /\ \A s \in Codes : Len(s) \in Nat
    /\ \A s \in Codes : \A x \in Instructions : Append(s, x) \in Codes
<1>. QED BY DEF Codes

LEMMA NodeIsTyped ==
    ASSUME NEW a \in Trees, NEW f, \A b \in Children(a) : f[b] \in Codes
    PROVE  NodeCode(a, f) \in Codes
<1>1. /\ a.t \in {"nothing", "local", "value", "builtin", "apply", "arg", "statement",
                  "assignment", "conditional", "while", "retr"}
      /\ WellFormed(a)
  BY TreeAssumption DEF WellFormed
<1>2. CASE a.t = "nothing"
  <2>1. NodeCode(a, f) = <<>>
    BY <1>2 DEF NodeCode
  <2>. QED BY <2>1, CodesAre
<1>3. CASE a.t = "local"
  <2>1. NodeCode(a, f) = <<OnLocal("PUSH_LOCAL", a.index)>>
    BY <1>3 DEF NodeCode
  <2>2. Slot(a.index) \in Arguments
    BY <1>3 DEF Arguments
  <2>3. OnLocal("PUSH_LOCAL", a.index) \in Instructions
    BY <2>2, InstructionsAre DEF Opcodes
  <2>. QED BY <2>1, <2>3, CodesAre
<1>4. CASE a.t = "value"
  <2>1. a.value \in Arguments
    BY <1>4 DEF Arguments
  <2>2. Operand(a.value)
    BY <1>1, <1>4 DEF WellFormed, Operand, Operands
  <2>3. Push(a.value) \in Instructions
    BY <2>1, <2>2, InstructionsAre
  <2>4. CASE a.value.type = "closure"
    <3>1. NodeCode(a, f) = ClosureCode(a.value, f[a.body])
      BY <1>4, <2>4 DEF NodeCode
    <3>2. Children(a) = {a.body}
      BY <1>4, <2>4 DEF Children
    <3>3. PICK b : b = f[a.body] /\ b \in Codes
      BY <3>2
    <3>4. /\ Instr("SET_ACTIVATION") \in Instructions /\ Jump("JMP", Len(b) + 3) \in Instructions
          /\ Instr("NOP") \in Instructions /\ Instr("RET") \in Instructions
      <4>1. Len(b) + 3 \in Int
        BY <3>3, CodesAre
      <4>. QED BY <4>1, InstructionsAre DEF Opcodes
    <3>5. PICK p, q : /\ p = <<Push(a.value), Instr("SET_ACTIVATION"),
                                Jump("JMP", Len(b) + 3), Instr("NOP")>>
                      /\ q = <<Instr("RET"), Instr("NOP")>>
      OBVIOUS
    <3>6. p \in Codes /\ q \in Codes
      BY <2>3, <3>4, <3>5, CodesAre
    <3>7. p \o b \o q \in Codes
      BY <3>3, <3>6, CodesAre
    <3>8. ClosureCode(a.value, b) = p \o b \o q
      BY <3>5 DEF ClosureCode
    <3>. QED BY <3>1, <3>3, <3>7, <3>8
  <2>5. CASE a.value.type # "closure"
    <3>1. NodeCode(a, f) = <<Push(a.value)>>
      BY <1>4, <2>5 DEF NodeCode, ValueCode
    <3>. QED BY <2>3, <3>1, CodesAre
  <2>. QED BY <2>4, <2>5
<1>5. CASE a.t = "builtin"
  <2>1. NodeCode(a, f) = BuiltinCode(a, f[a.args])
    BY <1>5 DEF NodeCode
  <2>2. Children(a) = {a.args}
    BY <1>5 DEF Children
  <2>3. PICK r : r = f[a.args] /\ r \in Codes
    BY <2>2
  <2>4. a.b \in Builtins
    BY <1>1, <1>5 DEF WellFormed
  <2>5. BuiltinInstr(a.b) \in Instructions
    <3>1. (IF a.b = "Extern" THEN "EXTERNAL" ELSE a.b) \in Opcodes
      BY <2>4 DEF Builtins, Opcodes
    <3>. QED BY <3>1, InstructionsAre DEF BuiltinInstr
  <2>6. a.b = "Store" => OnLocal("COW_LOCAL", FindLocal[a].index) \in Instructions
    <3>1. a.b = "Store" => Slot(FindLocal[a].index) \in Arguments
      BY <1>1, <1>5 DEF WellFormed, Arguments
    <3>. QED BY <3>1, InstructionsAre DEF Opcodes
  <2>7. Push(Integer(ArgCount[a.args])) \in Instructions
    <3>1. Integer(ArgCount[a.args]) \in Arguments
      BY DEF Arguments
    <3>. QED BY <3>1, SlotIsOperand, InstructionsAre
  <2>8. PICK p, q : /\ p = (IF a.b = "Store" THEN <<OnLocal("COW_LOCAL", FindLocal[a].index)>> ELSE <<>>)
                    /\ q = (IF Variadic(a.b) THEN <<Push(Integer(ArgCount[a.args]))>> ELSE <<>>)
    OBVIOUS
  <2>9. p \in Codes /\ q \in Codes /\ <<BuiltinInstr(a.b)>> \in Codes
    BY <2>5, <2>6, <2>7, <2>8, CodesAre
  <2>10. p \o r \o q \o <<BuiltinInstr(a.b)>> \in Codes
    BY <2>3, <2>9, CodesAre
  <2>11. BuiltinCode(a, r) = p \o r \o q \o <<BuiltinInstr(a.b)>>
    BY <2>8 DEF BuiltinCode
  <2>. QED BY <2>1, <2>3, <2>10, <2>11
<1>6. CASE a.t = "apply"
  <2>1. NodeCode(a, f) = f[a.args] \o f[a.fn] \o <<Instr("CALL")>>
    BY <1>6 DEF NodeCode
  <2>2. Children(a) = {a.fn, a.args}
    BY <1>6 DEF Children
  <2>3. f[a.args] \in Codes /\ f[a.fn] \in Codes
    BY <2>2
  <2>4. <<Instr("CALL")>> \in Codes
    BY InstructionsAre, CodesAre DEF Opcodes
  <2>. QED BY <2>1, <2>3, <2>4, CodesAre
<1>7. CASE a.t \in {"arg", "statement"}
  <2>1. NodeCode(a, f) = f[a.left] \o f[a.right]
    BY <1>7 DEF NodeCode
  <2>2. Children(a) = {a.left, a.right}
    BY <1>7 DEF Children
  <2>. QED BY <2>1, <2>2, CodesAre
<1>8. CASE a.t = "assignment"
  <2>1. NodeCode(a, f) = AssignmentCode(a, f[a.right])
    BY <1>8 DEF NodeCode
  <2>2. Children(a) = {a.left, a.right}
    BY <1>8 DEF Children
  <2>3. PICK x : x = OnLocal(IF a.defining THEN "INIT_LOCAL" ELSE "POP_LOCAL", a.left.index)
    OBVIOUS
  <2>4. x \in Instructions
    <3>1. Slot(a.left.index) \in Arguments
      <4>1. a.left \in Trees /\ a.left.t = "local"
        BY <1>1, <1>8, <2>2, TreeAssumption DEF WellFormed
      <4>. QED BY <4>1 DEF Arguments
    <3>2. (IF a.defining THEN "INIT_LOCAL" ELSE "POP_LOCAL") \in Opcodes
      BY DEF Opcodes
    <3>. QED BY <2>3, <3>1, <3>2, InstructionsAre
  <2>5. <<x>> \in Codes /\ f[a.right] \in Codes
    BY <2>2, <2>4, CodesAre
  <2>6. AssignmentCode(a, f[a.right]) = f[a.right] \o <<x>>
    BY <2>3 DEF AssignmentCode
  <2>. QED BY <2>1, <2>5, <2>6, CodesAre
<1>9. CASE a.t = "conditional"
  <2>1. Children(a) = {a.test, a.yes, a.no}
    BY <1>9 DEF Children
  <2>2. PICK t, y, n : /\ t = f[a.test] /\ y = f[a.yes] /\ n = f[a.no]
                       /\ t \in Codes /\ y \in Codes /\ n \in Codes
    BY <2>1
  <2>3. NodeCode(a, f) = IF a.no = Nothing THEN ChoiceCode(t, y) ELSE ConditionalCode(t, y, n)
    BY <1>9, <2>2 DEF NodeCode
  <2>4. <<Instr("NOP")>> \in Codes
    BY InstructionsAre, CodesAre DEF Opcodes
  <2>5. ChoiceCode(t, y) \in Codes
    <3>1. PICK j : j = <<Jump("JZ", Len(y) + 1)>>
      OBVIOUS
    <3>2. j \in Codes
      <4>1. Len(y) + 1 \in Int
        BY <2>2, CodesAre
      <4>2. Jump("JZ", Len(y) + 1) \in Instructions
        BY <4>1, InstructionsAre DEF Opcodes
      <4>. QED BY <3>1, <4>2, CodesAre
    <3>3. t \o j \o y \o <<Instr("NOP")>> \in Codes
      BY <2>2, <2>4, <3>2, CodesAre
    <3>. QED BY <3>1, <3>3 DEF ChoiceCode
  <2>6. ConditionalCode(t, y, n) \in Codes
    <3>1. PICK j, k : /\ j = <<Jump("JZ", Len(y) + 2)>>
                      /\ k = <<Jump("JMP", Len(n) + 2), Instr("NOP")>>
      OBVIOUS
    <3>2. j \in Codes /\ k \in Codes
      <4>1. Len(y) + 2 \in Int /\ Len(n) + 2 \in Int
        BY <2>2, CodesAre
      <4>2. /\ Jump("JZ", Len(y) + 2) \in Instructions /\ Jump("JMP", Len(n) + 2) \in Instructions
            /\ Instr("NOP") \in Instructions
        BY <4>1, InstructionsAre DEF Opcodes
      <4>. QED BY <3>1, <4>2, CodesAre
    <3>3. t \o j \o y \o k \o n \o <<Instr("NOP")>> \in Codes
      BY <2>2, <2>4, <3>2, CodesAre
    <3>. QED BY <3>1, <3>3 DEF ConditionalCode
  <2>. QED BY <2>3, <2>5, <2>6
<1>10. CASE a.t = "while"
  <2>1. Children(a) = {a.test, a.body}
    BY <1>10 DEF Children
  <2>2. PICK t, b : t = f[a.test] /\ b = f[a.body] /\ t \in Codes /\ b \in Codes
    BY <2>1
  <2>3. NodeCode(a, f) = LoopCode(t, b)
    BY <1>10, <2>2 DEF NodeCode
  <2>4. PICK p, j, k : /\ p = <<Instr("NOP")>> /\ j = <<Jump("JZ", Len(b) + 2)>>
                       /\ k = <<Jump("JMP", -(Len(t) + Len(b) + 2)), Instr("NOP")>>
    OBVIOUS
  <2>5. p \in Codes /\ j \in Codes /\ k \in Codes
    <3>1. Len(b) + 2 \in Int /\ -(Len(t) + Len(b) + 2) \in Int
      BY <2>2, CodesAre
    <3>2. /\ Jump("JZ", Len(b) + 2) \in Instructions /\ Instr("NOP") \in Instructions
          /\ Jump("JMP", -(Len(t) + Len(b) + 2)) \in Instructions
      BY <3>1, InstructionsAre DEF Opcodes
    <3>. QED BY <2>4, <3>2, CodesAre
  <2>6. p \o t \o j \o b \o k \in Codes
    BY <2>2, <2>5, CodesAre
  <2>7. LoopCode(t, b) = p \o t \o j \o b \o k
    BY <2>4 DEF LoopCode
  <2>. QED BY <2>3, <2>6, <2>7
<1>11. CASE a.t = "retr"
  <2>1. NodeCode(a, f) = Append(f[a.body], Instr("RET"))
    BY <1>11 DEF NodeCode
  <2>2. Children(a) = {a.body}
    BY <1>11 DEF Children
  <2>3. Instr("RET") \in Instructions
    BY InstructionsAre DEF Opcodes
  <2>. QED BY <2>1, <2>2, <2>3, CodesAre
<1>. QED BY <1>1, <1>2, <1>3, <1>4, <1>5, <1>6, <1>7, <1>8, <1>9, <1>10, <1>11

LEMMA NodeDepends ==
    ASSUME NEW a \in Trees, NEW f, NEW g, \A b \in Children(a) : f[b] = g[b]
    PROVE  NodeCode(a, f) = NodeCode(a, g)
<1>1. a.t \in {"nothing", "local", "value", "builtin", "apply", "arg", "statement",
               "assignment", "conditional", "while", "retr"}
  BY TreeAssumption DEF WellFormed
<1>2. CASE a.t \in {"nothing", "local"}
  BY <1>2 DEF NodeCode
<1>3. CASE a.t = "value"
  BY <1>3 DEF NodeCode, Children
<1>4. CASE a.t = "builtin"
  BY <1>4 DEF NodeCode, Children
<1>5. CASE a.t = "apply"
  BY <1>5 DEF NodeCode, Children
<1>6. CASE a.t \in {"arg", "statement"}
  BY <1>6 DEF NodeCode, Children
<1>7. CASE a.t = "assignment"
  BY <1>7 DEF NodeCode, Children
<1>8. CASE a.t = "conditional"
  BY <1>8 DEF NodeCode, Children
<1>9. CASE a.t = "while"
  BY <1>9 DEF NodeCode, Children
<1>10. CASE a.t = "retr"
  BY <1>10 DEF NodeCode, Children
<1>. QED BY <1>1, <1>2, <1>3, <1>4, <1>5, <1>6, <1>7, <1>8, <1>9, <1>10

(* Gen is what its definition says.                                        *)
LEMMA GenIs ==
    \A a \in Trees : Gen[a] = NodeCode(a, Gen) /\ Gen[a] \in Codes
<1>. DEFINE step == [a \in Trees |-> [f \in [Trees -> Codes] |-> NodeCode(a, f)]]
            P(f) == f = [a \in Trees |-> NodeCode(a, f)]
<1>1. \A a \in Trees : /\ Children(a) \subseteq Trees /\ Height[a] \in Nat
                       /\ \A b \in Children(a) : Height[b] < Height[a]
  BY TreeAssumption DEF IsHeight
<1>2. DependsOnSmaller(step, Trees, Codes, Height)
  <2>1. Height \in [Trees -> Nat]
    BY TreeAssumption DEF IsHeight
  <2>2. step \in [Trees -> [[Trees -> Codes] -> Codes]]
    <3>1. ASSUME NEW a \in Trees, NEW f \in [Trees -> Codes] PROVE NodeCode(a, f) \in Codes
      <4>1. \A b \in Children(a) : f[b] \in Codes
        BY <1>1
      <4>. QED BY <4>1, NodeIsTyped
    <3>. QED BY <3>1
  <2>3. ASSUME NEW a \in Trees, NEW f \in [Trees -> Codes], NEW g \in [Trees -> Codes],
               \A b \in Trees : Height[b] < Height[a] => f[b] = g[b]
        PROVE  step[a][f] = step[a][g]
    <3>1. \A b \in Children(a) : f[b] = g[b]
      BY <1>1, <2>3
    <3>2. NodeCode(a, f) = NodeCode(a, g)
      BY <3>1, NodeDepends
    <3>. QED BY <3>2
  <2>. HIDE DEF step
  <2>. QED BY <2>1, <2>2, <2>3 DEF DependsOnSmaller
<1>3. PICK f \in [Trees -> Codes] : \A a \in Trees : f[a] = step[a][f]
  <2>1. Codes # {}
    BY CodesAre
  <2>. HIDE DEF step
  <2>. QED BY <1>2, <2>1, RecursiveTable DEF IsTable
<1>4. P(f)
  BY <1>3
<1>5. Gen = CHOOSE g : P(g)
  BY DEF Gen
<1>6. P(Gen)
  <2>. HIDE DEF P
  <2>. QED BY <1>4, <1>5
<1>7. \A a \in Trees : Gen[a] = NodeCode(a, Gen)
  <2>. DEFINE h == [a \in Trees |-> NodeCode(a, Gen)]
  <2>1. Gen = h
    BY <1>6
  <2>2. \A a \in Trees : h[a] = NodeCode(a, Gen)
    OBVIOUS
  <2>. HIDE DEF h
  <2>. QED BY <2>1, <2>2
<1>. DEFINE T == {a \in Trees : Gen[a] \in Codes}
<1>8. ASSUME NEW a \in Trees, \A b \in Children(a) : b \in T PROVE a \in T
  <2>1. \A b \in Children(a) : Gen[b] \in Codes
    BY <1>8
  <2>2. NodeCode(a, Gen) \in Codes
    BY <2>1, NodeIsTyped
  <2>. QED BY <1>7, <2>2
<1>. HIDE DEF P, step
<1>9. Trees \subseteq T
  <2>. HIDE DEF T
  <2>. QED BY <1>8, TreeInduction
<1>. QED BY <1>7, <1>9

(* What a node adds to the closures of its children.                       *)
LEMMA ClosuresAre ==
    \A a \in Trees :
        /\ ClosuresIn[a] = {b \in {a} : a.t = "value" /\ a.value.type = "closure"}
                              \cup UNION {ClosuresIn[b] : b \in Children(a)}
        /\ ClosuresIn[a] \subseteq {c \in Trees : c.t = "value" /\ c.value.type = "closure"}
<1>. DEFINE Itself(a) == {b \in {a} : a.t = "value" /\ a.value.type = "closure"}
            V == SUBSET Trees
            step == [a \in Trees |-> [f \in [Trees -> V] |->
                        Itself(a) \cup UNION {f[b] : b \in Children(a)}]]
            P(f) == f = [a \in Trees |-> Itself(a) \cup UNION {f[b] : b \in Children(a)}]
<1>1. \A a \in Trees : /\ Children(a) \subseteq Trees /\ Height[a] \in Nat
                       /\ \A b \in Children(a) : Height[b] < Height[a]
  BY TreeAssumption DEF IsHeight
<1>2. DependsOnSmaller(step, Trees, V, Height)
  <2>1. Height \in [Trees -> Nat]
    BY TreeAssumption DEF IsHeight
  <2>2. step \in [Trees -> [[Trees -> V] -> V]]
    <3>1. ASSUME NEW a \in Trees, NEW f \in [Trees -> V]
          PROVE  Itself(a) \cup UNION {f[b] : b \in Children(a)} \in V
      BY <1>1
    <3>. QED BY <3>1
  <2>3. ASSUME NEW a \in Trees, NEW f \in [Trees -> V], NEW g \in [Trees -> V],
               \A b \in Trees : Height[b] < Height[a] => f[b] = g[b]
        PROVE  step[a][f] = step[a][g]
    <3>1. \A b \in Children(a) : f[b] = g[b]
      BY <1>1, <2>3
    <3>2. {f[b] : b \in Children(a)} = {g[b] : b \in Children(a)}
      BY <3>1
    <3>3. step[a][f] = Itself(a) \cup UNION {f[b] : b \in Children(a)}
      OBVIOUS
    <3>4. step[a][g] = Itself(a) \cup UNION {g[b] : b \in Children(a)}
      OBVIOUS
    <3>. QED BY <3>2, <3>3, <3>4
  <2>. HIDE DEF step
  <2>. QED BY <2>1, <2>2, <2>3 DEF DependsOnSmaller
<1>3. PICK f \in [Trees -> V] : \A a \in Trees : f[a] = step[a][f]
  <2>1. V # {}
    OBVIOUS
  <2>. HIDE DEF step, V
  <2>. QED BY <1>2, <2>1, RecursiveTable DEF IsTable
<1>4. P(f)
  BY <1>3
<1>5. ClosuresIn = CHOOSE g : P(g)
  BY DEF ClosuresIn
<1>6. P(ClosuresIn)
  <2>. HIDE DEF P
  <2>. QED BY <1>4, <1>5
<1>7. \A a \in Trees :
          ClosuresIn[a] = Itself(a) \cup UNION {ClosuresIn[b] : b \in Children(a)}
  <2>. DEFINE h == [a \in Trees |-> Itself(a) \cup UNION {ClosuresIn[b] : b \in Children(a)}]
  <2>1. ClosuresIn = h
    BY <1>6
  <2>2. \A a \in Trees : h[a] = Itself(a) \cup UNION {ClosuresIn[b] : b \in Children(a)}
    OBVIOUS
  <2>. HIDE DEF h, Itself
  <2>. QED BY <2>1, <2>2
<1>. DEFINE C == {c \in Trees : c.t = "value" /\ c.value.type = "closure"}
            T == {a \in Trees : ClosuresIn[a] \subseteq C}
<1>. HIDE DEF P, step
<1>8. ASSUME NEW a \in Trees, \A b \in Children(a) : b \in T PROVE a \in T
  <2>1. \A b \in Children(a) : ClosuresIn[b] \subseteq C
    BY <1>8
  <2>2. UNION {ClosuresIn[b] : b \in Children(a)} \subseteq C
    <3>. HIDE DEF C
    <3>. QED BY <2>1
  <2>3. Itself(a) \subseteq C
    OBVIOUS
  <2>. QED BY <1>7, <2>2, <2>3
<1>9. Trees \subseteq T
  <2>. HIDE DEF T
  <2>. QED BY <1>8, TreeInduction
<1>. QED BY <1>7, <1>9

(***************************************************************************)
(* The code that is generated for a tree does what the tree has to be done *)
(***************************************************************************)

(* F has the instructions of g, each followed by the next.                 *)
FlowOf(F, g) ==
    /\ DOMAIN F = 1 .. Len(g)
    /\ \A i \in 1 .. Len(g) :
          /\ F[i].op = g[i].op /\ F[i].arg = g[i].arg
          /\ g[i].op \notin Final => F[i].next = i + 1
          /\ Branch(g[i].op) => F[i].branch = i + g[i].jump

LEMMA FieldsAre ==
    /\ \A op : Instr(op).op = op /\ Instr(op).arg = Integer(0) /\ Instr(op).jump = 0
    /\ \A op, n : Jump(op, n).op = op /\ Jump(op, n).arg = Integer(0) /\ Jump(op, n).jump = n
    /\ \A v : Push(v).op = "PUSH_VALUE" /\ Push(v).arg = v /\ Push(v).jump = 0
    /\ \A op, i : OnLocal(op, i).op = op /\ OnLocal(op, i).arg = Slot(i) /\ OnLocal(op, i).jump = 0
BY DEF Instr, Jump, Push, OnLocal

LEMMA FollowsNone ==
    ASSUME NEW F, NEW i, NEW todo, NEW s \in Nat
    PROVE  Follows(F, i, todo, 0, s)
<1>1. ASSUME NEW m \in 0 .. 0, NEW ev, NEW d, NEW res,
             TreeStops(Running(todo, ev, d, "on"), m, res)
      PROVE  FALSE
  <2>1. \E n \in Nat : m = n + 1
    BY <1>1, FirstTreeStep
  <2>. QED BY <2>1
<1>. QED BY <1>1 DEF Follows, FollowsIn

LEMMA UnfoldsTo ==
    ASSUME NEW F, NEW i, NEW a, NEW rest, NEW M \in Nat, NEW s \in Nat, NEW t \in Nat,
           t <= s + 2, Follows(F, i, Unfold(a, rest), M, t)
    PROVE  Follows(F, i, Then(a, rest), M, s)
<1>1. Follows(F, i, Unfold(a, rest), M, s + 2)
  BY FollowsLess
<1>2. Follows(F, i, Then(a, rest), M + 1, s)
  BY <1>1, UnfoldFollows
<1>. QED BY <1>2, FollowsLess

LEMMA Skips ==
    ASSUME NEW F, NEW g, FlowOf(F, g), NEW i \in 1 .. Len(g), g[i] = Instr("NOP"),
           NEW todo, NEW M \in Nat, NEW s \in Nat, Follows(F, i + 1, todo, M, s)
    PROVE  Follows(F, i, todo, M, s + 1)
<1>1. PICK j : j = i + 1
  OBVIOUS
<1>2. g[i].op = "NOP"
  BY FieldsAre
<1>3. i \in DOMAIN F /\ F[i].op = "NOP" /\ F[i].next = j
  BY <1>1, <1>2 DEF FlowOf, Final
<1>. QED BY <1>1, <1>3, SkipFollows

LEMMA Jumps ==
    ASSUME NEW F, NEW g, FlowOf(F, g), NEW i \in 1 .. Len(g), NEW n, g[i] = Jump("JMP", n),
           NEW j, j = i + n,
           NEW todo, NEW M \in Nat, NEW s \in Nat, Follows(F, j, todo, M, s)
    PROVE  Follows(F, i, todo, M, s + 1)
<1>1. i \in DOMAIN F /\ F[i].op = "JMP" /\ F[i].branch = j
  BY FieldsAre DEF FlowOf, Branch
<1>. QED BY <1>1, SkipFollows

LEMMA DoesOne ==
    ASSUME NEW F, NEW g, FlowOf(F, g), NEW i \in 1 .. Len(g), NEW e,
           Effects(g[i]) = <<e>>, g[i].op \notin Final \cup {"JZ"},
           NEW rest, NEW M \in Nat, NEW s \in Nat, Follows(F, i + 1, rest, M, s)
    PROVE  Follows(F, i, Do(e, rest), M, s)
<1>1. i \in DOMAIN F /\ F[i].op \notin Final \cup {"JZ"} /\ F[i].next = i + 1
  BY DEF FlowOf
<1>2. Effects(F[i]) = <<e>>
  BY EffectsAlike DEF FlowOf
<1>3. Follows(F, i + 1, rest, M, s + 1)
  BY FollowsLess
<1>4. Follows(F, i, Do(e, rest), M + 1, s)
  BY <1>1, <1>2, <1>3, DoFollows
<1>. QED BY <1>4, FollowsLess

LEMMA Tests ==
    ASSUME NEW F, NEW g, FlowOf(F, g), NEW i \in 1 .. Len(g), NEW n, g[i] = Jump("JZ", n),
           NEW j, j = i + n,
           NEW yes, NEW no, NEW M \in Nat, NEW s \in Nat,
           Follows(F, i + 1, yes, M, s + 1), Follows(F, j, no, M, s + 1)
    PROVE  Follows(F, i, Test(yes, no), M + 1, s)
<1>1. i \in DOMAIN F /\ F[i].op = "JZ" /\ F[i].next = i + 1 /\ F[i].branch = j
  BY FieldsAre DEF FlowOf, Branch, Final
<1>. QED BY <1>1, TestFollows

LEMMA Ends ==
    ASSUME NEW F, NEW g, FlowOf(F, g), NEW i \in 1 .. Len(g), NEW op \in {"RET", "HALT"},
           g[i] = Instr(op), NEW M \in Nat, NEW s \in Nat
    PROVE  Follows(F, i, End(op), M, s)
<1>1. i \in DOMAIN F /\ F[i].op = op
  BY FieldsAre DEF FlowOf
<1>. QED BY <1>1, EndFollows

(* A piece h of g, behind o instructions, does a, and what follows it what *)
(* follows a.                                                              *)
Performs(F, h, o, a) == \A rest : \A M, s \in Nat :
    Follows(F, o + Len(h) + 1, rest, M, s) => Follows(F, o + 1, Then(a, rest), M, s)

(* Wherever the code for a tree lies.                                      *)
Correct(F, g, a) == \A o \in Nat : Lies(g, Gen[a], o) => Performs(F, Gen[a], o, a)

(* What is generated for a node and for its parts.                         *)
LEMMA PartIs ==
    ASSUME NEW F, NEW g, NEW b \in Trees, Correct(F, g, b), NEW h, h = Gen[b], NEW o \in Nat,
           Lies(g, h, o)
    PROVE  Performs(F, h, o, b)
BY DEF Correct

LEMMA GenIsSeq ==
    ASSUME NEW a \in Trees
    PROVE  IsSeq(Gen[a]) /\ Len(Gen[a]) \in Nat
BY GenIs, SeqIsSeq DEF Codes

LEMMA LeafIsCorrect ==
    ASSUME NEW F, NEW g, FlowOf(F, g), NEW a \in Trees, NEW x, NEW e, Gen[a] = <<x>>,
           \A rest : Unfold(a, rest) = Do(e, rest),
           Effects(x) = <<e>>, x.op \notin Final \cup {"JZ"}
    PROVE  Correct(F, g, a)
<1>. SUFFICES ASSUME NEW o \in Nat, Lies(g, <<x>>, o), NEW rest, NEW M \in Nat, NEW s \in Nat,
                     Follows(F, o + 2, rest, M, s)
              PROVE  Follows(F, o + 1, Then(a, rest), M, s)
  <2>1. \A o \in Nat : o + Len(<<x>>) + 1 = o + 2
    BY ShortSeqs
  <2>. QED BY <2>1 DEF Correct, Performs
<1>1. PICK i \in 1 .. Len(g) : i = o + 1 /\ i + 1 = o + 2 /\ g[i] = x
  BY LiesShort
<1>2. Follows(F, i, Do(e, rest), M, s)
  BY <1>1, DoesOne
<1>3. Follows(F, i, Unfold(a, rest), M, s)
  BY <1>2
<1>. QED BY <1>1, <1>3, UnfoldsTo

LEMMA NothingIsCorrect ==
    ASSUME NEW F, NEW g, NEW a \in Trees, a.t = "nothing"
    PROVE  Correct(F, g, a)
<1>1. Gen[a] = <<>> /\ Len(<<>>) = 0
  BY GenIs, ShortSeqs DEF NodeCode
<1>2. \A rest : Unfold(a, rest) = rest
  BY DEF Unfold
<1>3. ASSUME NEW o \in Nat, NEW rest, NEW M \in Nat, NEW s \in Nat,
             Follows(F, o + Len(Gen[a]) + 1, rest, M, s)
      PROVE  Follows(F, o + 1, Then(a, rest), M, s)
  <2>1. PICK i : i = o + 1 /\ i = o + Len(Gen[a]) + 1
    BY <1>1
  <2>2. Follows(F, i, Unfold(a, rest), M, s)
    BY <1>2, <1>3, <2>1
  <2>. QED BY <2>1, <2>2, UnfoldsTo
<1>. QED BY <1>3 DEF Correct, Performs

LEMMA LocalIsCorrect ==
    ASSUME NEW F, NEW g, FlowOf(F, g), NEW a \in Trees, a.t = "local"
    PROVE  Correct(F, g, a)
<1>1. PICK x, e : x = OnLocal("PUSH_LOCAL", a.index) /\ e = OnSlot("PUSH_LOCAL", a.index)
  OBVIOUS
<1>2. Gen[a] = <<x>>
  BY <1>1, GenIs DEF NodeCode
<1>3. \A rest : Unfold(a, rest) = Do(e, rest)
  BY <1>1 DEF Unfold
<1>4. Effects(x) = <<e>> /\ x.op \notin Final \cup {"JZ"}
  BY <1>1, FieldsAre DEF Effects, WithOperand, OnSlot, Final
<1>. QED BY <1>2, <1>3, <1>4, LeafIsCorrect

LEMMA PushDoes ==
    ASSUME NEW v, NEW x, x = Push(v)
    PROVE  Effects(x) = <<Does("PUSH_VALUE", v)>> /\ x.op \notin Final \cup {"JZ"}
BY FieldsAre DEF Effects, WithOperand, Final

LEMMA ValueIsCorrect ==
    ASSUME NEW F, NEW g, FlowOf(F, g), NEW a \in Trees, a.t = "value", a.value.type # "closure"
    PROVE  Correct(F, g, a)
<1>1. PICK x, e : x = Push(a.value) /\ e = Does("PUSH_VALUE", a.value)
  OBVIOUS
<1>2. Gen[a] = <<x>>
  BY <1>1, GenIs DEF NodeCode, ValueCode
<1>3. \A rest : Unfold(a, rest) = Do(e, rest)
  BY <1>1 DEF Unfold
<1>4. Effects(x) = <<e>> /\ x.op \notin Final \cup {"JZ"}
  BY <1>1, PushDoes
<1>. QED BY <1>2, <1>3, <1>4, LeafIsCorrect

(* The body of a closure is passed by. *)
LEMMA ClosureIsCorrect ==
    ASSUME NEW F, NEW g, FlowOf(F, g), NEW a \in Trees, a.t = "value", a.value.type = "closure"
    PROVE  Correct(F, g, a)
<1>1. PICK b, v : b = Gen[a.body] /\ v = a.value
  OBVIOUS
<1>2. IsSeq(b)
  <2>1. a.body \in Trees
    BY TreeAssumption DEF Children
  <2>. QED BY <1>1, <2>1, GenIsSeq
<1>3. Gen[a] = ClosureCode(v, b)
  BY <1>1, GenIs DEF NodeCode
<1>4. PICK e, w : e = Does("PUSH_VALUE", v) /\ w = Effect("SET_ACTIVATION")
  OBVIOUS
<1>5. ASSUME NEW o \in Nat, Lies(g, ClosureCode(v, b), o), NEW rest, NEW M \in Nat, NEW s \in Nat,
             Follows(F, o + Len(ClosureCode(v, b)) + 1, rest, M, s)
      PROVE  Follows(F, o + 1, Then(a, rest), M, s)
  <2>1. /\ Len(b) \in Nat /\ Len(ClosureCode(v, b)) = Len(b) + 6
        /\ o + 1 \in 1 .. Len(g) /\ o + 2 \in 1 .. Len(g) /\ o + 3 \in 1 .. Len(g)
        /\ g[o + 1] = Push(v) /\ g[o + 2] = Instr("SET_ACTIVATION")
        /\ g[o + 3] = Jump("JMP", Len(b) + 3)
        /\ o + Len(b) + 6 \in 1 .. Len(g) /\ g[o + Len(b) + 6] = Instr("NOP")
    BY <1>2, <1>5, ClosureLayout
  <2>2. PICK n : n = Len(b) /\ n \in Nat
    BY <2>1
  <2>3. PICK i, j, k, l : i = o + 1 /\ j = o + 2 /\ k = o + 3 /\ l = o + n + 6
    OBVIOUS
  <2>4. /\ i \in 1 .. Len(g) /\ j \in 1 .. Len(g) /\ k \in 1 .. Len(g) /\ l \in 1 .. Len(g)
        /\ g[i] = Push(v) /\ g[j] = Instr("SET_ACTIVATION") /\ g[k] = Jump("JMP", n + 3)
        /\ g[l] = Instr("NOP")
    BY <2>1, <2>2, <2>3
  <2>5. i + 1 = j /\ j + 1 = k /\ k + (n + 3) = l /\ l + 1 = o + Len(ClosureCode(v, b)) + 1
    BY <2>1, <2>2, <2>3
  <2>6. Follows(F, l, rest, M, s + 1)
    BY <1>5, <2>4, <2>5, Skips
  <2>7. Follows(F, k, rest, M, s + 2)
    <3>1. s + 1 \in Nat /\ s + 1 + 1 = s + 2
      OBVIOUS
    <3>. QED BY <2>4, <2>5, <2>6, <3>1, Jumps
  <2>8. Follows(F, j, Do(w, rest), M, s + 2)
    <3>1. Effects(g[j]) = <<w>> /\ g[j].op \notin Final \cup {"JZ"}
      BY <1>4, <2>4, FieldsAre DEF Effects, WithOperand, Final
    <3>2. s + 2 \in Nat
      OBVIOUS
    <3>. QED BY <2>4, <2>5, <2>7, <3>1, <3>2, DoesOne
  <2>9. Follows(F, i, Do(e, Do(w, rest)), M, s + 2)
    <3>1. Effects(g[i]) = <<e>> /\ g[i].op \notin Final \cup {"JZ"}
      BY <1>4, <2>4, PushDoes
    <3>2. s + 2 \in Nat
      OBVIOUS
    <3>. QED BY <2>4, <2>5, <2>8, <3>1, <3>2, DoesOne
  <2>10. Unfold(a, rest) = Do(e, Do(w, rest))
    BY <1>1, <1>4 DEF Unfold
  <2>11. Follows(F, i, Unfold(a, rest), M, s + 2) /\ s + 2 \in Nat /\ s + 2 <= s + 2
    BY <2>9, <2>10
  <2>. QED BY <2>3, <2>11, UnfoldsTo
<1>. QED BY <1>3, <1>5 DEF Correct, Performs

(* Two trees, one after the other. *)
LEMMA SequenceIsCorrect ==
    ASSUME NEW F, NEW g, NEW a \in Trees, a.t \in {"arg", "statement"},
           \A b \in Children(a) : Correct(F, g, b)
    PROVE  Correct(F, g, a)
<1>1. PICK l, r : l = Gen[a.left] /\ r = Gen[a.right]
  OBVIOUS
<1>2. /\ a.left \in Trees /\ a.right \in Trees
      /\ Correct(F, g, a.left) /\ Correct(F, g, a.right)
  BY TreeAssumption DEF Children
<1>3. IsSeq(l) /\ IsSeq(r) /\ Len(l) \in Nat /\ Len(r) \in Nat
  BY <1>1, <1>2, GenIsSeq
<1>4. Gen[a] = l \o r
  BY <1>1, GenIs DEF NodeCode
<1>5. ASSUME NEW o \in Nat, Lies(g, l \o r, o), NEW rest, NEW M \in Nat, NEW s \in Nat,
             Follows(F, o + Len(l \o r) + 1, rest, M, s)
      PROVE  Follows(F, o + 1, Then(a, rest), M, s)
  <2>1. PICK p \in Nat : p = o + Len(l)
    BY <1>3
  <2>2. Lies(g, l, o) /\ Lies(g, r, p) /\ Len(l \o r) = Len(l) + Len(r)
    BY <1>3, <1>5, <2>1, LiesJoined
  <2>3. Performs(F, l, o, a.left) /\ Performs(F, r, p, a.right)
    BY <1>1, <1>2, <2>2, PartIs
  <2>4. o + Len(l \o r) + 1 = p + Len(r) + 1 /\ p + 1 = o + Len(l) + 1
    BY <1>3, <2>1, <2>2
  <2>5. Follows(F, p + 1, Then(a.right, rest), M, s)
    BY <1>5, <2>3, <2>4 DEF Performs
  <2>6. Follows(F, o + 1, Then(a.left, Then(a.right, rest)), M, s)
    BY <2>3, <2>4, <2>5 DEF Performs
  <2>7. Unfold(a, rest) = Then(a.left, Then(a.right, rest))
    BY DEF Unfold
  <2>. QED BY <2>6, <2>7, UnfoldsTo
<1>. QED BY <1>4, <1>5 DEF Correct, Performs

(* A piece of one instruction with one effect.                             *)
LEMMA DoesPiece ==
    ASSUME NEW F, NEW g, FlowOf(F, g), NEW x, NEW e, NEW o \in Nat, Lies(g, <<x>>, o),
           Effects(x) = <<e>>, x.op \notin Final \cup {"JZ"},
           NEW rest, NEW M \in Nat, NEW s \in Nat, Follows(F, o + 2, rest, M, s)
    PROVE  Follows(F, o + 1, Do(e, rest), M, s)
<1>1. PICK i \in 1 .. Len(g) : i = o + 1 /\ i + 1 = o + 2 /\ g[i] = x
  BY LiesShort
<1>2. Follows(F, i, Do(e, rest), M, s)
  BY <1>1, DoesOne
<1>. QED BY <1>1, <1>2

LEMMA InstrDoes ==
    /\ \A b \in Builtins : LET x == BuiltinInstr(b) IN
          Effects(x) = <<Effect(b)>> /\ x.op \notin Final \cup {"JZ"}
    /\ \A op \in {"CALL", "SET_ACTIVATION"} : LET x == Instr(op) IN
          Effects(x) = <<Effect(op)>> /\ x.op \notin Final \cup {"JZ"}
    /\ \A op \in {"COW_LOCAL", "INIT_LOCAL", "POP_LOCAL"} : \A i : LET x == OnLocal(op, i) IN
          Effects(x) = <<OnSlot(op, i)>> /\ x.op \notin Final \cup {"JZ"}
<1>1. ASSUME NEW b \in Builtins
      PROVE  /\ Effects(BuiltinInstr(b)) = <<Effect(b)>>
             /\ BuiltinInstr(b).op \notin Final \cup {"JZ"}
  BY FieldsAre DEF BuiltinInstr, Builtins, Effects, WithOperand, Final
<1>2. ASSUME NEW op \in {"CALL", "SET_ACTIVATION"}
      PROVE  Effects(Instr(op)) = <<Effect(op)>> /\ Instr(op).op \notin Final \cup {"JZ"}
  BY FieldsAre DEF Effects, WithOperand, Final
<1>3. ASSUME NEW op \in {"COW_LOCAL", "INIT_LOCAL", "POP_LOCAL"}, NEW i
      PROVE  /\ Effects(OnLocal(op, i)) = <<OnSlot(op, i)>>
             /\ OnLocal(op, i).op \notin Final \cup {"JZ"}
  BY FieldsAre DEF Effects, WithOperand, Final, OnSlot
<1>. QED BY <1>1, <1>2, <1>3

LEMMA BuiltinIsCorrect ==
    ASSUME NEW F, NEW g, FlowOf(F, g), NEW a \in Trees, a.t = "builtin", Correct(F, g, a.args)
    PROVE  Correct(F, g, a)
<1>1. a.args \in Trees /\ a.b \in Builtins
  BY TreeAssumption DEF Children, WellFormed
<1>2. PICK args : args = Gen[a.args] /\ IsSeq(args)
  BY <1>1, GenIsSeq
<1>3. PICK cow, n, x :
          /\ cow = OnLocal("COW_LOCAL", FindLocal[a].index)
          /\ n = Push(Integer(ArgCount[a.args]))
          /\ x = BuiltinInstr(a.b)
  OBVIOUS
<1>4. PICK before, count : /\ before = (IF a.b = "Store" THEN <<cow>> ELSE <<>>)
                           /\ count = (IF Variadic(a.b) THEN <<n>> ELSE <<>>)
  OBVIOUS
<1>5. IsSeq(before) /\ IsSeq(count)
  BY <1>4, ShortSeqs
<1>6. Gen[a] = before \o args \o count \o <<x>>
  BY <1>2, <1>3, <1>4, GenIs DEF NodeCode, BuiltinCode
<1>7. ASSUME NEW o \in Nat, Lies(g, before \o args \o count \o <<x>>, o),
             NEW rest, NEW M \in Nat, NEW s \in Nat,
             Follows(F, o + Len(before \o args \o count \o <<x>>) + 1, rest, M, s)
      PROVE  Follows(F, o + 1, Then(a, rest), M, s)
  <2>1. /\ Len(before) \in Nat /\ Len(args) \in Nat /\ Len(count) \in Nat
        /\ Len(before \o args \o count \o <<x>>) = Len(before) + Len(args) + Len(count) + 1
        /\ Lies(g, before, o) /\ Lies(g, args, o + Len(before))
        /\ Lies(g, count, o + Len(before) + Len(args))
        /\ o + Len(before) + Len(args) + Len(count) + 1 \in 1 .. Len(g)
        /\ g[o + Len(before) + Len(args) + Len(count) + 1] = x
    <3>1. IsSeq(args)
      BY <1>2
    <3>. QED BY <1>5, <1>7, <3>1, BuiltinLayout
  <2>2. PICK p \in Nat, q \in Nat, r \in Nat :
            /\ p = o + Len(before) /\ q = p + Len(args) /\ r = q + Len(count)
            /\ Lies(g, args, p) /\ Lies(g, count, q)
            /\ r + 1 \in 1 .. Len(g) /\ g[r + 1] = x
            /\ o + Len(before \o args \o count \o <<x>>) + 1 = r + 1 + 1
    BY <2>1
  <2>3. PICK computed, counted :
            /\ computed = Do(Effect(a.b), rest)
            /\ counted = IF Variadic(a.b)
                         THEN Do(Does("PUSH_VALUE", Integer(ArgCount[a.args])), computed)
                         ELSE computed
    OBVIOUS
  <2>4. Follows(F, r + 1, computed, M, s)
    <3>1. Effects(x) = <<Effect(a.b)>> /\ x.op \notin Final \cup {"JZ"}
      BY <1>1, <1>3, InstrDoes
    <3>2. Follows(F, r + 1 + 1, rest, M, s)
      BY <1>7, <2>2
    <3>. QED BY <2>2, <2>3, <3>1, <3>2, DoesOne
  <2>5. Follows(F, q + 1, counted, M, s)
    <3>1. CASE Variadic(a.b)
      <4>1. count = <<n>> /\ Len(count) = 1
        BY <1>4, <3>1, ShortSeqs
      <4>2. r + 1 = q + 2
        BY <2>2, <4>1
      <4>3. /\ Effects(n) = <<Does("PUSH_VALUE", Integer(ArgCount[a.args]))>>
            /\ n.op \notin Final \cup {"JZ"}
        BY <1>3, PushDoes
      <4>4. Lies(g, <<n>>, q) /\ Follows(F, q + 2, computed, M, s)
        BY <2>2, <2>4, <4>1, <4>2
      <4>5. Follows(F, q + 1, Do(Does("PUSH_VALUE", Integer(ArgCount[a.args])), computed), M, s)
        BY <4>3, <4>4, DoesPiece
      <4>. QED BY <2>3, <3>1, <4>5
    <3>2. CASE ~Variadic(a.b)
      <4>1. Len(count) = 0
        BY <1>4, <3>2, ShortSeqs
      <4>2. r + 1 = q + 1
        BY <2>2, <4>1
      <4>. QED BY <2>3, <2>4, <3>2, <4>2
    <3>. QED BY <3>1, <3>2
  <2>6. Follows(F, p + 1, Then(a.args, counted), M, s)
    <3>1. Performs(F, args, p, a.args)
      BY <1>1, <1>2, <2>2, PartIs
    <3>2. p + Len(args) + 1 = q + 1
      BY <2>2
    <3>. QED BY <2>5, <3>1, <3>2 DEF Performs
  <2>7. Follows(F, o + 1, Unfold(a, rest), M, s)
    <3>1. CASE a.b = "Store"
      <4>1. before = <<cow>> /\ Len(before) = 1
        BY <1>4, <3>1, ShortSeqs
      <4>2. p + 1 = o + 2
        BY <2>2, <4>1
      <4>3. /\ Effects(cow) = <<OnSlot("COW_LOCAL", FindLocal[a].index)>>
            /\ cow.op \notin Final \cup {"JZ"}
        BY <1>3, InstrDoes
      <4>4. Lies(g, <<cow>>, o) /\ Follows(F, o + 2, Then(a.args, counted), M, s)
        BY <2>1, <2>6, <4>1, <4>2
      <4>5. Follows(F, o + 1,
                    Do(OnSlot("COW_LOCAL", FindLocal[a].index), Then(a.args, counted)), M, s)
        BY <4>3, <4>4, DoesPiece
      <4>6. Unfold(a, rest) = Do(OnSlot("COW_LOCAL", FindLocal[a].index), Then(a.args, counted))
        BY <2>3, <3>1 DEF Unfold
      <4>. QED BY <4>5, <4>6
    <3>2. CASE a.b # "Store"
      <4>1. Len(before) = 0
        BY <1>4, <3>2, ShortSeqs
      <4>2. p + 1 = o + 1
        BY <2>2, <4>1
      <4>3. Unfold(a, rest) = Then(a.args, counted)
        BY <2>3, <3>2 DEF Unfold
      <4>. QED BY <2>6, <4>2, <4>3
    <3>. QED BY <3>1, <3>2
  <2>. QED BY <2>7, UnfoldsTo
<1>. QED BY <1>6, <1>7 DEF Correct, Performs

LEMMA ApplyIsCorrect ==
    ASSUME NEW F, NEW g, FlowOf(F, g), NEW a \in Trees, a.t = "apply",
           Correct(F, g, a.args), Correct(F, g, a.fn)
    PROVE  Correct(F, g, a)
<1>1. a.args \in Trees /\ a.fn \in Trees
  BY TreeAssumption DEF Children
<1>2. PICK args, fn, c : /\ args = Gen[a.args] /\ fn = Gen[a.fn] /\ c = <<Instr("CALL")>>
                         /\ IsSeq(args) /\ IsSeq(fn)
  BY <1>1, GenIsSeq
<1>3. IsSeq(c)
  BY <1>2, ShortSeqs
<1>4. Gen[a] = args \o fn \o c
  BY <1>2, GenIs DEF NodeCode
<1>5. ASSUME NEW o \in Nat, Lies(g, args \o fn \o c, o), NEW rest, NEW M \in Nat, NEW s \in Nat,
             Follows(F, o + Len(args \o fn \o c) + 1, rest, M, s)
      PROVE  Follows(F, o + 1, Then(a, rest), M, s)
  <2>1. /\ Len(args) \in Nat /\ Len(fn) \in Nat
        /\ Len(args \o fn \o c) = Len(args) + Len(fn) + Len(c)
        /\ Lies(g, args, o) /\ Lies(g, fn, o + Len(args)) /\ Lies(g, c, o + Len(args) + Len(fn))
    <3>1. IsSeq(args) /\ IsSeq(fn)
      BY <1>2
    <3>. QED BY <1>3, <1>5, <3>1, LiesThree
  <2>2. Len(c) = 1
    BY <1>2, ShortSeqs
  <2>3. PICK p \in Nat, q \in Nat :
            /\ p = o + Len(args) /\ q = p + Len(fn) /\ Lies(g, fn, p) /\ Lies(g, c, q)
            /\ o + Len(args \o fn \o c) + 1 = q + 2
    BY <2>1, <2>2
  <2>4. Follows(F, q + 1, Do(Effect("CALL"), rest), M, s)
    <3>1. Effects(Instr("CALL")) = <<Effect("CALL")>> /\ Instr("CALL").op \notin Final \cup {"JZ"}
      BY InstrDoes
    <3>2. Lies(g, <<Instr("CALL")>>, q) /\ Follows(F, q + 2, rest, M, s)
      BY <1>2, <1>5, <2>3
    <3>. QED BY <3>1, <3>2, DoesPiece
  <2>5. Performs(F, args, o, a.args) /\ Performs(F, fn, p, a.fn)
    BY <1>1, <1>2, <2>1, <2>3, PartIs
  <2>6. Follows(F, p + 1, Then(a.fn, Do(Effect("CALL"), rest)), M, s)
    <3>1. p + Len(fn) + 1 = q + 1
      BY <2>3
    <3>. QED BY <2>4, <2>5, <3>1 DEF Performs
  <2>7. Follows(F, o + 1, Then(a.args, Then(a.fn, Do(Effect("CALL"), rest))), M, s)
    <3>1. o + Len(args) + 1 = p + 1
      BY <2>3
    <3>. QED BY <2>5, <2>6, <3>1 DEF Performs
  <2>8. Unfold(a, rest) = Then(a.args, Then(a.fn, Do(Effect("CALL"), rest)))
    BY DEF Unfold
  <2>. QED BY <2>7, <2>8, UnfoldsTo
<1>. QED BY <1>4, <1>5 DEF Correct, Performs

LEMMA AssignmentIsCorrect ==
    ASSUME NEW F, NEW g, FlowOf(F, g), NEW a \in Trees, a.t = "assignment", Correct(F, g, a.right)
    PROVE  Correct(F, g, a)
<1>1. a.right \in Trees
  BY TreeAssumption DEF Children
<1>2. PICK op, right, x, e :
          /\ op = (IF a.defining THEN "INIT_LOCAL" ELSE "POP_LOCAL")
          /\ right = Gen[a.right] /\ IsSeq(right)
          /\ x = OnLocal(op, a.left.index) /\ e = OnSlot(op, a.left.index)
  BY <1>1, GenIsSeq
<1>3. PICK c : c = <<x>>
  OBVIOUS
<1>4. IsSeq(c)
  BY <1>3, ShortSeqs
<1>5. Gen[a] = right \o c
  BY <1>2, <1>3, GenIs DEF NodeCode, AssignmentCode
<1>6. ASSUME NEW o \in Nat, Lies(g, right \o c, o), NEW rest, NEW M \in Nat, NEW s \in Nat,
             Follows(F, o + Len(right \o c) + 1, rest, M, s)
      PROVE  Follows(F, o + 1, Then(a, rest), M, s)
  <2>1. /\ Len(right) \in Nat /\ Len(right \o c) = Len(right) + Len(c)
        /\ Lies(g, right, o) /\ Lies(g, c, o + Len(right))
    BY <1>2, <1>4, <1>6, LiesJoined
  <2>2. Len(c) = 1
    BY <1>3, ShortSeqs
  <2>3. PICK p \in Nat : p = o + Len(right) /\ o + Len(right \o c) + 1 = p + 2 /\ Lies(g, c, p)
    BY <2>1, <2>2
  <2>4. Follows(F, p + 1, Do(e, rest), M, s)
    <3>1. Effects(x) = <<e>> /\ x.op \notin Final \cup {"JZ"}
      BY <1>2, InstrDoes
    <3>2. Lies(g, <<x>>, p) /\ Follows(F, p + 2, rest, M, s)
      BY <1>3, <1>6, <2>3
    <3>. QED BY <3>1, <3>2, DoesPiece
  <2>5. Follows(F, o + 1, Then(a.right, Do(e, rest)), M, s)
    <3>1. Performs(F, right, o, a.right)
      BY <1>1, <1>2, <2>1, PartIs
    <3>2. o + Len(right) + 1 = p + 1
      BY <2>3
    <3>. QED BY <2>4, <3>1, <3>2 DEF Performs
  <2>6. Unfold(a, rest) = Then(a.right, Do(e, rest))
    BY <1>2 DEF Unfold
  <2>. QED BY <2>5, <2>6, UnfoldsTo
<1>. QED BY <1>5, <1>6 DEF Correct, Performs

(* What follows a RET is of no matter. *)
LEMMA RetrIsCorrect ==
    ASSUME NEW F, NEW g, FlowOf(F, g), NEW a \in Trees, a.t = "retr", Correct(F, g, a.body)
    PROVE  Correct(F, g, a)
<1>1. a.body \in Trees
  BY TreeAssumption DEF Children
<1>2. PICK body, x : body = Gen[a.body] /\ IsSeq(body) /\ x = Instr("RET")
  BY <1>1, GenIsSeq
<1>3. PICK c : c = <<x>>
  OBVIOUS
<1>4. IsSeq(c)
  BY <1>3, ShortSeqs
<1>5. Gen[a] = body \o c
  <2>1. Gen[a] = Append(body, x)
    BY <1>2, GenIs DEF NodeCode
  <2>2. Append(body, x) = body \o c
    <3>1. Gen[a.body] \in Seq(Instructions)
      BY <1>1, GenIs DEF Codes
    <3>2. x \in Instructions
      BY <1>2, InstructionsAre DEF Opcodes
    <3>. QED BY <1>2, <1>3, <3>1, <3>2
  <2>. QED BY <2>1, <2>2
<1>6. ASSUME NEW o \in Nat, Lies(g, body \o c, o), NEW rest, NEW M \in Nat, NEW s \in Nat
      PROVE  Follows(F, o + 1, Then(a, rest), M, s)
  <2>1. Len(body) \in Nat /\ Lies(g, body, o) /\ Lies(g, c, o + Len(body))
    BY <1>2, <1>4, <1>6, LiesJoined
  <2>2. PICK p \in Nat : p = o + Len(body) /\ Lies(g, <<x>>, p)
    BY <1>3, <2>1
  <2>3. PICK i \in 1 .. Len(g) : i = o + Len(body) + 1 /\ g[i] = Instr("RET")
    BY <1>2, <2>2, LiesShort
  <2>4. Follows(F, i, End("RET"), M, s)
    BY <2>3, Ends
  <2>5. Performs(F, body, o, a.body)
    BY <1>1, <1>2, <2>1, PartIs
  <2>6. Follows(F, o + 1, Then(a.body, End("RET")), M, s)
    BY <2>3, <2>4, <2>5 DEF Performs
  <2>7. Unfold(a, rest) = Then(a.body, End("RET"))
    BY DEF Unfold
  <2>. QED BY <2>6, <2>7, UnfoldsTo
<1>. QED BY <1>5, <1>6 DEF Correct, Performs

LEMMA ChoiceIsCorrect ==
    ASSUME NEW F, NEW g, FlowOf(F, g), NEW a \in Trees, a.t = "conditional", a.no = Nothing,
           Correct(F, g, a.test), Correct(F, g, a.yes)
    PROVE  Correct(F, g, a)
<1>1. a.test \in Trees /\ a.yes \in Trees
  BY TreeAssumption DEF Children
<1>2. PICK test, yes : test = Gen[a.test] /\ yes = Gen[a.yes] /\ IsSeq(test) /\ IsSeq(yes)
  BY <1>1, GenIsSeq
<1>3. IsSeq(test) /\ IsSeq(yes)
  BY <1>2
<1>4. Gen[a] = ChoiceCode(test, yes)
  BY <1>2, GenIs DEF NodeCode
<1>5. ASSUME NEW o \in Nat, Lies(g, ChoiceCode(test, yes), o),
             NEW rest, NEW M \in Nat, NEW s \in Nat,
             Follows(F, o + Len(ChoiceCode(test, yes)) + 1, rest, M, s)
      PROVE  Follows(F, o + 1, Then(a, rest), M, s)
  <2>1. /\ Len(test) \in Nat /\ Len(yes) \in Nat
        /\ Len(ChoiceCode(test, yes)) = Len(test) + Len(yes) + 2
        /\ o + Len(test) + 1 \in 1 .. Len(g) /\ o + Len(test) + Len(yes) + 2 \in 1 .. Len(g)
        /\ Lies(g, test, o) /\ g[o + Len(test) + 1] = Jump("JZ", Len(yes) + 1)
        /\ Lies(g, yes, o + Len(test) + 1) /\ g[o + Len(test) + Len(yes) + 2] = Instr("NOP")
    BY <1>3, <1>5, ChoiceLayout
  <2>2. PICK p \in Nat, q \in Nat :
            /\ p = o + Len(test) + 1 /\ q = p + Len(yes) + 1
            /\ p \in 1 .. Len(g) /\ q \in 1 .. Len(g)
            /\ g[p] = Jump("JZ", Len(yes) + 1) /\ g[q] = Instr("NOP") /\ Lies(g, yes, p)
            /\ o + Len(ChoiceCode(test, yes)) + 1 = q + 1 /\ q = p + (Len(yes) + 1)
    BY <2>1
  <2>3. PICK u \in Nat : u = s + 1
    OBVIOUS
  <2>4. Follows(F, q, rest, M, u)
    BY <1>5, <2>2, <2>3, Skips
  <2>5. Follows(F, p + 1, Then(a.yes, rest), M, u)
    <3>1. Performs(F, yes, p, a.yes)
      BY <1>1, <1>2, <2>2, PartIs
    <3>. QED BY <2>2, <2>4, <3>1 DEF Performs
  <2>6. Follows(F, q, Then(a.no, rest), M, u)
    <3>1. Unfold(a.no, rest) = rest
      BY DEF Unfold, Nothing
    <3>2. Follows(F, q, Unfold(a.no, rest), M, u)
      BY <2>4, <3>1
    <3>. QED BY <3>2, UnfoldsTo
  <2>7. PICK choice : choice = Test(Then(a.yes, rest), Then(a.no, rest))
    OBVIOUS
  <2>8. Follows(F, p, choice, M + 1, s)
    <3>1. /\ Follows(F, p + 1, Then(a.yes, rest), M, s + 1)
          /\ Follows(F, q, Then(a.no, rest), M, s + 1)
      BY <2>3, <2>5, <2>6
    <3>. QED BY <2>2, <2>7, <3>1, Tests
  <2>9. Follows(F, o + 1, Then(a.test, choice), M + 1, s)
    <3>1. Performs(F, test, o, a.test)
      BY <1>1, <1>2, <2>1, PartIs
    <3>2. M + 1 \in Nat /\ o + Len(test) + 1 = p
      BY <2>2
    <3>. QED BY <2>8, <3>1, <3>2 DEF Performs
  <2>10. Follows(F, o + 1, Unfold(a, rest), M, s)
    <3>1. Follows(F, o + 1, Then(a.test, choice), M, s)
      BY <2>9, FollowsLess
    <3>2. Unfold(a, rest) = Then(a.test, choice)
      BY <2>7 DEF Unfold
    <3>. QED BY <3>1, <3>2
  <2>. QED BY <2>10, UnfoldsTo
<1>. QED BY <1>4, <1>5 DEF Correct, Performs

LEMMA ConditionalIsCorrect ==
    ASSUME NEW F, NEW g, FlowOf(F, g), NEW a \in Trees, a.t = "conditional", a.no # Nothing,
           Correct(F, g, a.test), Correct(F, g, a.yes), Correct(F, g, a.no)
    PROVE  Correct(F, g, a)
<1>1. a.test \in Trees /\ a.yes \in Trees /\ a.no \in Trees
  BY TreeAssumption DEF Children
<1>2. PICK test, yes, no : /\ test = Gen[a.test] /\ yes = Gen[a.yes] /\ no = Gen[a.no]
                           /\ IsSeq(test) /\ IsSeq(yes) /\ IsSeq(no)
  BY <1>1, GenIsSeq
<1>3. IsSeq(test) /\ IsSeq(yes) /\ IsSeq(no)
  BY <1>2
<1>4. Gen[a] = ConditionalCode(test, yes, no)
  BY <1>2, GenIs DEF NodeCode
<1>5. ASSUME NEW o \in Nat, Lies(g, ConditionalCode(test, yes, no), o),
             NEW rest, NEW M \in Nat, NEW s \in Nat,
             Follows(F, o + Len(ConditionalCode(test, yes, no)) + 1, rest, M, s)
      PROVE  Follows(F, o + 1, Then(a, rest), M, s)
  <2>1. /\ Len(test) \in Nat /\ Len(yes) \in Nat /\ Len(no) \in Nat
        /\ Len(ConditionalCode(test, yes, no)) = Len(test) + Len(yes) + Len(no) + 4
        /\ o + Len(test) + 1 \in 1 .. Len(g) /\ o + Len(test) + Len(yes) + 2 \in 1 .. Len(g)
        /\ o + Len(test) + Len(yes) + 3 \in 1 .. Len(g)
        /\ o + Len(test) + Len(yes) + Len(no) + 4 \in 1 .. Len(g)
        /\ Lies(g, test, o) /\ g[o + Len(test) + 1] = Jump("JZ", Len(yes) + 2)
        /\ Lies(g, yes, o + Len(test) + 1)
        /\ g[o + Len(test) + Len(yes) + 2] = Jump("JMP", Len(no) + 2)
        /\ g[o + Len(test) + Len(yes) + 3] = Instr("NOP")
        /\ Lies(g, no, o + Len(test) + Len(yes) + 3)
        /\ g[o + Len(test) + Len(yes) + Len(no) + 4] = Instr("NOP")
    <3>1. Lies(g, ConditionalCode(test, yes, no), o)
      BY <1>5
    <3>. QED BY <1>3, <3>1, ConditionalLies
  <2>0. PICK p \in Nat, q \in Nat, r \in Nat, e \in Nat :
            /\ p = o + Len(test) + 1 /\ q = o + Len(test) + Len(yes) + 2
            /\ r = o + Len(test) + Len(yes) + 3 /\ e = o + Len(test) + Len(yes) + Len(no) + 4
    <3>1. Len(test) \in Nat /\ Len(yes) \in Nat /\ Len(no) \in Nat
      BY <2>1
    <3>2. /\ o + Len(test) + 1 \in Nat /\ o + Len(test) + Len(yes) + 2 \in Nat
          /\ o + Len(test) + Len(yes) + 3 \in Nat
          /\ o + Len(test) + Len(yes) + Len(no) + 4 \in Nat
      BY <3>1
    <3>. QED BY <3>2
  <2>2. /\ p = o + Len(test) + 1 /\ q = p + Len(yes) + 1 /\ r = q + 1 /\ e = r + Len(no) + 1
        /\ p \in 1 .. Len(g) /\ q \in 1 .. Len(g) /\ r \in 1 .. Len(g) /\ e \in 1 .. Len(g)
        /\ g[p] = Jump("JZ", Len(yes) + 2) /\ Lies(g, yes, p)
        /\ g[q] = Jump("JMP", Len(no) + 2) /\ g[r] = Instr("NOP")
        /\ Lies(g, no, r) /\ g[e] = Instr("NOP")
        /\ o + Len(ConditionalCode(test, yes, no)) + 1 = e + 1
        /\ r = p + (Len(yes) + 2) /\ e = q + (Len(no) + 2)
    BY <2>0, <2>1
  <2>3. PICK u \in Nat, v \in Nat : u = s + 1 /\ v = u + 1
    OBVIOUS
  <2>4. Follows(F, e, rest, M, u)
    BY <1>5, <2>2, <2>3, Skips
  <2>5. Follows(F, q, rest, M, v)
    BY <2>2, <2>3, <2>4, Jumps
  <2>6. Follows(F, p + 1, Then(a.yes, rest), M, v)
    <3>1. Performs(F, yes, p, a.yes)
      BY <1>1, <1>2, <2>2, PartIs
    <3>. QED BY <2>2, <2>5, <3>1 DEF Performs
  <2>7. Follows(F, r, Then(a.no, rest), M, v)
    <3>1. Performs(F, no, r, a.no)
      BY <1>1, <1>2, <2>2, PartIs
    <3>2. Follows(F, r + 1, Then(a.no, rest), M, u)
      BY <2>2, <2>4, <3>1 DEF Performs
    <3>. QED BY <2>2, <2>3, <3>2, Skips
  <2>8. PICK choice : choice = Test(Then(a.yes, rest), Then(a.no, rest))
    OBVIOUS
  <2>9. Follows(F, p, choice, M + 1, u)
    <3>1. /\ Follows(F, p + 1, Then(a.yes, rest), M, u + 1)
          /\ Follows(F, r, Then(a.no, rest), M, u + 1)
      BY <2>3, <2>6, <2>7
    <3>. QED BY <2>2, <2>8, <3>1, Tests
  <2>10. Follows(F, o + 1, Then(a.test, choice), M + 1, u)
    <3>1. Performs(F, test, o, a.test)
      BY <1>1, <1>2, <2>1, PartIs
    <3>2. M + 1 \in Nat /\ o + Len(test) + 1 = p
      BY <2>2
    <3>. QED BY <2>9, <3>1, <3>2 DEF Performs
  <2>11. Follows(F, o + 1, Unfold(a, rest), M, u)
    <3>1. Follows(F, o + 1, Then(a.test, choice), M, u)
      BY <2>10, FollowsLess
    <3>2. Unfold(a, rest) = Then(a.test, choice)
      BY <2>8 DEF Unfold
    <3>. QED BY <3>1, <3>2
  <2>12. u <= s + 2
    BY <2>3
  <2>. QED BY <2>11, <2>12, UnfoldsTo
<1>. QED BY <1>4, <1>5 DEF Correct, Performs

(* By induction on the steps over the tree: the jump back leads to the     *)
(* loop, which has a step less.                                            *)
LEMMA LoopIsCorrect ==
    ASSUME NEW F, NEW g, FlowOf(F, g), NEW a \in Trees, a.t = "while",
           Correct(F, g, a.test), Correct(F, g, a.body)
    PROVE  Correct(F, g, a)
<1>1. a.test \in Trees /\ a.body \in Trees
  BY TreeAssumption DEF Children
<1>2. PICK test, body : test = Gen[a.test] /\ body = Gen[a.body] /\ IsSeq(test) /\ IsSeq(body)
  BY <1>1, GenIsSeq
<1>3. IsSeq(test) /\ IsSeq(body)
  BY <1>2
<1>4. Gen[a] = LoopCode(test, body)
  BY <1>2, GenIs DEF NodeCode
<1>5. ASSUME NEW o \in Nat, Lies(g, LoopCode(test, body), o),
             NEW rest, NEW M \in Nat, NEW s \in Nat,
             Follows(F, o + Len(LoopCode(test, body)) + 1, rest, M, s)
      PROVE  Follows(F, o + 1, Then(a, rest), M, s)
  <2>1. /\ Len(test) \in Nat /\ Len(body) \in Nat
        /\ Len(LoopCode(test, body)) = Len(test) + Len(body) + 4
        /\ o + 1 \in 1 .. Len(g) /\ o + Len(test) + 2 \in 1 .. Len(g)
        /\ o + Len(test) + Len(body) + 3 \in 1 .. Len(g)
        /\ o + Len(test) + Len(body) + 4 \in 1 .. Len(g)
        /\ g[o + 1] = Instr("NOP") /\ Lies(g, test, o + 1)
        /\ g[o + Len(test) + 2] = Jump("JZ", Len(body) + 2) /\ Lies(g, body, o + Len(test) + 2)
        /\ g[o + Len(test) + Len(body) + 3] = Jump("JMP", -(Len(test) + Len(body) + 2))
        /\ g[o + Len(test) + Len(body) + 4] = Instr("NOP")
    BY <1>3, <1>5, LoopLayout
  <2>2. PICK b \in Nat, p \in Nat, q \in Nat, e \in Nat :
            /\ b = o + 1 /\ p = b + Len(test) + 1 /\ q = p + Len(body) + 1 /\ e = q + 1
            /\ b \in 1 .. Len(g) /\ p \in 1 .. Len(g) /\ q \in 1 .. Len(g) /\ e \in 1 .. Len(g)
            /\ g[b] = Instr("NOP") /\ Lies(g, test, b)
            /\ g[p] = Jump("JZ", Len(body) + 2) /\ Lies(g, body, p)
            /\ g[q] = Jump("JMP", -(Len(test) + Len(body) + 2)) /\ g[e] = Instr("NOP")
            /\ o + Len(LoopCode(test, body)) + 1 = e + 1
            /\ e = p + (Len(body) + 2) /\ b = q + -(Len(test) + Len(body) + 2)
    BY <2>1
  <2>3. Performs(F, test, b, a.test) /\ Performs(F, body, p, a.body)
    BY <1>1, <1>2, <2>2, PartIs
  <2>4. PICK u \in Nat : u = s + 1
    OBVIOUS
  <2>. DEFINE S == {n \in Nat : n <= M => Follows(F, b, Then(a, rest), n, s)}
  <2>5. 0 \in S
    BY FollowsNone
  <2>6. ASSUME NEW n \in Nat, n \in S PROVE n + 1 \in S
    <3>. SUFFICES ASSUME n + 1 <= M PROVE Follows(F, b, Then(a, rest), n + 1, s)
      OBVIOUS
    <3>0. Follows(F, b, Then(a, rest), n, s)
      BY <2>6
    <3>. HIDE DEF S
    <3>1. Follows(F, q, Then(a, rest), n, u)
      BY <2>2, <2>4, <3>0, Jumps
    <3>2. Follows(F, p + 1, Then(a.body, Then(a, rest)), n, u)
      BY <2>2, <2>3, <3>1 DEF Performs
    <3>3. Follows(F, e, rest, n, u)
      <4>1. Follows(F, e, rest, M, u)
        BY <1>5, <2>2, <2>4, Skips
      <4>2. n <= M /\ u <= u
        OBVIOUS
      <4>. QED BY <4>1, <4>2, FollowsLess
    <3>4. PICK choice : choice = Test(Then(a.body, Then(a, rest)), rest)
      OBVIOUS
    <3>5. Follows(F, p, choice, n + 1, s)
      <4>1. /\ Follows(F, p + 1, Then(a.body, Then(a, rest)), n, s + 1)
            /\ Follows(F, e, rest, n, s + 1)
        BY <2>4, <3>2, <3>3
      <4>. QED BY <2>2, <3>4, <4>1, Tests
    <3>6. Follows(F, b + 1, Then(a.test, choice), n + 1, s)
      <4>1. n + 1 \in Nat
        OBVIOUS
      <4>. QED BY <2>2, <2>3, <3>5, <4>1 DEF Performs
    <3>7. Follows(F, b, Then(a.test, choice), n + 1, u)
      <4>1. n + 1 \in Nat
        OBVIOUS
      <4>. QED BY <2>2, <2>4, <3>6, <4>1, Skips
    <3>8. Unfold(a, rest) = Then(a.test, choice)
      BY <3>4 DEF Unfold
    <3>9. Follows(F, b, Unfold(a, rest), n + 1, u) /\ n + 1 \in Nat /\ u <= s + 2
      BY <2>4, <3>7, <3>8
    <3>. QED BY <3>9, UnfoldsTo
  <2>. HIDE DEF S
  <2>7. Nat \subseteq S
    BY <2>5, <2>6, SetInduction
  <2>8. M \in S
    BY <2>7
  <2>. QED BY <2>2, <2>8 DEF S
<1>. QED BY <1>4, <1>5 DEF Correct, Performs

(* Every tree.                                                             *)
LEMMA TreesAreCorrect ==
    ASSUME NEW F, NEW g, FlowOf(F, g)
    PROVE  \A a \in Trees : Correct(F, g, a)
<1>. DEFINE T == {a \in Trees : Correct(F, g, a)}
<1>1. ASSUME NEW a \in Trees, \A b \in Children(a) : b \in T PROVE a \in T
  <2>1. \A b \in Children(a) : Correct(F, g, b)
    BY <1>1
  <2>2. a.t \in {"nothing", "local", "value", "builtin", "apply", "arg", "statement",
                 "assignment", "conditional", "while", "retr"}
    BY TreeAssumption DEF WellFormed
  <2>3. CASE a.t = "nothing"
    BY <2>3, NothingIsCorrect
  <2>4. CASE a.t = "local"
    BY <2>4, LocalIsCorrect
  <2>5. CASE a.t = "value"
    BY <2>5, ValueIsCorrect, ClosureIsCorrect
  <2>6. CASE a.t = "builtin"
    BY <2>1, <2>6, BuiltinIsCorrect DEF Children
  <2>7. CASE a.t = "apply"
    BY <2>1, <2>7, ApplyIsCorrect DEF Children
  <2>8. CASE a.t \in {"arg", "statement"}
    BY <2>1, <2>8, SequenceIsCorrect
  <2>9. CASE a.t = "assignment"
    BY <2>1, <2>9, AssignmentIsCorrect DEF Children
  <2>10. CASE a.t = "conditional"
    <3>1. Correct(F, g, a.test) /\ Correct(F, g, a.yes) /\ Correct(F, g, a.no)
      BY <2>1, <2>10 DEF Children
    <3>. QED BY <2>10, <3>1, ChoiceIsCorrect, ConditionalIsCorrect
  <2>11. CASE a.t = "while"
    BY <2>1, <2>11, LoopIsCorrect DEF Children
  <2>12. CASE a.t = "retr"
    BY <2>1, <2>12, RetrIsCorrect DEF Children
  <2>. HIDE DEF T
  <2>13. Correct(F, g, a)
    BY <2>2, <2>3, <2>4, <2>5, <2>6, <2>7, <2>8, <2>9, <2>10, <2>11, <2>12 DEF T
  <2>. QED BY <2>13 DEF T
<1>2. Trees \subseteq T
  <2>. HIDE DEF T
  <2>. QED BY <1>1, TreeInduction
<1>. QED BY <1>2

(***************************************************************************)
(* What the code for a tree consists of                                    *)
(***************************************************************************)

(* Jumps stay within the code, and a closure that is pushed is one of C,   *)
(* the code for which is there.                                            *)
Fine(h, i, C) ==
    /\ h[i].jump \in Int
    /\ Branch(h[i].op) => i + h[i].jump \in 1 .. Len(h) /\ h[i].jump # 0
    /\ ~Branch(h[i].op) => h[i].jump = 0
    /\ IsClosurePush(h[i]) => \E c \in C :
          c.value = h[i].arg /\ Lies(h, ClosureCode(c.value, Gen[c.body]), i - 1)

Sound(h, C) == \A i \in 1 .. Len(h) : Fine(h, i, C)

LEMMA LiesItself ==
    ASSUME NEW h, IsSeq(h)
    PROVE  Lies(h, h, 0)
BY DEF Lies, IsSeq

LEMMA LiesDeeper ==
    ASSUME NEW h, NEW p, NEW q, NEW o \in Nat, NEW n \in Nat, Lies(h, p, o), Lies(p, q, n)
    PROVE  Lies(h, q, o + n)
<1>1. ASSUME NEW i \in 1 .. Len(q) PROVE o + n + i \in 1 .. Len(h) /\ h[o + n + i] = q[i]
  <2>1. PICK j \in 1 .. Len(p) : j = n + i /\ p[j] = q[i]
    BY DEF Lies
  <2>2. o + j \in 1 .. Len(h) /\ h[o + j] = p[j]
    BY DEF Lies
  <2>3. o + j = o + n + i
    <3>1. i \in Int
      OBVIOUS
    <3>. QED BY <2>1, <3>1
  <2>. QED BY <2>1, <2>2, <2>3
<1>. QED BY <1>1 DEF Lies

LEMMA FinePart ==
    ASSUME NEW h, NEW p, NEW C, NEW D, Sound(p, D), D \subseteq C, Len(p) \in Nat, Len(h) \in Nat,
           NEW o \in Nat, Lies(h, p, o), NEW j \in 1 .. Len(p), NEW i, i = o + j
    PROVE  Fine(h, i, C)
<1>1. Fine(p, j, D) /\ h[i] = p[j] /\ i \in 1 .. Len(h)
  BY DEF Sound, Lies
<1>2. ASSUME NEW k \in 1 .. Len(p) PROVE o + k \in 1 .. Len(h)
  BY DEF Lies
<1>3. ASSUME Branch(h[i].op) PROVE i + h[i].jump \in 1 .. Len(h) /\ h[i].jump # 0
  <2>1. PICK k \in 1 .. Len(p) : k = j + p[j].jump
    BY <1>1, <1>3 DEF Fine
  <2>2. p[j].jump # 0
    BY <1>1, <1>3 DEF Fine
  <2>3. o + k \in 1 .. Len(h)
    BY <1>2
  <2>4. i + p[j].jump = o + k
    <3>1. p[j].jump \in Int
      BY <1>1 DEF Fine
    <3>. QED BY <2>1, <3>1
  <2>. QED BY <1>1, <2>2, <2>3, <2>4
<1>4. ASSUME IsClosurePush(h[i])
      PROVE  \E c \in C : c.value = h[i].arg /\ Lies(h, ClosureCode(c.value, Gen[c.body]), i - 1)
  <2>1. PICK c \in D : c.value = h[i].arg /\ Lies(p, ClosureCode(c.value, Gen[c.body]), j - 1)
    BY <1>1, <1>4 DEF Fine
  <2>2. PICK n \in Nat : n = j - 1 /\ o + n = i - 1
    OBVIOUS
  <2>3. Lies(h, ClosureCode(c.value, Gen[c.body]), o + n)
    BY <2>1, <2>2, LiesDeeper
  <2>. QED BY <2>1, <2>2, <2>3
<1>. QED BY <1>1, <1>3, <1>4 DEF Fine

(* Instructions that a node adds. *)
LEMMA FineInstr ==
    /\ \A h, i, C, op : op \notin {"JMP", "JZ", "PUSH_VALUE"} /\ h[i] = Instr(op) => Fine(h, i, C)
    /\ \A h, i, C, op, n :
          op \notin {"JMP", "JZ", "PUSH_VALUE"} /\ h[i] = OnLocal(op, n) => Fine(h, i, C)
    /\ \A h, i, C, v : v.type # "closure" /\ h[i] = Push(v) => Fine(h, i, C)
    /\ \A h, i, C, op, n : op \in {"JMP", "JZ"} /\ h[i] = Jump(op, n) /\ n \in Int
                               /\ i + n \in 1 .. Len(h) /\ n # 0 => Fine(h, i, C)
<1>1. ASSUME NEW h, NEW i, NEW C, NEW op, op \notin {"JMP", "JZ", "PUSH_VALUE"}, h[i] = Instr(op)
      PROVE  Fine(h, i, C)
  BY <1>1, FieldsAre DEF Fine, Branch, IsClosurePush
<1>2. ASSUME NEW h, NEW i, NEW C, NEW op, NEW n,
             op \notin {"JMP", "JZ", "PUSH_VALUE"}, h[i] = OnLocal(op, n)
      PROVE  Fine(h, i, C)
  BY <1>2, FieldsAre DEF Fine, Branch, IsClosurePush
<1>3. ASSUME NEW h, NEW i, NEW C, NEW v, v.type # "closure", h[i] = Push(v)
      PROVE  Fine(h, i, C)
  BY <1>3, FieldsAre DEF Fine, Branch, IsClosurePush
<1>4. ASSUME NEW h, NEW i, NEW C, NEW op, NEW n,
             op \in {"JMP", "JZ"}, h[i] = Jump(op, n), n \in Int, i + n \in 1 .. Len(h), n # 0
      PROVE  Fine(h, i, C)
  BY <1>4, FieldsAre DEF Fine, Branch, IsClosurePush
<1>. QED BY <1>1, <1>2, <1>3, <1>4

(* Pieces of code, one after the other. *)
LEMMA SoundJoined ==
    ASSUME NEW s, NEW t, IsSeq(s), IsSeq(t), NEW C, Sound(s, C), Sound(t, C)
    PROVE  Sound(s \o t, C)
<1>1. PICK h : h = s \o t
  OBVIOUS
<1>2. IsSeq(h)
  BY <1>1, Joined
<1>3. Lies(h, s \o t, 0)
  BY <1>1, <1>2, LiesItself
<1>4. /\ Len(s) \in Nat /\ Len(t) \in Nat /\ Len(s \o t) = Len(s) + Len(t)
      /\ Lies(h, s, 0) /\ Lies(h, t, 0 + Len(s))
  BY <1>3, LiesJoined
<1>5. ASSUME NEW i \in 1 .. Len(h) PROVE Fine(h, i, C)
  <2>1. Len(h) \in Nat
    BY <1>1, <1>4
  <2>2. CASE i <= Len(s)
    <3>1. i \in 1 .. Len(s) /\ i = 0 + i
      BY <1>4, <2>2
    <3>. QED BY <1>4, <2>1, <3>1, FinePart
  <2>3. CASE ~(i <= Len(s))
    <3>1. PICK j \in 1 .. Len(t) : i = Len(s) + j
      <4>1. i - Len(s) \in 1 .. Len(t) /\ i = Len(s) + (i - Len(s))
        BY <1>1, <1>4, <2>3
      <4>. QED BY <4>1
    <3>2. PICK o \in Nat : o = Len(s) /\ Lies(h, t, o) /\ i = o + j
      BY <1>4, <3>1
    <3>. QED BY <1>4, <2>1, <3>2, FinePart
  <2>. QED BY <2>2, <2>3
<1>. QED BY <1>1, <1>5 DEF Sound

LEMMA SoundOne ==
    ASSUME NEW x, NEW C, x.jump = 0, ~Branch(x.op), ~IsClosurePush(x)
    PROVE  Sound(<<x>>, C)
<1>1. PICK h : h = <<x>>
  OBVIOUS
<1>2. Len(h) = 1 /\ h[1] = x
  BY <1>1
<1>3. Fine(h, 1, C)
  BY <1>2 DEF Fine
<1>4. \A i \in 1 .. Len(h) : i = 1
  BY <1>2
<1>. QED BY <1>1, <1>3, <1>4 DEF Sound

LEMMA SoundNone ==
    \A C : Sound(<<>>, C)
BY DEF Sound

LEMMA SoundMore ==
    ASSUME NEW h, NEW C, NEW D, D \subseteq C, Sound(h, D)
    PROVE  Sound(h, C)
BY DEF Sound, Fine

LEMMA OnesSound ==
    /\ \A op, C : op \notin {"JMP", "JZ", "PUSH_VALUE"} => Sound(<<Instr(op)>>, C)
    /\ \A op, n, C : op \notin {"JMP", "JZ", "PUSH_VALUE"} => Sound(<<OnLocal(op, n)>>, C)
    /\ \A v, C : v.type # "closure" => Sound(<<Push(v)>>, C)
<1>1. ASSUME NEW op, NEW C, op \notin {"JMP", "JZ", "PUSH_VALUE"} PROVE Sound(<<Instr(op)>>, C)
  <2>1. PICK x : x = Instr(op)
    OBVIOUS
  <2>2. x.jump = 0 /\ ~Branch(x.op) /\ ~IsClosurePush(x)
    BY <1>1, <2>1, FieldsAre DEF Branch, IsClosurePush
  <2>. QED BY <2>1, <2>2, SoundOne
<1>2. ASSUME NEW op, NEW n, NEW C, op \notin {"JMP", "JZ", "PUSH_VALUE"}
      PROVE  Sound(<<OnLocal(op, n)>>, C)
  <2>1. PICK x : x = OnLocal(op, n)
    OBVIOUS
  <2>2. x.jump = 0 /\ ~Branch(x.op) /\ ~IsClosurePush(x)
    BY <1>2, <2>1, FieldsAre DEF Branch, IsClosurePush
  <2>. QED BY <2>1, <2>2, SoundOne
<1>3. ASSUME NEW v, NEW C, v.type # "closure" PROVE Sound(<<Push(v)>>, C)
  <2>1. PICK x : x = Push(v)
    OBVIOUS
  <2>2. x.jump = 0 /\ ~Branch(x.op) /\ ~IsClosurePush(x)
    BY <1>3, <2>1, FieldsAre DEF Branch, IsClosurePush
  <2>. QED BY <2>1, <2>2, SoundOne
<1>. QED BY <1>1, <1>2, <1>3

(* The code for a node is sound, and has the code for its parts.           *)
Whole(a) ==
    /\ Sound(Gen[a], ClosuresIn[a])
    /\ \A b \in Children(a) : ClosuresIn[b] # {} => \E o \in Nat : Lies(Gen[a], Gen[b], o)

LEMMA ChildIs ==
    ASSUME NEW a \in Trees, NEW b \in Children(a)
    PROVE  /\ b \in Trees /\ ClosuresIn[b] \subseteq ClosuresIn[a]
           /\ IsSeq(Gen[b]) /\ Len(Gen[b]) \in Nat
<1>1. b \in Trees
  BY TreeAssumption
<1>2. ClosuresIn[b] \subseteq ClosuresIn[a]
  BY ClosuresAre
<1>. QED BY <1>1, <1>2, GenIsSeq

LEMMA LeafIsWhole ==
    ASSUME NEW a \in Trees, a.t \in {"nothing", "local"}
    PROVE  Whole(a)
<1>1. Children(a) = {}
  BY DEF Children
<1>2. Gen[a] = <<>> \/ Gen[a] = <<OnLocal("PUSH_LOCAL", a.index)>>
  BY GenIs DEF NodeCode
<1>3. Sound(<<OnLocal("PUSH_LOCAL", a.index)>>, ClosuresIn[a])
  BY OnesSound
<1>4. Sound(Gen[a], ClosuresIn[a])
  BY <1>2, <1>3, SoundNone
<1>. QED BY <1>1, <1>4 DEF Whole

LEMMA ValueIsWhole ==
    ASSUME NEW a \in Trees, a.t = "value", a.value.type # "closure"
    PROVE  Whole(a)
<1>1. Children(a) = {}
  BY DEF Children
<1>2. Gen[a] = <<Push(a.value)>>
  BY GenIs DEF NodeCode, ValueCode
<1>. QED BY <1>1, <1>2, OnesSound DEF Whole

LEMMA ClosureIsWhole ==
    ASSUME NEW a \in Trees, a.t = "value", a.value.type = "closure",
           \A b \in Children(a) : Sound(Gen[b], ClosuresIn[b])
    PROVE  Whole(a)
<1>1. PICK h, b, v : h = Gen[a] /\ b = Gen[a.body] /\ v = a.value
  OBVIOUS
<1>2. h = ClosureCode(v, b)
  BY <1>1, GenIs DEF NodeCode
<1>3. a.body \in Children(a)
  BY DEF Children
<1>4. IsSeq(h) /\ Len(h) \in Nat
  BY <1>1, GenIsSeq
<1>5. Lies(h, ClosureCode(v, b), 0)
  BY <1>2, <1>4, LiesItself
<1>6. IsSeq(b)
  BY <1>1, <1>3, ChildIs
<1>7. /\ Len(b) \in Nat /\ Len(ClosureCode(v, b)) = Len(b) + 6
      /\ h[0 + 1] = Push(v) /\ h[0 + 2] = Instr("SET_ACTIVATION")
      /\ h[0 + 3] = Jump("JMP", Len(b) + 3) /\ h[0 + 4] = Instr("NOP")
      /\ Lies(h, b, 0 + 4)
      /\ h[0 + Len(b) + 5] = Instr("RET") /\ h[0 + Len(b) + 6] = Instr("NOP")
  BY <1>5, <1>6, ClosureLayout
<1>8. PICK n : n = Len(b) /\ n \in Nat
  BY <1>7
<1>9. /\ Len(h) = n + 6
      /\ h[1] = Push(v) /\ h[2] = Instr("SET_ACTIVATION") /\ h[3] = Jump("JMP", n + 3)
      /\ h[4] = Instr("NOP") /\ Lies(h, b, 4) /\ h[n + 5] = Instr("RET") /\ h[n + 6] = Instr("NOP")
  BY <1>2, <1>7, <1>8
<1>10. PICK C : C = ClosuresIn[a] /\ ClosuresIn[a.body] \subseteq C /\ a \in C
  BY <1>3, ChildIs, ClosuresAre
<1>11. ASSUME NEW i \in 1 .. Len(h) PROVE Fine(h, i, C)
  <2>1. CASE i = 1
    <3>1. h[i].jump = 0 /\ ~Branch(h[i].op) /\ h[i].arg = v
      BY <1>9, <2>1, FieldsAre DEF Branch
    <3>2. i - 1 = 0
      BY <2>1
    <3>3. a.value = h[i].arg /\ Lies(h, ClosureCode(a.value, Gen[a.body]), i - 1)
      BY <1>1, <1>5, <3>1, <3>2
    <3>. QED BY <1>10, <3>1, <3>3 DEF Fine
  <2>2. CASE i = 2 \/ i = 4 \/ i = n + 5 \/ i = n + 6
    <3>1. h[i] = Instr("SET_ACTIVATION") \/ h[i] = Instr("NOP") \/ h[i] = Instr("RET")
      BY <1>9, <2>2
    <3>. QED BY <3>1, FineInstr
  <2>3. CASE i = 3
    <3>1. n + 3 \in Int /\ n + 3 # 0 /\ i + (n + 3) \in 1 .. Len(h) /\ h[i] = Jump("JMP", n + 3)
      BY <1>8, <1>9, <2>3
    <3>. QED BY <3>1, FineInstr
  <2>4. CASE i > 4 /\ i < n + 5
    <3>1. PICK j \in 1 .. Len(b) : i = 4 + j
      <4>1. i - 4 \in 1 .. Len(b) /\ i = 4 + (i - 4)
        BY <1>8, <2>4
      <4>. QED BY <4>1
    <3>2. Sound(b, ClosuresIn[a.body])
      BY <1>1, <1>3
    <3>3. PICK o \in Nat : o = 4
      OBVIOUS
    <3>. QED BY <1>4, <1>7, <1>9, <1>10, <3>1, <3>2, <3>3, FinePart
  <2>. QED BY <1>8, <1>9, <2>1, <2>2, <2>3, <2>4
<1>12. Sound(Gen[a], ClosuresIn[a])
  BY <1>1, <1>10, <1>11 DEF Sound
<1>13. Children(a) = {a.body}
  BY DEF Children
<1>. QED BY <1>1, <1>9, <1>12, <1>13 DEF Whole

LEMMA BuiltinIsWhole ==
    ASSUME NEW a \in Trees, a.t = "builtin", \A b \in Children(a) : Sound(Gen[b], ClosuresIn[b])
    PROVE  Whole(a)
<1>1. Children(a) = {a.args} /\ a.b \in Builtins
  BY TreeAssumption DEF Children, WellFormed
<1>2. PICK C : C = ClosuresIn[a]
  OBVIOUS
<1>3. PICK before, args, count, last :
          /\ before = (IF a.b = "Store" THEN <<OnLocal("COW_LOCAL", FindLocal[a].index)>> ELSE <<>>)
          /\ args = Gen[a.args]
          /\ count = (IF Variadic(a.b) THEN <<Push(Integer(ArgCount[a.args]))>> ELSE <<>>)
          /\ last = <<BuiltinInstr(a.b)>>
  OBVIOUS
<1>4. Gen[a] = before \o args \o count \o last
  BY <1>3, GenIs DEF NodeCode, BuiltinCode
<1>5. IsSeq(args) /\ Sound(args, C)
  BY <1>1, <1>2, <1>3, ChildIs, SoundMore
<1>6. IsSeq(before) /\ Sound(before, C)
  BY <1>3, ShortSeqs, SoundNone, OnesSound
<1>7. IsSeq(count) /\ Sound(count, C)
  <2>1. Integer(ArgCount[a.args]).type # "closure"
    BY DEF Integer
  <2>. QED BY <1>3, <2>1, ShortSeqs, SoundNone, OnesSound
<1>8. IsSeq(last) /\ Sound(last, C)
  <2>1. \E op : BuiltinInstr(a.b) = Instr(op) /\ op \notin {"JMP", "JZ", "PUSH_VALUE"}
    BY <1>1 DEF BuiltinInstr, Builtins
  <2>. QED BY <1>3, <2>1, ShortSeqs, OnesSound
<1>9. IsSeq(before \o args) /\ Sound(before \o args, C)
  BY <1>5, <1>6, Joined, SoundJoined
<1>10. IsSeq(before \o args \o count) /\ Sound(before \o args \o count, C)
  BY <1>7, <1>9, Joined, SoundJoined
<1>11. Sound(before \o args \o count \o last, C)
  BY <1>8, <1>10, SoundJoined
<1>12. \E o \in Nat : Lies(before \o args \o count \o last, args, o)
  <2>1. IsSeq(before \o args \o count \o last)
    BY <1>8, <1>10, Joined
  <2>2. Lies(before \o args \o count \o last, before \o args \o count \o last, 0)
    BY <2>1, LiesItself
  <2>3. /\ Len(before) \in Nat
        /\ Lies(before \o args \o count \o last, args, 0 + Len(before))
    <3>1. IsSeq(before) /\ IsSeq(args) /\ IsSeq(count) /\ IsSeq(last)
      BY <1>5, <1>6, <1>7, <1>8
    <3>. QED BY <2>2, <3>1, LiesFour
  <2>. QED BY <2>3
<1>. QED BY <1>1, <1>2, <1>3, <1>4, <1>11, <1>12 DEF Whole

LEMMA ApplyIsWhole ==
    ASSUME NEW a \in Trees, a.t = "apply", \A b \in Children(a) : Sound(Gen[b], ClosuresIn[b])
    PROVE  Whole(a)
<1>1. Children(a) = {a.fn, a.args}
  BY DEF Children
<1>2. PICK C : C = ClosuresIn[a]
  OBVIOUS
<1>3. PICK args, fn, last : args = Gen[a.args] /\ fn = Gen[a.fn] /\ last = <<Instr("CALL")>>
  OBVIOUS
<1>4. Gen[a] = args \o fn \o last
  BY <1>3, GenIs DEF NodeCode
<1>5. IsSeq(args) /\ IsSeq(fn) /\ IsSeq(last)
  BY <1>1, <1>3, ChildIs, ShortSeqs
<1>6. Sound(args, C) /\ Sound(fn, C) /\ Sound(last, C)
  BY <1>1, <1>2, <1>3, ChildIs, SoundMore, OnesSound
<1>7. IsSeq(args \o fn) /\ Sound(args \o fn, C)
  BY <1>5, <1>6, Joined, SoundJoined
<1>8. IsSeq(args \o fn \o last) /\ Sound(args \o fn \o last, C)
  BY <1>5, <1>6, <1>7, Joined, SoundJoined
<1>9. Lies(args \o fn \o last, args \o fn \o last, 0)
  BY <1>8, LiesItself
<1>10. /\ Len(args) \in Nat /\ Lies(args \o fn \o last, args, 0)
       /\ Lies(args \o fn \o last, fn, 0 + Len(args))
  BY <1>5, <1>9, LiesThree
<1>11. /\ \E o \in Nat : Lies(args \o fn \o last, args, o)
       /\ \E o \in Nat : Lies(args \o fn \o last, fn, o)
  BY <1>10
<1>. QED BY <1>1, <1>2, <1>3, <1>4, <1>8, <1>11 DEF Whole

LEMMA SequenceIsWhole ==
    ASSUME NEW a \in Trees, a.t \in {"arg", "statement"},
           \A b \in Children(a) : Sound(Gen[b], ClosuresIn[b])
    PROVE  Whole(a)
<1>1. Children(a) = {a.left, a.right}
  BY DEF Children
<1>2. PICK C : C = ClosuresIn[a]
  OBVIOUS
<1>3. PICK l, r : l = Gen[a.left] /\ r = Gen[a.right]
  OBVIOUS
<1>4. Gen[a] = l \o r
  BY <1>3, GenIs DEF NodeCode
<1>5. IsSeq(l) /\ IsSeq(r)
  BY <1>1, <1>3, ChildIs
<1>6. Sound(l, C) /\ Sound(r, C)
  BY <1>1, <1>2, <1>3, ChildIs, SoundMore
<1>7. IsSeq(l \o r) /\ Sound(l \o r, C)
  BY <1>5, <1>6, Joined, SoundJoined
<1>8. Lies(l \o r, l \o r, 0)
  BY <1>7, LiesItself
<1>9. Len(l) \in Nat /\ Lies(l \o r, l, 0) /\ Lies(l \o r, r, 0 + Len(l))
  BY <1>5, <1>8, LiesJoined
<1>10. (\E o \in Nat : Lies(l \o r, l, o)) /\ (\E o \in Nat : Lies(l \o r, r, o))
  BY <1>9
<1>. QED BY <1>1, <1>2, <1>3, <1>4, <1>7, <1>10 DEF Whole

(* A piece of code, and one instruction. *)
LEMMA LastIsSound ==
    ASSUME NEW s, IsSeq(s), NEW x, NEW C, Sound(s, C), Sound(<<x>>, C)
    PROVE  Sound(s \o <<x>>, C) /\ \E o \in Nat : Lies(s \o <<x>>, s, o)
<1>1. PICK c : c = <<x>>
  OBVIOUS
<1>2. IsSeq(c) /\ Sound(c, C)
  BY <1>1, ShortSeqs
<1>3. IsSeq(s \o c) /\ Sound(s \o c, C)
  BY <1>2, Joined, SoundJoined
<1>4. Lies(s \o c, s \o c, 0)
  BY <1>3, LiesItself
<1>5. Lies(s \o c, s, 0)
  BY <1>2, <1>4, LiesJoined
<1>. QED BY <1>1, <1>3, <1>5

LEMMA AssignmentIsWhole ==
    ASSUME NEW a \in Trees, a.t = "assignment", \A b \in Children(a) : Sound(Gen[b], ClosuresIn[b])
    PROVE  Whole(a)
<1>1. Children(a) = {a.left, a.right}
  BY DEF Children
<1>2. PICK op, s : /\ op = (IF a.defining THEN "INIT_LOCAL" ELSE "POP_LOCAL")
                   /\ s = Gen[a.right]
  OBVIOUS
<1>3. Gen[a] = s \o <<OnLocal(op, a.left.index)>>
  BY <1>2, GenIs DEF NodeCode, AssignmentCode
<1>4. IsSeq(s) /\ Sound(s, ClosuresIn[a])
  BY <1>1, <1>2, ChildIs, SoundMore
<1>5. Sound(<<OnLocal(op, a.left.index)>>, ClosuresIn[a])
  BY <1>2, OnesSound
<1>6. Sound(Gen[a], ClosuresIn[a]) /\ \E o \in Nat : Lies(Gen[a], s, o)
  BY <1>3, <1>4, <1>5, LastIsSound
<1>7. ClosuresIn[a.left] = {}
  <2>1. a.left \in Trees /\ a.left.t = "local"
    BY <1>1, TreeAssumption DEF WellFormed
  <2>2. Children(a.left) = {}
    BY <2>1 DEF Children
  <2>3. UNION {ClosuresIn[b] : b \in Children(a.left)} = {}
    BY <2>2
  <2>. QED BY <2>1, <2>3, ClosuresAre
<1>. QED BY <1>1, <1>2, <1>6, <1>7 DEF Whole

LEMMA RetrIsWhole ==
    ASSUME NEW a \in Trees, a.t = "retr", \A b \in Children(a) : Sound(Gen[b], ClosuresIn[b])
    PROVE  Whole(a)
<1>1. Children(a) = {a.body}
  BY DEF Children
<1>2. PICK s : s = Gen[a.body]
  OBVIOUS
<1>3. Gen[a] = s \o <<Instr("RET")>>
  <2>1. Gen[a] = Append(s, Instr("RET"))
    BY <1>2, GenIs DEF NodeCode
  <2>2. s \in Seq(Instructions)
    BY <1>1, <1>2, ChildIs, GenIs DEF Codes
  <2>3. Instr("RET") \in Instructions
    BY InstructionsAre DEF Opcodes
  <2>. QED BY <2>1, <2>2, <2>3
<1>4. IsSeq(s) /\ Sound(s, ClosuresIn[a])
  BY <1>1, <1>2, ChildIs, SoundMore
<1>5. Sound(<<Instr("RET")>>, ClosuresIn[a])
  BY OnesSound
<1>6. Sound(Gen[a], ClosuresIn[a]) /\ \E o \in Nat : Lies(Gen[a], s, o)
  BY <1>3, <1>4, <1>5, LastIsSound
<1>. QED BY <1>1, <1>2, <1>6 DEF Whole

LEMMA ChoiceIsWhole ==
    ASSUME NEW a \in Trees, a.t = "conditional", a.no = Nothing,
           \A b \in Children(a) : Sound(Gen[b], ClosuresIn[b])
    PROVE  Whole(a)
<1>1. Children(a) = {a.test, a.yes, a.no}
  BY DEF Children
<1>2. PICK C, test, yes, h : /\ C = ClosuresIn[a] /\ test = Gen[a.test] /\ yes = Gen[a.yes]
                             /\ h = Gen[a]
  OBVIOUS
<1>3. h = ChoiceCode(test, yes)
  BY <1>2, GenIs DEF NodeCode
<1>4. IsSeq(test) /\ IsSeq(yes)
  BY <1>1, <1>2, ChildIs
<1>5. Sound(test, C) /\ Sound(yes, C)
  BY <1>1, <1>2, ChildIs, SoundMore
<1>6. IsSeq(h) /\ Len(h) \in Nat
  BY <1>2, GenIsSeq
<1>7. Lies(h, ChoiceCode(test, yes), 0)
  BY <1>3, <1>6, LiesItself
<1>8. /\ Len(test) \in Nat /\ Len(yes) \in Nat
      /\ Len(ChoiceCode(test, yes)) = Len(test) + Len(yes) + 2
      /\ Lies(h, test, 0) /\ h[0 + Len(test) + 1] = Jump("JZ", Len(yes) + 1)
      /\ Lies(h, yes, 0 + Len(test) + 1) /\ h[0 + Len(test) + Len(yes) + 2] = Instr("NOP")
  BY <1>4, <1>7, ChoiceLayout
<1>9. PICK n, m : n = Len(test) /\ m = Len(yes) /\ n \in Nat /\ m \in Nat
  BY <1>8
<1>10. /\ Len(h) = n + m + 2 /\ Lies(h, test, 0) /\ h[n + 1] = Jump("JZ", m + 1)
       /\ Lies(h, yes, n + 1) /\ h[n + m + 2] = Instr("NOP")
  BY <1>3, <1>8, <1>9
<1>11. ASSUME NEW i \in 1 .. Len(h) PROVE Fine(h, i, C)
  <2>1. CASE i <= n
    <3>1. i \in 1 .. Len(test) /\ i = 0 + i
      BY <1>9, <2>1
    <3>. QED BY <1>5, <1>6, <1>8, <3>1, FinePart
  <2>2. CASE i = n + 1
    <3>1. /\ m + 1 \in Int /\ m + 1 # 0 /\ i + (m + 1) \in 1 .. Len(h)
          /\ h[i] = Jump("JZ", m + 1)
      BY <1>9, <1>10, <2>2
    <3>. QED BY <3>1, FineInstr
  <2>3. CASE i > n + 1 /\ i < n + m + 2
    <3>1. PICK o \in Nat : o = n + 1
      BY <1>9
    <3>2. PICK j : j = i - o
      OBVIOUS
    <3>3. j \in 1 .. Len(yes) /\ i = o + j
      BY <1>9, <2>3, <3>1, <3>2
    <3>4. Lies(h, yes, o)
      BY <1>10, <3>1
    <3>. QED BY <1>5, <1>6, <1>8, <3>3, <3>4, FinePart
  <2>4. CASE i = n + m + 2
    BY <1>10, <2>4, FineInstr
  <2>. QED BY <1>9, <1>10, <2>1, <2>2, <2>3, <2>4
<1>12. Sound(Gen[a], ClosuresIn[a])
  BY <1>2, <1>11 DEF Sound
<1>13. (\E o \in Nat : Lies(h, test, o)) /\ (\E o \in Nat : Lies(h, yes, o))
  <2>1. n + 1 \in Nat
    BY <1>9
  <2>. QED BY <1>10, <2>1
<1>14. ClosuresIn[a.no] = {}
  <2>1. a.no \in Trees /\ a.no.t = "nothing"
    BY <1>1, TreeAssumption DEF Nothing
  <2>2. UNION {ClosuresIn[b] : b \in Children(a.no)} = {}
    BY <2>1 DEF Children
  <2>. QED BY <2>1, <2>2, ClosuresAre
<1>. QED BY <1>1, <1>2, <1>12, <1>13, <1>14 DEF Whole

LEMMA ConditionalIsWhole ==
    ASSUME NEW a \in Trees, a.t = "conditional", a.no # Nothing,
           \A b \in Children(a) : Sound(Gen[b], ClosuresIn[b])
    PROVE  Whole(a)
<1>1. Children(a) = {a.test, a.yes, a.no}
  BY DEF Children
<1>2. PICK C, test, yes, no, h :
          /\ C = ClosuresIn[a] /\ test = Gen[a.test] /\ yes = Gen[a.yes] /\ no = Gen[a.no]
          /\ h = Gen[a]
  OBVIOUS
<1>3. h = ConditionalCode(test, yes, no)
  BY <1>2, GenIs DEF NodeCode
<1>4. IsSeq(test) /\ IsSeq(yes) /\ IsSeq(no)
  BY <1>1, <1>2, ChildIs
<1>5. Sound(test, C) /\ Sound(yes, C) /\ Sound(no, C)
  BY <1>1, <1>2, ChildIs, SoundMore
<1>6. IsSeq(h) /\ Len(h) \in Nat
  BY <1>2, GenIsSeq
<1>7. Lies(h, ConditionalCode(test, yes, no), 0)
  BY <1>3, <1>6, LiesItself
<1>8. /\ Len(test) \in Nat /\ Len(yes) \in Nat /\ Len(no) \in Nat
      /\ Len(ConditionalCode(test, yes, no)) = Len(test) + Len(yes) + Len(no) + 4
      /\ Lies(h, test, 0) /\ h[0 + Len(test) + 1] = Jump("JZ", Len(yes) + 2)
      /\ Lies(h, yes, 0 + Len(test) + 1)
      /\ h[0 + Len(test) + Len(yes) + 2] = Jump("JMP", Len(no) + 2)
      /\ h[0 + Len(test) + Len(yes) + 3] = Instr("NOP")
      /\ Lies(h, no, 0 + Len(test) + Len(yes) + 3)
      /\ h[0 + Len(test) + Len(yes) + Len(no) + 4] = Instr("NOP")
  BY <1>4, <1>7, ConditionalLayout
<1>9. PICK n, m, k : /\ n = Len(test) /\ m = Len(yes) /\ k = Len(no)
                     /\ n \in Nat /\ m \in Nat /\ k \in Nat
  BY <1>8
<1>10. /\ Len(h) = n + m + k + 4 /\ Lies(h, test, 0) /\ h[n + 1] = Jump("JZ", m + 2)
       /\ Lies(h, yes, n + 1) /\ h[n + m + 2] = Jump("JMP", k + 2) /\ h[n + m + 3] = Instr("NOP")
       /\ Lies(h, no, n + m + 3) /\ h[n + m + k + 4] = Instr("NOP")
  BY <1>3, <1>8, <1>9
<1>11. ASSUME NEW i \in 1 .. Len(h) PROVE Fine(h, i, C)
  <2>1. CASE i <= n
    <3>1. i \in 1 .. Len(test) /\ i = 0 + i
      BY <1>9, <2>1
    <3>. QED BY <1>5, <1>6, <1>8, <3>1, FinePart
  <2>2. CASE i = n + 1
    <3>1. /\ m + 2 \in Int /\ m + 2 # 0 /\ i + (m + 2) \in 1 .. Len(h)
          /\ h[i] = Jump("JZ", m + 2)
      BY <1>9, <1>10, <2>2
    <3>. QED BY <3>1, FineInstr
  <2>3. CASE i > n + 1 /\ i < n + m + 2
    <3>1. PICK o \in Nat : o = n + 1
      BY <1>9
    <3>2. PICK j : j = i - o
      OBVIOUS
    <3>3. j \in 1 .. Len(yes) /\ i = o + j
      BY <1>9, <2>3, <3>1, <3>2
    <3>4. Lies(h, yes, o)
      BY <1>10, <3>1
    <3>. QED BY <1>5, <1>6, <1>8, <3>3, <3>4, FinePart
  <2>4. CASE i = n + m + 2
    <3>1. /\ k + 2 \in Int /\ k + 2 # 0 /\ i + (k + 2) \in 1 .. Len(h)
          /\ h[i] = Jump("JMP", k + 2)
      BY <1>9, <1>10, <2>4
    <3>. QED BY <3>1, FineInstr
  <2>5. CASE i = n + m + 3 \/ i = n + m + k + 4
    <3>1. h[i] = Instr("NOP")
      BY <1>10, <2>5
    <3>. QED BY <3>1, FineInstr
  <2>6. CASE i > n + m + 3 /\ i < n + m + k + 4
    <3>1. PICK o \in Nat : o = n + m + 3
      BY <1>9
    <3>2. PICK j : j = i - o
      OBVIOUS
    <3>3. j \in 1 .. Len(no) /\ i = o + j
      BY <1>9, <2>6, <3>1, <3>2
    <3>4. Lies(h, no, o)
      BY <1>10, <3>1
    <3>. QED BY <1>5, <1>6, <1>8, <3>3, <3>4, FinePart
  <2>7. \/ i <= n \/ i = n + 1 \/ (i > n + 1 /\ i < n + m + 2) \/ i = n + m + 2
        \/ i = n + m + 3 \/ i = n + m + k + 4 \/ (i > n + m + 3 /\ i < n + m + k + 4)
    <3>1. n \in Nat /\ m \in Nat /\ k \in Nat
      BY <1>9
    <3>2. i \in 1 .. n + m + k + 4
      BY <1>10
    <3>3. i \in Int /\ 1 <= i /\ i <= n + m + k + 4
      BY <3>1, <3>2
    <3>. QED BY <3>1, <3>3
  <2>. QED BY <2>1, <2>2, <2>3, <2>4, <2>5, <2>6, <2>7
<1>12. Sound(Gen[a], ClosuresIn[a])
  BY <1>2, <1>11 DEF Sound
<1>13. /\ \E o \in Nat : Lies(h, test, o)
       /\ \E o \in Nat : Lies(h, yes, o)
       /\ \E o \in Nat : Lies(h, no, o)
  <2>1. n + 1 \in Nat /\ n + m + 3 \in Nat
    BY <1>9
  <2>. QED BY <1>10, <2>1
<1>. QED BY <1>1, <1>2, <1>12, <1>13 DEF Whole

LEMMA LoopIsWhole ==
    ASSUME NEW a \in Trees, a.t = "while", \A b \in Children(a) : Sound(Gen[b], ClosuresIn[b])
    PROVE  Whole(a)
<1>1. Children(a) = {a.test, a.body}
  BY DEF Children
<1>2. PICK C, test, body, h : /\ C = ClosuresIn[a] /\ test = Gen[a.test] /\ body = Gen[a.body]
                              /\ h = Gen[a]
  OBVIOUS
<1>3. h = LoopCode(test, body)
  BY <1>2, GenIs DEF NodeCode
<1>4. IsSeq(test) /\ IsSeq(body)
  BY <1>1, <1>2, ChildIs
<1>5. Sound(test, C) /\ Sound(body, C)
  BY <1>1, <1>2, ChildIs, SoundMore
<1>6. IsSeq(h) /\ Len(h) \in Nat
  BY <1>2, GenIsSeq
<1>7. Lies(h, LoopCode(test, body), 0)
  BY <1>3, <1>6, LiesItself
<1>8. /\ Len(test) \in Nat /\ Len(body) \in Nat
      /\ Len(LoopCode(test, body)) = Len(test) + Len(body) + 4
      /\ h[0 + 1] = Instr("NOP") /\ Lies(h, test, 0 + 1)
      /\ h[0 + Len(test) + 2] = Jump("JZ", Len(body) + 2) /\ Lies(h, body, 0 + Len(test) + 2)
      /\ h[0 + Len(test) + Len(body) + 3] = Jump("JMP", -(Len(test) + Len(body) + 2))
      /\ h[0 + Len(test) + Len(body) + 4] = Instr("NOP")
  BY <1>4, <1>7, LoopLayout
<1>9. PICK n, m : n = Len(test) /\ m = Len(body) /\ n \in Nat /\ m \in Nat
  BY <1>8
<1>10. /\ Len(h) = n + m + 4 /\ h[1] = Instr("NOP") /\ Lies(h, test, 1)
       /\ h[n + 2] = Jump("JZ", m + 2) /\ Lies(h, body, n + 2)
       /\ h[n + m + 3] = Jump("JMP", -(n + m + 2)) /\ h[n + m + 4] = Instr("NOP")
  BY <1>3, <1>8, <1>9
<1>11. ASSUME NEW i \in 1 .. Len(h) PROVE Fine(h, i, C)
  <2>1. CASE i = 1 \/ i = n + m + 4
    <3>1. h[i] = Instr("NOP")
      BY <1>10, <2>1
    <3>. QED BY <3>1, FineInstr
  <2>2. CASE i > 1 /\ i < n + 2
    <3>1. PICK o \in Nat : o = 1
      OBVIOUS
    <3>2. PICK j : j = i - o
      OBVIOUS
    <3>3. j \in 1 .. Len(test) /\ i = o + j
      BY <1>9, <2>2, <3>1, <3>2
    <3>4. Lies(h, test, o)
      BY <1>10, <3>1
    <3>. QED BY <1>5, <1>6, <1>8, <3>3, <3>4, FinePart
  <2>3. CASE i = n + 2
    <3>1. /\ m + 2 \in Int /\ m + 2 # 0 /\ i + (m + 2) \in 1 .. Len(h)
          /\ h[i] = Jump("JZ", m + 2)
      BY <1>9, <1>10, <2>3
    <3>. QED BY <3>1, FineInstr
  <2>4. CASE i > n + 2 /\ i < n + m + 3
    <3>1. PICK o \in Nat : o = n + 2
      BY <1>9
    <3>2. PICK j : j = i - o
      OBVIOUS
    <3>3. j \in 1 .. Len(body) /\ i = o + j
      BY <1>9, <2>4, <3>1, <3>2
    <3>4. Lies(h, body, o)
      BY <1>10, <3>1
    <3>. QED BY <1>5, <1>6, <1>8, <3>3, <3>4, FinePart
  <2>5. CASE i = n + m + 3
    <3>1. PICK k : k = -(n + m + 2)
      OBVIOUS
    <3>2. k \in Int /\ k # 0 /\ i + k \in 1 .. Len(h) /\ h[i] = Jump("JMP", k)
      BY <1>9, <1>10, <2>5, <3>1
    <3>. QED BY <3>2, FineInstr
  <2>. QED BY <1>9, <1>10, <2>1, <2>2, <2>3, <2>4, <2>5
<1>12. Sound(Gen[a], ClosuresIn[a])
  BY <1>2, <1>11 DEF Sound
<1>13. (\E o \in Nat : Lies(h, test, o)) /\ (\E o \in Nat : Lies(h, body, o))
  <2>1. 1 \in Nat /\ n + 2 \in Nat
    BY <1>9
  <2>. QED BY <1>10, <2>1
<1>. QED BY <1>1, <1>2, <1>12, <1>13 DEF Whole

LEMMA TreesAreWhole ==
    \A a \in Trees : Whole(a)
<1>. DEFINE T == {a \in Trees : Whole(a)}
<1>1. ASSUME NEW a \in Trees, \A b \in Children(a) : b \in T PROVE a \in T
  <2>1. \A b \in Children(a) : Sound(Gen[b], ClosuresIn[b])
    BY <1>1 DEF Whole
  <2>2. a.t \in {"nothing", "local", "value", "builtin", "apply", "arg", "statement",
                 "assignment", "conditional", "while", "retr"}
    BY TreeAssumption DEF WellFormed
  <2>. HIDE DEF T
  <2>3. Whole(a)
    BY <2>1, <2>2, LeafIsWhole, ValueIsWhole, ClosureIsWhole, BuiltinIsWhole, ApplyIsWhole,
       SequenceIsWhole, AssignmentIsWhole, ChoiceIsWhole, ConditionalIsWhole, LoopIsWhole,
       RetrIsWhole
  <2>. QED BY <2>3 DEF T
<1>2. Trees \subseteq T
  <2>. HIDE DEF T
  <2>. QED BY <1>1, TreeInduction
<1>. QED BY <1>2

(* Every closure of a tree is pushed. *)
LEMMA ClosuresArePushed ==
    \A a \in Trees : \A c \in ClosuresIn[a] : \E i \in 1 .. Len(Gen[a]) :
        IsClosurePush(Gen[a][i]) /\ Gen[a][i].arg = c.value
<1>. DEFINE P(h, c) == \E i \in 1 .. Len(h) : IsClosurePush(h[i]) /\ h[i].arg = c.value
            T == {a \in Trees : \A c \in ClosuresIn[a] : P(Gen[a], c)}
<1>1. ASSUME NEW a \in Trees, \A b \in Children(a) : b \in T PROVE a \in T
  <2>1. ASSUME NEW c \in ClosuresIn[a] PROVE P(Gen[a], c)
    <3>1. CASE c = a /\ a.t = "value" /\ a.value.type = "closure"
      <4>1. PICK h, b : h = Gen[a] /\ b = Gen[a.body] /\ h = ClosureCode(a.value, b)
        BY <3>1, GenIs DEF NodeCode
      <4>2. IsSeq(h) /\ IsSeq(b)
        BY <3>1, <4>1, GenIsSeq, ChildIs DEF Children
      <4>3. Lies(h, ClosureCode(a.value, b), 0)
        BY <4>1, <4>2, LiesItself
      <4>4. 0 + 1 \in 1 .. Len(h) /\ h[0 + 1] = Push(a.value)
        BY <4>2, <4>3, ClosureLayout
      <4>5. PICK i \in 1 .. Len(h) : h[i] = Push(a.value)
        BY <4>4
      <4>6. IsClosurePush(h[i]) /\ h[i].arg = c.value
        BY <3>1, <4>5, FieldsAre DEF IsClosurePush
      <4>. QED BY <4>1, <4>6
    <3>2. ASSUME NEW b \in Children(a), c \in ClosuresIn[b] PROVE P(Gen[a], c)
      <4>1. PICK o \in Nat : Lies(Gen[a], Gen[b], o)
        BY <3>2, TreesAreWhole DEF Whole
      <4>2. PICK i \in 1 .. Len(Gen[b]) : IsClosurePush(Gen[b][i]) /\ Gen[b][i].arg = c.value
        BY <1>1, <3>2
      <4>3. o + i \in 1 .. Len(Gen[a]) /\ Gen[a][o + i] = Gen[b][i]
        BY <4>1 DEF Lies
      <4>. QED BY <4>2, <4>3
    <3>. HIDE DEF P, T
    <3>. QED BY <2>1, <3>1, <3>2, ClosuresAre
  <2>. QED BY <2>1
<1>2. Trees \subseteq T
  <2>. HIDE DEF T
  <2>. QED BY <1>1, TreeInduction
<1>. QED BY <1>2

(***************************************************************************)
(* The code for a program                                                  *)
(***************************************************************************)
LEMMA CodeIs ==
    ASSUME NEW a \in Trees, NEW g, g = Code(a)
    PROVE  /\ IsSeq(g) /\ g \in Codes /\ Len(Gen[a]) \in Nat /\ Len(g) = Len(Gen[a]) + 1
           /\ Lies(g, Gen[a], 0) /\ g[Len(g)] = Instr("HALT")
           /\ Sound(g, ClosuresIn[a])
<1>1. PICK s, c : s = Gen[a] /\ c = <<Instr("HALT")>>
  OBVIOUS
<1>2. s \in Codes /\ Instr("HALT") \in Instructions
  BY <1>1, GenIs, InstructionsAre DEF Opcodes
<1>3. g = s \o c /\ g \in Codes
  BY <1>1, <1>2 DEF Code, Codes
<1>4. IsSeq(s) /\ IsSeq(c)
  BY <1>1, GenIsSeq, ShortSeqs
<1>5. Sound(s, ClosuresIn[a]) /\ Sound(c, ClosuresIn[a])
  BY <1>1, TreesAreWhole, OnesSound DEF Whole
<1>6. IsSeq(g) /\ Sound(g, ClosuresIn[a])
  BY <1>3, <1>4, <1>5, Joined, SoundJoined
<1>7. Lies(g, g, 0)
  BY <1>6, LiesItself
<1>8. Lies(g, s \o c, 0)
  BY <1>3, <1>7
<1>9. Len(s) \in Nat /\ Len(s \o c) = Len(s) + Len(c) /\ Lies(g, s, 0) /\ Lies(g, c, 0 + Len(s))
  BY <1>4, <1>8, LiesJoined
<1>10. Len(c) = 1
  BY <1>1, ShortSeqs
<1>11. Len(g) = Len(s) + 1
  BY <1>3, <1>9, <1>10
<1>12. g[Len(g)] = Instr("HALT")
  <2>1. PICK p \in Nat : p = Len(s)
    BY <1>9
  <2>2. Lies(g, <<Instr("HALT")>>, p)
    BY <1>1, <1>9, <2>1
  <2>3. g[p + 1] = Instr("HALT")
    BY <2>2, LiesShort
  <2>. QED BY <1>11, <2>1, <2>3
<1>. QED BY <1>1, <1>3, <1>6, <1>9, <1>11, <1>12

(* What is generated for any tree is such a list as the optimizations      *)
(* start from.                                                             *)
THEOREM CodeIsAListing ==
    \A a \in Trees : Listing(Code(a))
<1>. SUFFICES ASSUME NEW a \in Trees PROVE Listing(Code(a))
  OBVIOUS
<1>1. PICK g : g = Code(a)
  OBVIOUS
<1>2. /\ IsSeq(g) /\ g \in Codes /\ Len(Gen[a]) \in Nat /\ Len(g) = Len(Gen[a]) + 1
      /\ g[Len(g)] = Instr("HALT") /\ Sound(g, ClosuresIn[a])
  BY <1>1, CodeIs
<1>3. DOMAIN g = 1 .. Len(g) /\ \A i \in 1 .. Len(g) : g[i] \in Instructions
  BY <1>2 DEF Codes
<1>4. ASSUME NEW i \in 1 .. Len(g)
      PROVE  /\ g[i].op \in Opcodes /\ g[i].arg.type \in Operands
             /\ g[i].arg.type = "integer" => g[i].arg = Integer(g[i].arg.v)
             /\ Branch(g[i].op) => i + g[i].jump \in 1 .. Len(g) /\ g[i].jump # 0
             /\ ~Branch(g[i].op) => g[i].jump = 0
             /\ IsClosurePush(g[i]) => i + 3 \in 1 .. Len(g) /\ g[i].arg.v \in Int /\ g[i].arg.v < 0
  <2>1. g[i].op \in Opcodes /\ Operand(g[i].arg)
    BY <1>3 DEF Instructions
  <2>2. Fine(g, i, ClosuresIn[a])
    BY <1>2 DEF Sound
  <2>3. ASSUME IsClosurePush(g[i]) PROVE i + 3 \in 1 .. Len(g)
    <3>1. PICK c \in ClosuresIn[a] : Lies(g, ClosureCode(c.value, Gen[c.body]), i - 1)
      BY <2>2, <2>3 DEF Fine
    <3>2. IsSeq(Gen[c.body])
      BY ClosuresAre, ChildIs DEF Children
    <3>3. PICK o \in Nat : o = i - 1
      OBVIOUS
    <3>4. Lies(g, ClosureCode(c.value, Gen[c.body]), o)
      BY <3>1, <3>3
    <3>5. o + 4 \in 1 .. Len(g)
      BY <3>2, <3>4, ClosureLayout
    <3>. QED BY <3>3, <3>5
  <2>. QED BY <2>1, <2>2, <2>3 DEF Operand, Fine, IsClosurePush
<1>5. Len(g) \in Nat \ {0} /\ g = [i \in 1 .. Len(g) |-> g[i]]
  BY <1>2 DEF IsSeq
<1>6. g[Len(g)].op = "HALT"
  BY <1>2, FieldsAre
<1>. QED BY <1>1, <1>3, <1>4, <1>5, <1>6 DEF Listing, Branch

(* The list at first, and the closures the body of which begins at an      *)
(* instruction.                                                            *)
CodeFlow(g) == [i \in 1 .. Len(g) |->
    [op |-> g[i].op, arg |-> g[i].arg, next |-> IF i = Len(g) THEN None ELSE i + 1,
     branch |-> IF g[i].jump = 0 THEN None ELSE i + g[i].jump]]

BegunAt(g) == [i \in 1 .. Len(g) |->
    {g[j].arg.v : j \in {j \in 1 .. Len(g) : IsClosurePush(g[j]) /\ i = j + 3}}]

LEMMA CodeFlowIs ==
    ASSUME NEW a \in Trees, NEW g, g = Code(a)
    PROVE  FlowOf(CodeFlow(g), g)
<1>1. PICK F : F = CodeFlow(g)
  OBVIOUS
<1>2. Len(g) \in Nat /\ g[Len(g)].op = "HALT" /\ Sound(g, ClosuresIn[a])
  BY CodeIs, FieldsAre DEF IsSeq
<1>3. F = [i \in 1 .. Len(g) |->
              [op |-> g[i].op, arg |-> g[i].arg, next |-> IF i = Len(g) THEN None ELSE i + 1,
               branch |-> IF g[i].jump = 0 THEN None ELSE i + g[i].jump]]
  BY <1>1 DEF CodeFlow
<1>4. ASSUME NEW i \in 1 .. Len(g)
      PROVE  /\ F[i].op = g[i].op /\ F[i].arg = g[i].arg
             /\ g[i].op \notin Final => F[i].next = i + 1
             /\ Branch(g[i].op) => F[i].branch = i + g[i].jump
  <2>1. Branch(g[i].op) => g[i].jump # 0
    BY <1>2 DEF Sound, Fine
  <2>2. /\ F[i].op = g[i].op /\ F[i].arg = g[i].arg
        /\ F[i].next = (IF i = Len(g) THEN None ELSE i + 1)
        /\ F[i].branch = (IF g[i].jump = 0 THEN None ELSE i + g[i].jump)
    BY <1>3
  <2>3. g[i].op \notin Final => i # Len(g)
    BY <1>2 DEF Final
  <2>. QED BY <2>1, <2>2, <2>3
<1>5. DOMAIN F = 1 .. Len(g)
  BY <1>3
<1>. QED BY <1>1, <1>4, <1>5 DEF FlowOf

(* The main program, for any number of steps over the tree.                *)
LEMMA ProgramFollows ==
    ASSUME NEW a \in Trees, NEW g, g = Code(a), NEW F, FlowOf(F, g), NEW M \in Nat
    PROVE  Follows(F, 1, Then(a, End("HALT")), M, 1)
<1>1. PICK h : h = Gen[a] /\ Len(h) \in Nat /\ Len(g) = Len(h) + 1 /\ Lies(g, h, 0)
               /\ g[Len(g)] = Instr("HALT")
  BY CodeIs
<1>2. PICK i \in 1 .. Len(g) : i = 0 + Len(h) + 1 /\ g[i] = Instr("HALT")
  <2>1. Len(g) \in 1 .. Len(g) /\ Len(g) = 0 + Len(h) + 1
    BY <1>1
  <2>. QED BY <1>1, <2>1
<1>3. Follows(F, i, End("HALT"), M, 1)
  BY <1>2, Ends
<1>4. Correct(F, g, a)
  BY TreesAreCorrect
<1>5. Performs(F, h, 0, a)
  BY <1>1, <1>4, PartIs
<1>6. Follows(F, 0 + 1, Then(a, End("HALT")), M, 1)
  BY <1>2, <1>3, <1>5 DEF Performs
<1>. QED BY <1>6

(* The body of a closure, wherever it is pushed.                           *)
LEMMA ClosureFollows ==
    ASSUME NEW a \in Programs, NEW g, g = Code(a), NEW F, FlowOf(F, g), NEW M \in Nat,
           NEW c \in ClosuresIn[a], NEW i \in 1 .. Len(g), c.value.v \in BegunAt(g)[i]
    PROVE  Follows(F, i, Then(c.body, End("RET")), M, 1)
<1>1. a \in Trees
  BY TreeAssumption
<1>2. Len(g) \in Nat /\ Sound(g, ClosuresIn[a])
  BY <1>1, CodeIs DEF IsSeq
<1>3. PICK j \in 1 .. Len(g) : IsClosurePush(g[j]) /\ i = j + 3 /\ c.value.v = g[j].arg.v
  BY DEF BegunAt
<1>4. PICK b \in ClosuresIn[a] :
          b.value = g[j].arg /\ Lies(g, ClosureCode(b.value, Gen[b.body]), j - 1)
  BY <1>2, <1>3 DEF Sound, Fine
<1>5. b = c
  BY <1>3, <1>4, ClosureAssumption
<1>6. c.body \in Trees
  BY <1>1, ClosuresAre, TreeAssumption DEF Children
<1>7. PICK h, o : h = Gen[c.body] /\ o = j - 1 /\ o \in Nat
  OBVIOUS
<1>8. IsSeq(h) /\ o \in Nat
  BY <1>6, <1>7, GenIsSeq
<1>9. Lies(g, ClosureCode(c.value, h), o)
  BY <1>4, <1>5, <1>7
<1>10. /\ Len(h) \in Nat /\ g[o + 4] = Instr("NOP") /\ Lies(g, h, o + 4)
       /\ o + Len(h) + 5 \in 1 .. Len(g) /\ g[o + Len(h) + 5] = Instr("RET")
  BY <1>8, <1>9, ClosureLayout
<1>11. PICK e \in 1 .. Len(g) : e = i + Len(h) + 1 /\ g[e] = Instr("RET")
  <2>1. o + Len(h) + 5 = i + Len(h) + 1
    <3>1. o = j - 1 /\ i = j + 3 /\ Len(h) \in Nat
      BY <1>3, <1>7, <1>10
    <3>. QED BY <3>1
  <2>. QED BY <1>10, <2>1
<1>12. i = o + 4 /\ i \in Nat
  BY <1>3, <1>7
<1>13. Follows(F, e, End("RET"), M, 0)
  BY <1>11, Ends
<1>14. Performs(F, h, i, c.body)
  <2>1. Correct(F, g, c.body)
    BY <1>6, TreesAreCorrect
  <2>2. Lies(g, h, i)
    BY <1>10, <1>12
  <2>. QED BY <1>6, <1>7, <1>12, <2>1, <2>2, PartIs
<1>15. Follows(F, i + 1, Then(c.body, End("RET")), M, 0)
  BY <1>11, <1>13, <1>14 DEF Performs
<1>16. Follows(F, i, Then(c.body, End("RET")), M, 0 + 1)
  BY <1>10, <1>12, <1>15, Skips
<1>. QED BY <1>16

(***************************************************************************)
(* Runs of a given number of steps                                         *)
(***************************************************************************)
LEMMA TreeRunIs ==
    ASSUME NEW c, NEW n \in Nat
    PROVE  \E r : /\ r[0] = c /\ r[n] = TreeRun(c, n)
                  /\ \A k \in 0 .. n - 1 : r[k + 1] = TreeStep(r[k])
<1>. DEFINE P(f, m) == f = [k \in 0 .. m |-> IF k = 0 THEN c ELSE TreeStep(f[k - 1])]
            S == {m \in Nat : \E f : P(f, m)}
<1>1. 0 \in S
  <2>1. PICK f : f = [k \in 0 .. 0 |-> c]
    OBVIOUS
  <2>2. [k \in 0 .. 0 |-> IF k = 0 THEN c ELSE TreeStep(f[k - 1])] = [k \in 0 .. 0 |-> c]
    OBVIOUS
  <2>. QED BY <2>1, <2>2
<1>2. ASSUME NEW m \in Nat, m \in S PROVE m + 1 \in S
  <2>1. PICK f : P(f, m)
    BY <1>2
  <2>2. PICK g : g = [k \in 0 .. m + 1 |-> IF k = m + 1 THEN TreeStep(f[m]) ELSE f[k]]
    OBVIOUS
  <2>3. ASSUME NEW k \in 0 .. m + 1
        PROVE  g[k] = IF k = 0 THEN c ELSE TreeStep(g[k - 1])
    <3>1. CASE k = m + 1
      <4>1. k - 1 = m /\ m \in 0 .. m + 1 /\ m # m + 1 /\ k # 0
        BY <3>1
      <4>. QED BY <2>2, <3>1, <4>1
    <3>2. CASE k # m + 1
      <4>1. k \in 0 .. m
        BY <3>2
      <4>2. f[k] = IF k = 0 THEN c ELSE TreeStep(f[k - 1])
        BY <2>1, <4>1
      <4>3. k # 0 => k - 1 \in 0 .. m + 1 /\ k - 1 # m + 1
        OBVIOUS
      <4>. QED BY <2>2, <3>2, <4>2, <4>3
    <3>. QED BY <3>1, <3>2
  <2>4. P(g, m + 1)
    BY <2>2, <2>3
  <2>. QED BY <2>4
<1>3. Nat \subseteq S
  <2>. HIDE DEF S
  <2>. QED BY <1>1, <1>2, SetInduction
<1>4. PICK r : r = CHOOSE f : P(f, n)
  OBVIOUS
<1>5. P(r, n)
  <2>1. \E f : P(f, n)
    BY <1>3
  <2>. HIDE DEF P
  <2>. QED BY <1>4, <2>1
<1>6. r[n] = TreeRun(c, n)
  BY <1>4 DEF TreeRun
<1>7. r[0] = c
  BY <1>5
<1>8. ASSUME NEW k \in 0 .. n - 1 PROVE r[k + 1] = TreeStep(r[k])
  <2>1. k + 1 \in 0 .. n /\ k + 1 # 0 /\ k + 1 - 1 = k
    OBVIOUS
  <2>. QED BY <1>5, <2>1
<1>. QED BY <1>6, <1>7, <1>8

LEMMA CodeRunIs ==
    ASSUME NEW F, NEW c, NEW n \in Nat
    PROVE  \E r : /\ r[0] = c /\ r[n] = CodeRun(F, c, n)
                  /\ \A k \in 0 .. n - 1 : r[k + 1] = Step(F, r[k])
<1>. DEFINE P(f, m) == f = [k \in 0 .. m |-> IF k = 0 THEN c ELSE Step(F, f[k - 1])]
            S == {m \in Nat : \E f : P(f, m)}
<1>1. 0 \in S
  <2>1. PICK f : f = [k \in 0 .. 0 |-> c]
    OBVIOUS
  <2>2. [k \in 0 .. 0 |-> IF k = 0 THEN c ELSE Step(F, f[k - 1])] = [k \in 0 .. 0 |-> c]
    OBVIOUS
  <2>. QED BY <2>1, <2>2
<1>2. ASSUME NEW m \in Nat, m \in S PROVE m + 1 \in S
  <2>1. PICK f : P(f, m)
    BY <1>2
  <2>2. PICK g : g = [k \in 0 .. m + 1 |-> IF k = m + 1 THEN Step(F, f[m]) ELSE f[k]]
    OBVIOUS
  <2>3. ASSUME NEW k \in 0 .. m + 1
        PROVE  g[k] = IF k = 0 THEN c ELSE Step(F, g[k - 1])
    <3>1. CASE k = m + 1
      <4>1. k - 1 = m /\ m \in 0 .. m + 1 /\ m # m + 1 /\ k # 0
        BY <3>1
      <4>. QED BY <2>2, <3>1, <4>1
    <3>2. CASE k # m + 1
      <4>1. k \in 0 .. m
        BY <3>2
      <4>2. f[k] = IF k = 0 THEN c ELSE Step(F, f[k - 1])
        BY <2>1, <4>1
      <4>3. k # 0 => k - 1 \in 0 .. m + 1 /\ k - 1 # m + 1
        OBVIOUS
      <4>. QED BY <2>2, <3>2, <4>2, <4>3
    <3>. QED BY <3>1, <3>2
  <2>4. P(g, m + 1)
    BY <2>2, <2>3
  <2>. QED BY <2>4
<1>3. Nat \subseteq S
  <2>. HIDE DEF S
  <2>. QED BY <1>1, <1>2, SetInduction
<1>4. PICK r : r = CHOOSE f : P(f, n)
  OBVIOUS
<1>5. P(r, n)
  <2>1. \E f : P(f, n)
    BY <1>3
  <2>. HIDE DEF P
  <2>. QED BY <1>4, <2>1
<1>6. r[n] = CodeRun(F, c, n)
  BY <1>4 DEF CodeRun
<1>7. r[0] = c
  BY <1>5
<1>8. ASSUME NEW k \in 0 .. n - 1 PROVE r[k + 1] = Step(F, r[k])
  <2>1. k + 1 \in 0 .. n /\ k + 1 # 0 /\ k + 1 - 1 = k
    OBVIOUS
  <2>. QED BY <1>5, <2>1
<1>. QED BY <1>6, <1>7, <1>8

LEMMA CodeEnded ==
    ASSUME NEW F, NEW c, c.st # "on", NEW n \in Nat, NEW res, Stops(F, c, n, res)
    PROVE  res = c
<1>1. Step(F, c) = c
  BY DEF Step
<1>2. PICK r : r[0] = c /\ r[n] = res /\ \A k \in 0 .. n - 1 : r[k + 1] = Step(F, r[k])
  BY DEF Stops
<1>. DEFINE S == {k \in Nat : k <= n => r[k] = c}
<1>3. 0 \in S
  BY <1>2
<1>4. ASSUME NEW k \in Nat, k \in S PROVE k + 1 \in S
  <2>1. ASSUME k + 1 <= n PROVE r[k + 1] = c
    <3>1. k \in 0 .. n - 1 /\ r[k] = c
      BY <1>4, <2>1
    <3>. QED BY <1>1, <1>2, <3>1
  <2>. QED BY <2>1
<1>. HIDE DEF S
<1>5. Nat \subseteq S
  BY <1>3, <1>4, SetInduction
<1>6. n \in S
  BY <1>5
<1>. QED BY <1>2, <1>6 DEF S

(* A run that stops is still to stop after n steps, or has.                *)
LEMMA CodeRunStops ==
    ASSUME NEW F, NEW c, NEW n \in Nat, NEW l \in Nat, NEW res, Stops(F, c, l, res)
    PROVE  \E m \in Nat : (m + n = l \/ m = 0) /\ Stops(F, CodeRun(F, c, n), m, res)
<1>1. PICK r : /\ r[0] = c /\ r[n] = CodeRun(F, c, n)
               /\ \A k \in 0 .. n - 1 : r[k + 1] = Step(F, r[k])
  BY CodeRunIs
<1>. DEFINE S == {k \in Nat : k <= n =>
                     \E m \in Nat : (m + k = l \/ m = 0) /\ Stops(F, r[k], m, res)}
<1>2. 0 \in S
  <2>1. l + 0 = l /\ Stops(F, r[0], l, res)
    BY <1>1
  <2>. QED BY <2>1
<1>3. ASSUME NEW k \in Nat, k \in S PROVE k + 1 \in S
  <2>. SUFFICES ASSUME k + 1 <= n
                PROVE  \E m \in Nat : (m + (k + 1) = l \/ m = 0) /\ Stops(F, r[k + 1], m, res)
    OBVIOUS
  <2>1. k <= n /\ k \in 0 .. n - 1
    OBVIOUS
  <2>2. PICK m \in Nat : (m + k = l \/ m = 0) /\ Stops(F, r[k], m, res)
    BY <1>3, <2>1
  <2>. HIDE DEF S
  <2>3. r[k + 1] = Step(F, r[k])
    BY <1>1, <2>1
  <2>4. CASE r[k].st = "on"
    <3>0. PICK b : b = r[k] /\ b.st = "on" /\ Stops(F, b, m, res)
      BY <2>2, <2>4
    <3>1. PICK j \in Nat : m = j + 1 /\ Stops(F, Step(F, r[k]), j, res)
      <4>1. \E j \in Nat : m = j + 1 /\ Stops(F, Step(F, b), j, res)
        BY <3>0, StopsAfter
      <4>. QED BY <3>0, <4>1
    <3>2. j + (k + 1) = l \/ j = 0
      BY <2>2, <3>1
    <3>. QED BY <2>3, <3>1, <3>2
  <2>5. CASE r[k].st # "on"
    <3>1. Step(F, r[k]) = r[k]
      BY <2>5 DEF Step
    <3>2. res = r[k]
      BY <2>2, <2>5, CodeEnded
    <3>3. Stops(F, r[k + 1], 0, res)
      BY <2>3, <2>5, <3>1, <3>2, StopsNow
    <3>. QED BY <3>3
  <2>. QED BY <2>4, <2>5
<1>4. Nat \subseteq S
  <2>. HIDE DEF S
  <2>. QED BY <1>2, <1>3, SetInduction
<1>5. n \in S
  BY <1>4
<1>. QED BY <1>1, <1>5

(* What is to be done is done from where the code for it leads.            *)
LEMMA FollowedIsDone ==
    ASSUME NEW F, NEW i, NEW G, NEW j, NEW todo,
           Follows(F, i, todo, Steps, 1), Means(F, i, G, j)
    PROVE  DoesAsToDo(G, j, todo)
<1>. SUFFICES ASSUME NEW d, NEW r, r = TreeRun(Begin(todo, d), Steps),
                     NEW h, h = CodeRun(G, Begin(j, d), Steps), r.st # "on"
              PROVE  CodeRun(G, h, Steps) = r
  BY DEF DoesAsToDo
<1>1. Steps \in Nat /\ Steps \in 0 .. Steps
  BY BoundsAssumption
<1>2. TreeStops(Running(todo, <<>>, d, "on"), Steps, r)
  BY <1>1, TreeRunIs DEF TreeStops, Begin
<1>3. PICK l \in Nat : l < 2 * Steps + 1 /\ Stops(F, Begin(i, d), l, r)
  <2>1. IsSeq(<<>>)
    BY EmptySeq, SeqIsSeq
  <2>. QED BY <1>1, <1>2, <2>1 DEF Follows, FollowsIn, Begin
<1>4. PICK k \in 0 .. l : Stops(G, Begin(j, d), k, r)
  BY <1>3 DEF Means
<1>5. PICK m \in Nat : (m + Steps = k \/ m = 0) /\ Stops(G, h, m, r)
  BY <1>1, <1>4, CodeRunStops
<1>6. PICK n \in Nat : (n + Steps = m \/ n = 0) /\ Stops(G, CodeRun(G, h, Steps), n, r)
  BY <1>1, <1>5, CodeRunStops
<1>7. n = 0
  BY <1>1, <1>3, <1>4, <1>5, <1>6
<1>8. Stops(G, CodeRun(G, h, Steps), 0, r)
  BY <1>6, <1>7
<1>. QED BY <1>8 DEF Stops

(***************************************************************************)
(* From the syntax tree to the bytes that are run                          *)
(***************************************************************************)

(* The list means what the generated one did, which is read off the tree.  *)
MeansTheSource ==
    /\ source \in Programs
    /\ \A c \in ClosuresIn[source] : c.value.v \in DOMAIN entry
    /\ operand = [i \in 1 .. Len(Code(source)) |-> Code(source)[i].arg]
    /\ MeansWhatItDid(CodeFlow(Code(source)), 1, BegunAt(Code(source)))

LEMMA StartIs ==
    ASSUME ListInv, NEW a \in Programs, NEW g, g = Code(a), Start(g)
    PROVE  /\ ListFlow = CodeFlow(g) /\ Head(program) = 1
           /\ \A k \in DOMAIN entry : \A i \in BodiesOf(k) :
                 i \in 1 .. Len(g) /\ k \in BegunAt(g)[i]
           /\ \A c \in ClosuresIn[a] : c.value.v \in DOMAIN entry
           /\ operand = [i \in 1 .. Len(g) |-> g[i].arg]
<1>1. a \in Trees
  BY TreeAssumption
<1>2. PICK N \in Nat : N = Len(g) /\ N # 0 /\ DOMAIN g = 1 .. N
  BY <1>1, CodeIsAListing DEF Listing
<1>3. /\ program = [i \in 1 .. N |-> i] /\ opcode = [i \in 1 .. N |-> g[i].op]
      /\ operand = [i \in 1 .. N |-> g[i].arg]
      /\ branch = [i \in 1 .. N |-> IF g[i].jump = 0 THEN None ELSE i + g[i].jump]
  BY <1>2 DEF Start
<1>4. Len(program) = N /\ Range(program) = 1 .. N /\ Head(program) = 1
  <2>1. program \in Seq(1 .. N) /\ Len(program) = N /\ DOMAIN program = 1 .. N
    BY <1>2, <1>3
  <2>2. Head(program) = program[1] /\ program[1] = 1
    BY <1>2, <1>3, <2>1
  <2>. QED BY <1>3, <2>1, <2>2 DEF Range
<1>5. ListFlow = CodeFlow(g)
  <2>1. Listed(program, DOMAIN opcode)
    BY DEF ListInv
  <2>2. ASSUME NEW i \in 1 .. N PROVE NextOf(i) = IF i = N THEN None ELSE i + 1
    <3>1. NextOf(program[i]) = IF i = N THEN None ELSE program[i + 1]
      BY <1>4, <2>1, PlaceIs
    <3>2. program[i] = i /\ (i # N => program[i + 1] = i + 1)
      BY <1>3
    <3>. QED BY <3>1, <3>2
  <2>3. ASSUME NEW i \in 1 .. N
        PROVE  /\ opcode[i] = g[i].op /\ operand[i] = g[i].arg
               /\ branch[i] = IF g[i].jump = 0 THEN None ELSE i + g[i].jump
    BY <1>3
  <2>4. ListFlow = [i \in 1 .. N |->
            [op |-> opcode[i], arg |-> operand[i], next |-> NextOf(i), branch |-> branch[i]]]
    BY <1>4 DEF ListFlow
  <2>. QED BY <1>2, <2>2, <2>3, <2>4 DEF CodeFlow
<1>6. ASSUME NEW k \in DOMAIN entry, NEW i \in BodiesOf(k)
      PROVE  i \in 1 .. N /\ k \in BegunAt(g)[i]
  <2>1. i \in 1 .. N /\ k \in referrers[i]
    BY <1>4, <1>6 DEF BodiesOf
  <2>2. k \in Int /\ k < 0
    BY <1>6 DEF ListInv, Shape
  <2>. DEFINE bodies(m) == {j + 3 : j \in {j \in 1 .. N : IsClosurePush(g[j]) /\ g[j].arg.v = m}}
  <2>3. \A m \in referrers[i] : m \in 1 .. N \/ i \in bodies(m)
    BY <1>2, <2>1 DEF Start
  <2>4. PICK j \in 1 .. N : IsClosurePush(g[j]) /\ g[j].arg.v = k /\ i = j + 3
    BY <2>1, <2>2, <2>3
  <2>. QED BY <1>2, <2>1, <2>4 DEF BegunAt
<1>7. ASSUME NEW c \in ClosuresIn[a] PROVE c.value.v \in DOMAIN entry
  <2>1. PICK i \in 1 .. Len(Gen[a]) : IsClosurePush(Gen[a][i]) /\ Gen[a][i].arg = c.value
    BY <1>1, ClosuresArePushed
  <2>2. Lies(g, Gen[a], 0)
    BY <1>1, CodeIs
  <2>3. i \in 1 .. N /\ IsClosurePush(g[i]) /\ g[i].arg = c.value
    <3>1. 0 + i \in 1 .. Len(g) /\ g[0 + i] = Gen[a][i] /\ 0 + i = i
      BY <2>2 DEF Lies
    <3>. QED BY <1>2, <2>1, <3>1
  <2>4. DOMAIN entry = {g[j].arg.v : j \in {j \in DOMAIN g : IsClosurePush(g[j])}}
    BY DEF Start
  <2>. QED BY <1>2, <2>3, <2>4
<1>. QED BY <1>2, <1>3, <1>4, <1>5, <1>6, <1>7

LEMMA MeansTheSourceAtFirst ==
    CompilerInit /\ ListInv => MeansTheSource
<1>. SUFFICES ASSUME CompilerInit, ListInv PROVE MeansTheSource
  OBVIOUS
<1>1. PICK g : g = Code(source) /\ Start(g) /\ source \in Programs
  BY DEF CompilerInit
<1>2. PICK F, B : F = CodeFlow(g) /\ B = BegunAt(g)
  OBVIOUS
<1>3. /\ ListFlow = F /\ Head(program) = 1
      /\ \A k \in DOMAIN entry : \A i \in BodiesOf(k) : i \in 1 .. Len(g) /\ k \in B[i]
      /\ \A c \in ClosuresIn[source] : c.value.v \in DOMAIN entry
      /\ operand = [i \in 1 .. Len(g) |-> g[i].arg]
  BY <1>1, <1>2, StartIs
<1>4. \A i : Means(F, i, F, i)
  <2>1. \A m \in Nat : m \in 0 .. m
    OBVIOUS
  <2>. QED BY <2>1 DEF Means
<1>5. DOMAIN F = 1 .. Len(g)
  BY <1>2 DEF CodeFlow
<1>6. MeansWhatItDid(F, 1, B)
  BY <1>3, <1>4, <1>5 DEF MeansWhatItDid
<1>. QED BY <1>1, <1>2, <1>3, <1>6 DEF MeansTheSource

LEMMA MeansTheSourceKept ==
    ListInv /\ [StepKeepsMeaning]_vars /\ [CompilerNext]_<<vars, source>> /\ MeansTheSource
        => MeansTheSource'
<1>. SUFFICES ASSUME ListInv, [StepKeepsMeaning]_vars, [CompilerNext]_<<vars, source>>,
                     MeansTheSource
              PROVE  MeansTheSource'
  OBVIOUS
<1>1. source' = source
  BY DEF CompilerNext
<1>2. operand' = operand /\ DOMAIN entry' = DOMAIN entry
  BY DEF CompilerNext, Next, vars, code, Visiting, EliminateNop, Rewire, ReplaceJump,
         OptimizeTailCall, PushSmallInt, EliminateDead, KeepAlive, PassBy, Encode, Done
<1>3. PICK F, B : F = CodeFlow(Code(source)) /\ B = BegunAt(Code(source))
  OBVIOUS
<1>4. MeansWhatItDid(F, 1, B)
  BY <1>3 DEF MeansTheSource
<1>5. MeansWhatItDid(F, 1, B)'
  BY <1>2, <1>4, MeansWhatItDidKept
<1>6. MeansWhatItDid(CodeFlow(Code(source)), 1, BegunAt(Code(source)))'
  BY <1>1, <1>3, <1>5 DEF MeansWhatItDid
<1>. QED BY <1>1, <1>2, <1>6 DEF MeansTheSource

LEMMA CompilerImplementsIcode ==
    CompilerSpec => Spec
<1>1. CompilerInit => Init
  BY CodeAssumption DEF CompilerInit, Init
<1>2. [CompilerNext]_<<vars, source>> => [Next]_vars
  BY DEF CompilerNext
<1>. QED BY <1>1, <1>2, PTL DEF CompilerSpec, Spec

(* Indices of variables fit the byte they are stored in.                   *)
IndicesFit == \A a \in Trees : a.t = "local" => a.index \in 0 .. 255

LEMMA SourceFits ==
    ASSUME MeansTheSource, IndicesFit
    PROVE  Fits
<1>1. PICK g : g = Code(source) /\ g \in Codes /\ operand = [i \in 1 .. Len(g) |-> g[i].arg]
  BY CodeIs, TreeAssumption DEF MeansTheSource
<1>2. \A i \in 1 .. Len(g) : g[i].arg \in Arguments
  BY <1>1 DEF Codes, Instructions
<1>3. ASSUME NEW v \in Arguments PROVE Stored(v) = v
  <2>1. CASE v.type # "local"
    BY <2>1 DEF Stored
  <2>2. CASE v.type = "local"
    <3>1. PICK a \in Trees : a.t = "local" /\ v = Slot(a.index)
      <4>1. \A i : Integer(i).type = "integer"
        BY DEF Integer
      <4>2. \A a \in Trees : a.t = "value" => a.value.type # "local"
        BY TreeAssumption DEF WellFormed
      <4>. QED BY <2>2, <4>1, <4>2 DEF Arguments
    <3>2. PICK n \in 0 .. 255 : n = a.index
      BY <3>1 DEF IndicesFit
    <3>3. v = [type |-> "local", v |-> n]
      BY <3>1, <3>2 DEF Slot
    <3>4. Stored(v) = [type |-> "local", v |-> n % 256]
      BY <2>2, <3>3 DEF Stored
    <3>5. n % 256 = n
      OBVIOUS
    <3>. QED BY <3>3, <3>4, <3>5
  <2>. QED BY <2>1, <2>2
<1>. QED BY <1>1, <1>2, <1>3 DEF Fits

(* Where the main program and the closures begin in F, it does what the    *)
(* tree has to be done.                                                    *)
LEMMA SourceIsDone ==
    ASSUME MeansTheSource, NEW F, F = CodeFlow(Code(source)), NEW G, NEW j
    PROVE  /\ Means(F, 1, G, j) => DoesAsToDo(G, j, Then(source, End("HALT")))
           /\ \A c \in ClosuresIn[source] : \A i \in DOMAIN F :
                 c.value.v \in BegunAt(Code(source))[i] /\ Means(F, i, G, j)
                     => DoesAsToDo(G, j, Then(c.body, End("RET")))
<1>1. PICK a, g : a = source /\ g = Code(a) /\ a \in Programs /\ a \in Trees
  BY TreeAssumption DEF MeansTheSource
<1>2. FlowOf(F, g) /\ DOMAIN F = 1 .. Len(g)
  BY <1>1, CodeFlowIs DEF CodeFlow
<1>3. Steps \in Nat
  BY BoundsAssumption
<1>4. Follows(F, 1, Then(a, End("HALT")), Steps, 1)
  BY <1>1, <1>2, <1>3, ProgramFollows
<1>5. ASSUME NEW c \in ClosuresIn[a], NEW i \in DOMAIN F, c.value.v \in BegunAt(g)[i]
      PROVE  Follows(F, i, Then(c.body, End("RET")), Steps, 1)
  BY <1>1, <1>2, <1>3, <1>5, ClosureFollows
<1>. QED BY <1>1, <1>4, <1>5, FollowedIsDone

LEMMA SourceIsPreserved ==
    ASSUME ListInv, ArgsInv, WrittenInv, MeansTheSource, IndicesFit
    PROVE  MeaningPreserved
<1>1. PICK F, B : F = CodeFlow(Code(source)) /\ B = BegunAt(Code(source))
  OBVIOUS
<1>2. MeansWhatItDid(F, 1, B) /\ \A c \in ClosuresIn[source] : c.value.v \in DOMAIN entry
  BY <1>1 DEF MeansTheSource
<1>3. CASE pass # "done"
  <2>1. DoesAsToDo(ListFlow, Head(program), Then(source, End("HALT")))
    <3>1. PICK G, j : G = ListFlow /\ j = Head(program) /\ Means(F, 1, G, j)
      BY <1>2 DEF MeansWhatItDid
    <3>2. DoesAsToDo(G, j, Then(source, End("HALT")))
      BY <1>1, <3>1, SourceIsDone
    <3>. QED BY <3>1, <3>2
  <2>2. ASSUME NEW c \in ClosuresIn[source]
        PROVE  DoesAsToDo(ListFlow, entry[c.value.v], Then(c.body, End("RET")))
    <3>1. PICK k \in DOMAIN entry : k = c.value.v
      BY <1>2
    <3>2. entry[k] \in BodiesOf(k)
      BY <3>1 DEF ListInv, Links, BodiesOf
    <3>3. PICK G, j : G = ListFlow /\ j = entry[k]
      OBVIOUS
    <3>4. PICK i \in DOMAIN F : k \in B[i] /\ Means(F, i, G, j)
      BY <1>2, <3>2, <3>3 DEF MeansWhatItDid
    <3>5. DoesAsToDo(G, j, Then(c.body, End("RET")))
      BY <1>1, <3>1, <3>4, SourceIsDone
    <3>. QED BY <3>1, <3>3, <3>5
  <2>. QED BY <1>3, <2>1, <2>2 DEF MeaningPreserved, DoesAsTheTree
<1>4. CASE pass = "done"
  <2>1. BytesMeanWhatItDid(F, 1, B)
    BY <1>2, BytesMean
  <2>2. Fits
    BY SourceFits
  <2>3. /\ Means(F, 1, MemoryFlow, 0)
        /\ \A k \in DOMAIN entry :
              \E i \in DOMAIN F : k \in B[i] /\ Means(F, i, MemoryFlow, label[entry[k]])
    BY <1>4, <2>1, <2>2 DEF BytesMeanWhatItDid
  <2>4. PICK at : at = [k \in DOMAIN entry |-> label[entry[k]]]
    OBVIOUS
  <2>5. PICK G : G = MemoryFlow
    OBVIOUS
  <2>6. DoesAsToDo(G, 0, Then(source, End("HALT")))
    BY <1>1, <2>3, <2>5, SourceIsDone
  <2>7. ASSUME NEW c \in ClosuresIn[source]
        PROVE  DoesAsToDo(G, at[c.value.v], Then(c.body, End("RET")))
    <3>1. PICK k \in DOMAIN entry : k = c.value.v
      BY <1>2
    <3>2. PICK j : j = label[entry[k]] /\ at[k] = j
      BY <2>4
    <3>3. PICK i \in DOMAIN F : k \in B[i] /\ Means(F, i, G, j)
      BY <2>3, <2>5, <3>2
    <3>4. DoesAsToDo(G, j, Then(c.body, End("RET")))
      BY <1>1, <3>1, <3>3, SourceIsDone
    <3>. QED BY <3>1, <3>2, <3>4
  <2>. QED BY <1>4, <2>4, <2>5, <2>6, <2>7 DEF MeaningPreserved, DoesAsTheTree
<1>. QED BY <1>3, <1>4

(* Every list on the way, and the bytes at the end, do what the syntax     *)
(* tree has to be done, the main program and the closures, however the     *)
(* tests turn out and however many steps the tree takes.                   *)
THEOREM ProgramMeansTheTree ==
    ASSUME IndicesFit
    PROVE  CompilerSpec => []MeaningPreserved
<1>1. CompilerSpec => [][StepKeepsMeaning]_vars
  BY CompilerImplementsIcode, EveryStepKeepsMeaning DEF MeaningIsKept
<1>2. CompilerSpec => []MeansTheSource
  BY <1>1, CompilerImplementsIcode, ListInvariant, MeansTheSourceAtFirst, MeansTheSourceKept, PTL
     DEF CompilerSpec
<1>3. ListInv /\ ArgsInv /\ WrittenInv /\ MeansTheSource => MeaningPreserved
  BY SourceIsPreserved
<1>. QED BY <1>2, <1>3, CompilerImplementsIcode, ListInvariant, ArgsInvariant, WrittenInvariant, PTL
============================================================================
