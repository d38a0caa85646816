----------------------------- MODULE Induction -----------------------------
(***************************************************************************)
(* Induction and recursion over the natural numbers, stated of sets and    *)
(* functions, so that they can be cited for whatever an operator says.     *)
(***************************************************************************)
EXTENDS Integers, Sequences, WellFoundedInduction, TLAPS

LEMMA NatOrder ==
    \E R : IsWellFoundedOn(R, Nat) /\ \A m, n \in Nat : m < n => <<m, n>> \in R
<1>1. \A m, n \in Nat : m < n => <<m, n>> \in OpToRel(<, Nat)
  BY DEF OpToRel
<1>. QED BY <1>1, NatLessThanWellFounded

(* Every set of natural numbers has a least one. *)
THEOREM LeastNumber ==
    ASSUME NEW T, T \subseteq Nat, T # {}
    PROVE  \E n \in T : \A m \in T : n <= m
<1>1. PICK R : IsWellFoundedOn(R, Nat) /\ \A m, n \in Nat : m < n => <<m, n>> \in R
  BY NatOrder
<1>2. PICK n \in T : \A m \in T : <<m, n>> \notin R
  <2>1. IsWellFoundedOn(R, Nat)
    BY <1>1
  <2>. QED BY <2>1, WFMin
<1>3. ASSUME NEW m \in T PROVE n <= m
  <2>1. ~(m < n)
    BY <1>1, <1>2
  <2>. QED BY <2>1
<1>. QED BY <1>3

(* A set with 0 that is closed under successor has all natural numbers.    *)
THEOREM SetInduction ==
    ASSUME NEW S, 0 \in S, \A n \in Nat : n \in S => n + 1 \in S
    PROVE  Nat \subseteq S
<1>. DEFINE T == Nat \ S
<1>. SUFFICES ASSUME T # {} PROVE FALSE
  OBVIOUS
<1>1. T # {} /\ T \subseteq Nat
  OBVIOUS
<1>2. PICK R : IsWellFoundedOn(R, Nat) /\ \A m, n \in Nat : m < n => <<m, n>> \in R
  BY NatOrder
<1>3. PICK x \in T : \A y \in T : <<y, x>> \notin R
  <2>. HIDE DEF T
  <2>1. IsWellFoundedOn(R, Nat)
    BY <1>2
  <2>. QED BY <1>1, <2>1, WFMin
<1>4. x \in Nat /\ x # 0 /\ x - 1 \in Nat /\ x - 1 < x
  BY <1>3
<1>5. x - 1 \in S
  BY <1>2, <1>3, <1>4
<1>6. x - 1 + 1 \in S
  BY <1>4, <1>5
<1>. QED BY <1>3, <1>4, <1>6

(* A function on S whose value at an element depends on those at elements  *)
(* of smaller size.                                                        *)
DependsOnSmaller(step, S, V, size) ==
    /\ size \in [S -> Nat]
    /\ step \in [S -> [[S -> V] -> V]]
    /\ \A x \in S : \A f, g \in [S -> V] :
        (\A y \in S : size[y] < size[x] => f[y] = g[y]) => step[x][f] = step[x][g]

IsTable(f, step, S) == \A x \in S : f[x] = step[x][f]

THEOREM RecursiveTable ==
    ASSUME NEW S, NEW V, V # {}, NEW size, NEW step, DependsOnSmaller(step, S, V, size)
    PROVE  \E f \in [S -> V] : IsTable(f, step, S)
<1>. PICK v0 : v0 \in V
  OBVIOUS
<1>. DEFINE Upto(f, n) == \A x \in S : size[x] <= n => f[x] = step[x][f]
            Some == {n \in Nat : \E f \in [S -> V] : Upto(f, n)}
            Alike == {n \in Nat : \A f, g \in [S -> V] : Upto(f, n) /\ Upto(g, n) =>
                                     \A x \in S : size[x] <= n => f[x] = g[x]}
<1>1. \A x \in S : size[x] \in Nat /\ \A f \in [S -> V] : step[x][f] \in V
  BY DEF DependsOnSmaller
<1>2. ASSUME NEW x \in S, NEW f \in [S -> V], NEW g \in [S -> V],
             \A y \in S : size[y] < size[x] => f[y] = g[y]
      PROVE  step[x][f] = step[x][g]
  BY <1>2 DEF DependsOnSmaller
<1>3. ASSUME NEW f, NEW n \in Nat, NEW m \in Nat, m <= n, Upto(f, n) PROVE Upto(f, m)
  <2>1. ASSUME NEW x \in S, size[x] <= m PROVE f[x] = step[x][f]
    <3>1. size[x] <= n
      BY <1>1, <1>3, <2>1
    <3>. QED BY <1>3, <3>1
  <2>. QED BY <2>1
<1>4. Nat \subseteq Some
  <2>1. 0 \in Some
    <3>. DEFINE c == [x \in S |-> v0]
                g == [x \in S |-> step[x][c]]
    <3>1. c \in [S -> V] /\ g \in [S -> V]
      BY <1>1
    <3>2. ASSUME NEW x \in S, size[x] <= 0 PROVE g[x] = step[x][g]
      <4>1. \A y \in S : ~(size[y] < size[x])
        BY <1>1, <3>2
      <4>2. step[x][c] = step[x][g]
        <5>. HIDE DEF c, g
        <5>. QED BY <1>2, <3>1, <4>1
      <4>. QED BY <4>2
    <3>. HIDE DEF g
    <3>. QED BY <3>1, <3>2
  <2>2. ASSUME NEW n \in Nat, n \in Some PROVE n + 1 \in Some
    <3>1. PICK f \in [S -> V] : Upto(f, n)
      BY <2>2
    <3>. DEFINE g == [x \in S |-> step[x][f]]
    <3>2. g \in [S -> V]
      BY <1>1
    <3>3. ASSUME NEW x \in S, size[x] <= n + 1 PROVE g[x] = step[x][g]
      <4>1. ASSUME NEW y \in S, size[y] < size[x] PROVE f[y] = g[y]
        <5>1. size[y] <= n
          BY <1>1, <3>3, <4>1
        <5>. QED BY <3>1, <5>1
      <4>2. step[x][f] = step[x][g]
        <5>. HIDE DEF g
        <5>. QED BY <1>2, <3>2, <4>1
      <4>. QED BY <4>2
    <3>. HIDE DEF g
    <3>. QED BY <3>2, <3>3
  <2>. HIDE DEF Some
  <2>. QED BY <2>1, <2>2, SetInduction
<1>5. Nat \subseteq Alike
  <2>1. 0 \in Alike
    <3>1. ASSUME NEW f \in [S -> V], NEW g \in [S -> V], Upto(f, 0), Upto(g, 0),
                 NEW x \in S, size[x] <= 0
          PROVE  f[x] = g[x]
      <4>1. \A y \in S : ~(size[y] < size[x])
        BY <1>1, <3>1
      <4>2. step[x][f] = step[x][g]
        BY <1>2, <4>1
      <4>. QED BY <3>1, <4>2
    <3>. HIDE DEF Upto
    <3>. QED BY <3>1
  <2>2. ASSUME NEW n \in Nat, n \in Alike PROVE n + 1 \in Alike
    <3>1. ASSUME NEW f \in [S -> V], NEW g \in [S -> V], Upto(f, n + 1), Upto(g, n + 1),
                 NEW x \in S, size[x] <= n + 1
          PROVE  f[x] = g[x]
      <4>1. Upto(f, n) /\ Upto(g, n)
        <5>. HIDE DEF Upto
        <5>. QED BY <1>3, <3>1
      <4>2. ASSUME NEW y \in S, size[y] < size[x] PROVE f[y] = g[y]
        <5>1. size[y] <= n
          BY <1>1, <3>1, <4>2
        <5>. QED BY <2>2, <4>1, <5>1
      <4>3. step[x][f] = step[x][g]
        BY <1>2, <4>2
      <4>. QED BY <3>1, <4>3
    <3>2. n + 1 \in Nat
      OBVIOUS
    <3>. HIDE DEF Upto
    <3>. QED BY <3>1, <3>2
  <2>. HIDE DEF Alike
  <2>. QED BY <2>1, <2>2, SetInduction
<1>. DEFINE at(n) == CHOOSE f \in [S -> V] : Upto(f, n)
            h == [x \in S |-> at(size[x])[x]]
<1>6. \A n \in Nat : at(n) \in [S -> V] /\ Upto(at(n), n)
  <2>1. ASSUME NEW n \in Nat PROVE \E f \in [S -> V] : Upto(f, n)
    BY <1>4
  <2>. HIDE DEF Upto
  <2>. QED BY <2>1
<1>7. \A n \in Nat : \A f, g \in [S -> V] : Upto(f, n) /\ Upto(g, n) =>
          \A x \in S : size[x] <= n => f[x] = g[x]
  <2>. HIDE DEF Upto
  <2>. QED BY <1>5
<1>. HIDE DEF at, Some, Alike
<1>8. h \in [S -> V]
  BY <1>1, <1>6
<1>9. ASSUME NEW x \in S PROVE h[x] = step[x][h]
  <2>. DEFINE f == at(size[x])
  <2>1. f \in [S -> V] /\ Upto(f, size[x]) /\ h[x] = f[x]
    BY <1>1, <1>6
  <2>2. f[x] = step[x][f]
    BY <1>1, <2>1
  <2>3. ASSUME NEW y \in S, size[y] < size[x] PROVE f[y] = h[y]
    <3>. DEFINE g == at(size[y])
    <3>1. g \in [S -> V] /\ Upto(g, size[y]) /\ h[y] = g[y] /\ size[y] \in Nat
      BY <1>1, <1>6
    <3>2. Upto(f, size[y])
      <4>. HIDE DEF Upto, f
      <4>. QED BY <1>1, <1>3, <2>1, <2>3
    <3>3. f[y] = g[y]
      <4>1. f \in [S -> V] /\ g \in [S -> V] /\ Upto(f, size[y]) /\ Upto(g, size[y])
        BY <2>1, <3>1, <3>2
      <4>2. y \in S /\ size[y] \in Nat /\ size[y] <= size[y]
        BY <3>1
      <4>. HIDE DEF Upto, f, g
      <4>. QED BY <1>7, <4>1, <4>2, Zenon
    <3>. QED BY <3>1, <3>3
  <2>4. step[x][f] = step[x][h]
    <3>. HIDE DEF f, h
    <3>. QED BY <1>2, <1>8, <2>1, <2>3
  <2>. QED BY <2>1, <2>2, <2>4
<1>. HIDE DEF h
<1>. QED BY <1>8, <1>9 DEF IsTable

(* A function on S that for an element with a size above 0 is computed     *)
(* from what it is for a smaller one.                                      *)
Recurs(f, x, size, base, less, comb) ==
    f[x] = IF size[x] = 0 THEN base[x] ELSE comb[x][f[less[x]]]

THEOREM RecursiveFunction ==
    ASSUME NEW S, NEW V, NEW size \in [S -> Nat],
           NEW base \in [S -> V], NEW less \in [S -> S], NEW comb \in [S -> [V -> V]],
           \A x \in S : size[x] # 0 => size[less[x]] < size[x]
    PROVE  \E f \in [S -> V] : \A x \in S : Recurs(f, x, size, base, less, comb)
<1>. DEFINE step == [x \in S |-> [f \in [S -> V] |->
                        IF size[x] = 0 THEN base[x] ELSE comb[x][f[less[x]]]]]
<1>1. \A x \in S : /\ size[x] \in Nat /\ base[x] \in V /\ less[x] \in S
                 /\ \A v \in V : comb[x][v] \in V
  OBVIOUS
<1>2. step \in [S -> [[S -> V] -> V]]
  <2>1. ASSUME NEW x \in S, NEW f \in [S -> V]
        PROVE  (IF size[x] = 0 THEN base[x] ELSE comb[x][f[less[x]]]) \in V
    BY <1>1
  <2>. QED BY <2>1
<1>3. \A x \in S : \A f \in [S -> V] :
          step[x][f] = IF size[x] = 0 THEN base[x] ELSE comb[x][f[less[x]]]
  OBVIOUS
<1>4. DependsOnSmaller(step, S, V, size)
  <2>. HIDE DEF step
  <2>1. ASSUME NEW x \in S, NEW f \in [S -> V], NEW g \in [S -> V],
               \A y \in S : size[y] < size[x] => f[y] = g[y]
        PROVE  step[x][f] = step[x][g]
    <3>1. size[x] # 0 => f[less[x]] = g[less[x]]
      BY <1>1, <2>1
    <3>. QED BY <1>3, <3>1
  <2>. QED BY <1>2, <2>1 DEF DependsOnSmaller
<1>5. CASE S = {}
  <2>1. [x \in S |-> base[x]] \in [S -> V]
    BY <1>1
  <2>. QED BY <1>5, <2>1
<1>6. CASE S # {}
  <2>1. PICK v0 : v0 \in V
    BY <1>1, <1>6
  <2>2. PICK f \in [S -> V] : \A x \in S : f[x] = step[x][f]
    <3>. HIDE DEF step
    <3>1. \E f \in [S -> V] : IsTable(f, step, S)
      BY <1>4, <2>1, RecursiveTable
    <3>. QED BY <3>1 DEF IsTable
  <2>. QED BY <1>3, <2>2 DEF Recurs
<1>. QED BY <1>5, <1>6
=============================================================================
