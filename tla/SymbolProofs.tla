---------------------------- MODULE SymbolProofs ----------------------------
(***************************************************************************)
(* Theorems about Symbol, for any names, any number of tables, variables   *)
(* and closures.  Those about references assume that constants are no      *)
(* routines; without this they do not hold.                                *)
(***************************************************************************)
EXTENDS Symbol, TLAPS

(***************************************************************************)
(* The inductive invariant                                                 *)
(***************************************************************************)
TableType   == [level : Nat, next_index : 0 .. SlotBound, symbols : [Name -> Symbol]]
RoutineType == [arity : Nat, cc : Nat, inner : Nat, formals : BOOLEAN,
                refs : SUBSET Ref, owner : [Slots -> Nat], args : SUBSET Nat]
DefType     == [name : Name, depth : Nat, constant : BOOLEAN]

Types ==
    /\ scopes \in Seq(TableType) /\ Len(scopes) >= 1
    /\ routines \in Seq(RoutineType)
    /\ declared \in Nat

(* Levels grow with the tables, by one at a time, and each has a home. *)
Levels ==
    /\ scopes[1].level = 0
    /\ \A i, j \in 1 .. Len(scopes) : i < j => scopes[i].level <= scopes[j].level
    /\ \A i \in 2 .. Len(scopes) : scopes[i].level <= scopes[i - 1].level + 1
    /\ \A j \in 1 .. Len(scopes) : \E i \in 1 .. j :
          IsHome(i) /\ scopes[i].level = scopes[j].level
    /\ Len(routines) = Table.level + 1

(* The slots that a routine has given away are those below next_index. *)
GivenSlots ==
    \A i \in 1 .. Len(scopes) : \A x \in Slots :
        IsHome(i) /\ routines[scopes[i].level + 1].owner[x] # Unowned
            => x < scopes[i].next_index

(* Every variable that is in an open table owns its slot. *)
OwnSlot(i, s) ==
    s.kind = "variable" =>
        /\ s.index \in Slots /\ s.var # Unowned
        /\ routines[scopes[i].level + 1].owner[s.index] = s.var

OwnSlots ==
    \A i \in 1 .. Len(scopes) : \A n \in Name : OwnSlot(i, scopes[i].symbols[n])

(* No constant is a routine. *)
PlainConstants ==
    \A i \in 1 .. Len(scopes) : \A n \in Name : ~scopes[i].symbols[n].routine

Core ==
    /\ Types
    /\ Levels
    /\ GivenSlots
    /\ OwnSlots
    /\ PlainConstants
    /\ ReferencesReachTheirVariable

(* The initializer of a constant is parsed in one go. *)
PlainDefinitions ==
    /\ defs \in Seq(DefType)
    /\ \A k \in 1 .. Len(defs) : defs[k].constant =>
          /\ k = Len(defs) /\ defs[k].depth = Top
          /\ ~Routine.formals /\ closure = NoClosure

IInv == Core /\ PlainDefinitions

(***************************************************************************)
(* Lemmas                                                                  *)
(***************************************************************************)

(* The table that symbol_define takes the slot from is the only home of    *)
(* the current level.                                                      *)
LEMMA HomeIsHome ==
    ASSUME Types, Levels
    PROVE  /\ Home \in 1 .. Len(scopes)
           /\ scopes[Home].level = Table.level /\ IsHome(Home)
           /\ \A i \in 1 .. Len(scopes) :
                 IsHome(i) /\ scopes[i].level = Table.level => i = Home
<1>1. Top \in 1 .. Len(scopes) /\ DOMAIN scopes = 1 .. Len(scopes)
  BY DEF Types, Top
<1>2. \A i \in 1 .. Len(scopes) : scopes[i] \in TableType
  BY DEF Types
<1>3. \E i \in DOMAIN scopes : scopes[i].level = Table.level /\ IsHome(i)
  BY <1>1 DEF Levels, Top, Table
<1>4. Home \in DOMAIN scopes /\ scopes[Home].level = Table.level /\ IsHome(Home)
  BY <1>3 DEF Home
<1>5. ASSUME NEW i \in 1 .. Len(scopes), NEW j \in 1 .. Len(scopes),
             IsHome(i), IsHome(j), scopes[i].level = scopes[j].level, i < j
      PROVE  FALSE
  <2>1. j - 1 \in 1 .. Len(scopes) /\ i <= j - 1 /\ j # 1
    BY <1>5
  <2>2. scopes[j - 1].level # scopes[j].level
    BY <1>5, <2>1 DEF IsHome
  <2>3. scopes[i].level <= scopes[j - 1].level
    BY <1>2, <2>1 DEF Levels, TableType
  <2>4. scopes[j - 1].level <= scopes[j].level
    BY <2>1 DEF Levels
  <2>. QED BY <1>2, <1>5, <2>1, <2>2, <2>3, <2>4 DEF TableType
<1>. QED
  <2>1. ASSUME NEW i \in 1 .. Len(scopes), IsHome(i), scopes[i].level = Table.level
        PROVE  i = Home
    <3>1. Home \in 1 .. Len(scopes) BY <1>1, <1>4
    <3>2. ~(i < Home) BY <1>4, <1>5, <2>1, <3>1
    <3>3. ~(Home < i) BY <1>4, <1>5, <2>1, <3>1
    <3>. QED BY <3>1, <3>2, <3>3
  <2>. QED BY <1>1, <1>4, <2>1

(* What Types and Levels say of the single tables and routines. *)
LEMMA Shape ==
    ASSUME Types, Levels
    PROVE  /\ DOMAIN scopes = 1 .. Len(scopes) /\ Top \in 1 .. Len(scopes)
           /\ Len(scopes) \in Nat /\ Len(routines) \in Nat
           /\ \A i \in 1 .. Len(scopes) :
                 /\ scopes[i] \in TableType
                 /\ scopes[i].level \in Nat
                 /\ scopes[i].level + 1 \in 1 .. Len(routines)
           /\ DOMAIN routines = 1 .. Len(routines)
           /\ Len(routines) \in 1 .. Len(routines)
           /\ \A k \in 1 .. Len(routines) : routines[k] \in RoutineType
<1>1. DOMAIN scopes = 1 .. Len(scopes) /\ Top \in 1 .. Len(scopes)
  BY DEF Types, Top
<1>2. \A i \in 1 .. Len(scopes) : scopes[i] \in TableType /\ scopes[i].level \in Nat
  <2>1. \A i \in 1 .. Len(scopes) : scopes[i] \in TableType
    BY DEF Types
  <2>. QED BY <2>1 DEF TableType
<1>3. \A i \in 1 .. Len(scopes) : scopes[i].level <= Table.level
  BY <1>1, <1>2 DEF Levels, Table, Top
<1>4. Len(routines) = Table.level + 1 /\ Table.level \in Nat
  BY <1>1, <1>2 DEF Levels, Table
<1>5. DOMAIN routines = 1 .. Len(routines)
      /\ \A k \in 1 .. Len(routines) : routines[k] \in RoutineType
  BY DEF Types
<1>. QED BY <1>1, <1>2, <1>3, <1>4, <1>5 DEF Types

(* Levels depends on nothing but the levels of the tables. *)
LEMMA LevelsKept ==
    ASSUME Types, Levels,
           Len(scopes') = Len(scopes), Len(routines') = Len(routines),
           \A i \in 1 .. Len(scopes) : scopes'[i].level = scopes[i].level /\ IsHome(i)' = IsHome(i)
    PROVE  Levels'
<1>1. /\ 1 \in 1 .. Len(scopes) /\ Top \in 1 .. Len(scopes)
      /\ \A i \in 2 .. Len(scopes) : i - 1 \in 1 .. Len(scopes) /\ i \in 1 .. Len(scopes)
      /\ \A j \in 1 .. Len(scopes) : \A i \in 1 .. j : i \in 1 .. Len(scopes)
  BY Shape
<1>2. Table'.level = Table.level
  BY <1>1 DEF Table, Top
<1>3. \A j \in 1 .. Len(scopes) : \E i \in 1 .. j :
          IsHome(i)' /\ scopes'[i].level = scopes'[j].level
  BY <1>1 DEF Levels
<1>4. /\ scopes'[1].level = 0
      /\ \A i, j \in 1 .. Len(scopes) : i < j => scopes'[i].level <= scopes'[j].level
      /\ \A i \in 2 .. Len(scopes) : scopes'[i].level <= scopes'[i - 1].level + 1
  BY <1>1 DEF Levels
<1>. QED BY <1>2, <1>3, <1>4 DEF Levels

(* A name of the current table comes to stand for something that is no     *)
(* variable.                                                               *)
LEMMA ConstantDefined ==
    ASSUME Core, NEW n \in Name, NEW s \in Symbol, s.kind # "variable", ~s.routine,
           scopes' = Defined(n, s), routines' = routines, declared' = declared
    PROVE  Core' /\ Len(scopes') = Len(scopes)
<1>. USE DEF Core
<1>0. scopes \in Seq(TableType) /\ Top \in 1 .. Len(scopes) /\ Len(scopes) \in Nat
      /\ DOMAIN scopes = 1 .. Len(scopes)
  BY Shape DEF Types
<1>a. ASSUME NEW t \in TableType
      PROVE  /\ [t EXCEPT !.symbols = [@ EXCEPT ![n] = s]] \in TableType
             /\ [t EXCEPT !.symbols = [@ EXCEPT ![n] = s]].level = t.level
             /\ [t EXCEPT !.symbols = [@ EXCEPT ![n] = s]].next_index = t.next_index
             /\ [t EXCEPT !.symbols = [@ EXCEPT ![n] = s]].symbols
                    = [t.symbols EXCEPT ![n] = s]
  BY DEF TableType
<1>b. scopes' = [scopes EXCEPT ![Top] =
                    [scopes[Top] EXCEPT !.symbols = [@ EXCEPT ![n] = s]]]
  BY <1>0 DEF Defined
<1>c. scopes[Top] \in TableType
  BY <1>0
<1>1. /\ Len(scopes') = Len(scopes) /\ DOMAIN scopes' = 1 .. Len(scopes)
      /\ scopes' \in Seq(TableType)
      /\ \A i \in 1 .. Len(scopes) :
            /\ scopes'[i].level = scopes[i].level
            /\ scopes'[i].next_index = scopes[i].next_index
            /\ \A m \in Name : \/ scopes'[i].symbols[m] = scopes[i].symbols[m]
                              \/ scopes'[i].symbols[m] = s
  <2>1. /\ scopes'[Top] = [scopes[Top] EXCEPT !.symbols = [@ EXCEPT ![n] = s]]
        /\ \A i \in 1 .. Len(scopes) : i # Top => scopes'[i] = scopes[i]
        /\ Len(scopes') = Len(scopes) /\ DOMAIN scopes' = 1 .. Len(scopes)
    BY <1>0, <1>b
  <2>2. scopes' \in Seq(TableType)
    BY <1>0, <1>a, <1>b, <1>c
  <2>3. /\ scopes'[Top].level = scopes[Top].level
        /\ scopes'[Top].next_index = scopes[Top].next_index
        /\ \A m \in Name : \/ scopes'[Top].symbols[m] = scopes[Top].symbols[m]
                          \/ scopes'[Top].symbols[m] = s
    BY <1>a, <1>c, <2>1 DEF TableType
  <2>4. ASSUME NEW i \in 1 .. Len(scopes)
        PROVE  /\ scopes'[i].level = scopes[i].level
               /\ scopes'[i].next_index = scopes[i].next_index
               /\ \A m \in Name : \/ scopes'[i].symbols[m] = scopes[i].symbols[m]
                                 \/ scopes'[i].symbols[m] = s
    <3>1. CASE i = Top BY <2>3, <3>1
    <3>2. CASE i # Top BY <2>1, <3>2
    <3>. QED BY <3>1, <3>2
  <2>. QED BY <2>1, <2>2, <2>4
<1>2. Types'
  BY <1>1 DEF Types
<1>3. \A i \in 1 .. Len(scopes) : IsHome(i)' = IsHome(i)
  BY <1>1 DEF IsHome
<1>4. Levels'
  BY <1>1, <1>3, LevelsKept
<1>5. GivenSlots'
  BY <1>1, <1>3 DEF GivenSlots
<1>6. OwnSlots'
  BY <1>1 DEF OwnSlots, OwnSlot
<1>7. PlainConstants'
  BY <1>1 DEF PlainConstants
<1>8. ReferencesReachTheirVariable'
  BY DEF ReferencesReachTheirVariable
<1>. QED BY <1>1, <1>2, <1>4, <1>5, <1>6, <1>7, <1>8

(* What a reference from routine k has to satisfy. *)
Reaches(k, r) ==
    /\ r.upcount \in 0 .. k - 1
    /\ r.index \in Slots
    /\ r.var # Unowned
    /\ routines[k - r.upcount].owner[r.index] = r.var

(* The routine being parsed changes, its slots do not. *)
LEMMA RoutineChanged ==
    ASSUME Core, NEW r \in RoutineType, r.owner = Routine.owner,
           \A q \in r.refs : Reaches(Len(routines), q),
           scopes' = scopes, routines' = InRoutine(r), declared' = declared
    PROVE  Core' /\ Len(routines') = Len(routines)
<1>. USE DEF Core
<1>1. Len(routines) \in 1 .. Len(routines) /\ routines \in Seq(RoutineType)
  BY Shape DEF Types
<1>2. /\ Len(routines') = Len(routines) /\ DOMAIN routines' = 1 .. Len(routines)
      /\ DOMAIN routines = 1 .. Len(routines)
      /\ routines' \in Seq(RoutineType)
      /\ \A k \in 1 .. Len(routines) :
            /\ routines'[k].owner = routines[k].owner
            /\ k # Len(routines) => routines'[k] = routines[k]
      /\ routines'[Len(routines)] = r
  BY <1>1 DEF InRoutine, Routine
<1>3. \A i \in 1 .. Len(scopes) : scopes[i].level + 1 \in 1 .. Len(routines)
  BY Shape
<1>4. Types' /\ Levels'
  BY <1>2 DEF Types, Levels, Table, Top, IsHome
<1>5. GivenSlots' /\ OwnSlots' /\ PlainConstants'
  <2>1. GivenSlots'
    BY <1>2, <1>3 DEF GivenSlots, IsHome
  <2>2. OwnSlots'
    <3>1. ASSUME NEW i \in 1 .. Len(scopes), NEW n \in Name
          PROVE  OwnSlot(i, scopes[i].symbols[n])'
      <4>1. OwnSlot(i, scopes[i].symbols[n]) BY DEF OwnSlots
      <4>2. routines'[scopes[i].level + 1].owner = routines[scopes[i].level + 1].owner
        BY <1>2, <1>3
      <4>. QED BY <4>1, <4>2 DEF OwnSlot
    <3>. QED BY <3>1 DEF OwnSlots
  <2>. QED BY <2>1, <2>2 DEF PlainConstants
<1>6. ReferencesReachTheirVariable'
  <2>1. ASSUME NEW k \in 1 .. Len(routines), NEW q \in routines'[k].refs
        PROVE  Reaches(k, q)
    <3>1. CASE k = Len(routines) BY <1>2, <3>1
    <3>2. CASE k # Len(routines)
      BY ZenonT(60), <1>2, <3>2 DEF Reaches, ReferencesReachTheirVariable
    <3>. QED BY <3>1, <3>2
  <2>2. ASSUME NEW k \in 1 .. Len(routines), NEW q \in routines'[k].refs
        PROVE  /\ q.upcount \in 0 .. k - 1 /\ q.index \in Slots /\ q.var # Unowned
               /\ routines'[k - q.upcount].owner[q.index] = q.var
    <3>1. Reaches(k, q)
      BY <2>1
    <3>2. k - q.upcount \in 1 .. Len(routines)
      BY <3>1 DEF Reaches
    <3>3. routines'[k - q.upcount].owner = routines[k - q.upcount].owner
      BY <1>2, <3>2
    <3>. QED BY <3>1, <3>3 DEF Reaches
  <2>. QED BY ZenonT(60), <1>2, <2>2 DEF ReferencesReachTheirVariable
<1>. QED BY <1>2, <1>4, <1>5, <1>6

(* A variable is declared in the current table: symbol_define gives it the *)
(* next slot of the routine, which nothing has been given before.          *)
LEMMA VariableDeclared ==
    ASSUME Core, NEW n \in Name, NEW arg \in BOOLEAN, CanDeclare,
           scopes' = DefinedVariable(n), routines' = InRoutine(WithVariable(arg)),
           declared' = declared + 1
    PROVE  /\ Core' /\ Len(scopes') = Len(scopes) /\ Len(routines') = Len(routines)
           /\ \A i \in 1 .. Len(scopes) :
                 /\ scopes'[i].level = scopes[i].level /\ IsHome(i)' = IsHome(i)
                 /\ scopes'[i].next_index =
                       IF i = Home THEN scopes[i].next_index + 1 ELSE scopes[i].next_index
           /\ LET r == WithVariable(arg) IN
              /\ r.owner = [Routine.owner EXCEPT ![scopes[Home].next_index] = declared + 1]
              /\ r.arity = IF arg THEN Routine.arity + 1 ELSE Routine.arity
              /\ r.args = IF arg THEN Routine.args \cup {declared + 1} ELSE Routine.args
              /\ r.formals = Routine.formals /\ r.cc = Routine.cc /\ r.inner = Routine.inner
<1>. USE DEF Core
<1>x. PICK x : x = scopes[Home].next_index
  OBVIOUS
<1>L. PICK L : L = Len(routines)
  OBVIOUS
<1>v. PICK v : v = declared + 1
  OBVIOUS
<1>1. /\ Home \in 1 .. Len(scopes) /\ scopes[Home].level + 1 = L /\ IsHome(Home)
      /\ \A i \in 1 .. Len(scopes) : IsHome(i) /\ scopes[i].level + 1 = L => i = Home
  <2>1. L = Table.level + 1 /\ Table.level \in Nat
    BY <1>L, Shape DEF Levels, Table
  <2>. QED BY <2>1, HomeIsHome, Shape
<1>2. /\ x \in Slots /\ x \in Nat /\ x + 1 \in 0 .. SlotBound /\ v \in Nat /\ v # Unowned
  <2>1. scopes[Home] \in TableType
    BY <1>1, Shape
  <2>2. x \in 0 .. SlotBound
    BY <1>x, <2>1 DEF TableType
  <2>3. x < SlotBound /\ SlotBound \in Nat /\ declared \in Nat
    BY <1>x, BoundsAssumption DEF CanDeclare, Types
  <2>. QED BY <1>v, <2>2, <2>3 DEF Slots, Unowned
<1>3. /\ Routine \in RoutineType /\ Routine = routines[L] /\ Routine.owner[x] = Unowned
      /\ Routine.owner \in [Slots -> Nat]
  <2>1. Routine \in RoutineType /\ Routine = routines[L]
    BY <1>L, Shape DEF Routine
  <2>2. Routine.owner[x] # Unowned => x < x
    BY <1>x, <1>1, <1>2, <2>1 DEF GivenSlots
  <2>. QED BY <1>2, <2>1, <2>2 DEF RoutineType
<1>4. /\ NewVariable \in Symbol /\ NewVariable.kind = "variable"
      /\ NewVariable.index = x /\ NewVariable.var = v /\ NewVariable.routine = FALSE
  <2>1. NewVariable = [kind |-> "variable", index |-> x, var |-> v,
                       routine |-> FALSE, refs |-> {}]
    BY <1>x, <1>v DEF NewVariable
  <2>2. x \in Int /\ v \in Nat /\ {} \in SUBSET Ref
    BY <1>2
  <2>3. NewVariable \in Symbol
    BY <2>1, <2>2 DEF Symbol
  <2>. QED BY <2>1, <2>3
<1>5. RefTo(Top, NewVariable) = [upcount |-> 0, index |-> x, var |-> v]
  BY <1>4, Shape DEF RefTo, Upcount, Table
<1>6. /\ WithVariable(arg) \in RoutineType
      /\ WithVariable(arg).owner = [Routine.owner EXCEPT ![x] = v]
      /\ WithVariable(arg).refs = Routine.refs \cup {[upcount |-> 0, index |-> x, var |-> v]}
      /\ WithVariable(arg).arity = IF arg THEN Routine.arity + 1 ELSE Routine.arity
      /\ WithVariable(arg).args = IF arg THEN Routine.args \cup {v} ELSE Routine.args
      /\ WithVariable(arg).formals = Routine.formals /\ WithVariable(arg).cc = Routine.cc
      /\ WithVariable(arg).inner = Routine.inner
  <2>1. WithVariable(arg) = [Routine EXCEPT
            !.owner = [Routine.owner EXCEPT ![x] = v],
            !.refs = Routine.refs \cup {[upcount |-> 0, index |-> x, var |-> v]},
            !.arity = IF arg THEN Routine.arity + 1 ELSE Routine.arity,
            !.args = IF arg THEN Routine.args \cup {v} ELSE Routine.args]
    BY <1>3, <1>4, <1>5 DEF WithVariable, RoutineType
  <2>2. [upcount |-> 0, index |-> x, var |-> v] \in Ref
    BY <1>2 DEF Ref
  <2>3. [Routine.owner EXCEPT ![x] = v] \in [Slots -> Nat]
    BY <1>2, <1>3
  <2>4. /\ Routine.refs \cup {[upcount |-> 0, index |-> x, var |-> v]} \in SUBSET Ref
        /\ (IF arg THEN Routine.arity + 1 ELSE Routine.arity) \in Nat
        /\ (IF arg THEN Routine.args \cup {v} ELSE Routine.args) \in SUBSET Nat
    BY <1>2, <1>3, <2>2 DEF RoutineType
  <2>5. WithVariable(arg) \in RoutineType
    BY <1>3, <2>1, <2>3, <2>4 DEF RoutineType
  <2>6. /\ WithVariable(arg).owner = [Routine.owner EXCEPT ![x] = v]
        /\ WithVariable(arg).refs = Routine.refs \cup {[upcount |-> 0, index |-> x, var |-> v]}
        /\ WithVariable(arg).arity = IF arg THEN Routine.arity + 1 ELSE Routine.arity
        /\ WithVariable(arg).args = IF arg THEN Routine.args \cup {v} ELSE Routine.args
        /\ WithVariable(arg).formals = Routine.formals /\ WithVariable(arg).cc = Routine.cc
        /\ WithVariable(arg).inner = Routine.inner
    BY <1>3, <2>1 DEF RoutineType
  <2>. QED BY <2>5, <2>6
<1>7. /\ Len(routines') = L /\ DOMAIN routines' = 1 .. L /\ DOMAIN routines = 1 .. L
      /\ routines' \in Seq(RoutineType) /\ L \in 1 .. L /\ L \in Nat
      /\ routines'[L] = WithVariable(arg)
      /\ \A k \in 1 .. L : k # L => routines'[k] = routines[k]
  <2>1. L \in 1 .. L /\ L \in Nat /\ DOMAIN routines = 1 .. L /\ routines \in Seq(RoutineType)
    BY <1>L, Shape DEF Types
  <2>2. routines' = [routines EXCEPT ![L] = WithVariable(arg)]
    BY <1>L DEF InRoutine
  <2>. QED BY <1>6, <1>L, <2>1, <2>2
<1>8. \A k \in 1 .. L : \A y \in Slots :
          /\ routines[k].owner[y] # Unowned => routines'[k].owner[y] = routines[k].owner[y]
          /\ routines'[k].owner[y] # Unowned /\ ~(k = L /\ y = x)
                => routines[k].owner[y] # Unowned
  <2>1. ASSUME NEW k \in 1 .. L, NEW y \in Slots
        PROVE  /\ routines[k].owner[y] # Unowned => routines'[k].owner[y] = routines[k].owner[y]
               /\ routines'[k].owner[y] # Unowned /\ ~(k = L /\ y = x)
                     => routines[k].owner[y] # Unowned
    <3>1. CASE k # L BY <1>7, <3>1
    <3>2. CASE k = L /\ y = x BY <1>3, <3>2
    <3>3. CASE k = L /\ y # x BY <1>3, <1>6, <1>7, <3>3
    <3>. QED BY <3>1, <3>2, <3>3
  <2>. QED BY <2>1
<1>9. routines'[L].owner[x] = v
  BY <1>2, <1>3, <1>6, <1>7
<1>10. /\ Len(scopes') = Len(scopes) /\ DOMAIN scopes' = 1 .. Len(scopes)
       /\ scopes' \in Seq(TableType)
       /\ \A i \in 1 .. Len(scopes) :
             /\ scopes'[i].level = scopes[i].level
             /\ scopes'[i].next_index = IF i = Home THEN x + 1 ELSE scopes[i].next_index
             /\ \A m \in Name :
                        \/ scopes'[i].symbols[m] = scopes[i].symbols[m]
                        \/ scopes'[i].symbols[m] = NewVariable /\ i = Top
  <2>1. ASSUME NEW i \in 1 .. Len(scopes)
        PROVE  /\ scopes'[i] \in TableType
               /\ scopes'[i].level = scopes[i].level
               /\ scopes'[i].next_index = IF i = Home THEN x + 1 ELSE scopes[i].next_index
               /\ \A m \in Name :
                        \/ scopes'[i].symbols[m] = scopes[i].symbols[m]
                        \/ scopes'[i].symbols[m] = NewVariable /\ i = Top
    <3>1. scopes[i] \in TableType
      BY Shape
    <3>2. scopes'[i] = [scopes[i] EXCEPT
              !.next_index = IF i = Home THEN scopes[i].next_index + 1 ELSE scopes[i].next_index,
              !.symbols = IF i = Top THEN [scopes[i].symbols EXCEPT ![n] = NewVariable]
                                     ELSE scopes[i].symbols]
      BY Shape DEF DefinedVariable
    <3>3. scopes'[i] = [scopes[i] EXCEPT
              !.next_index = IF i = Home THEN x + 1 ELSE scopes[i].next_index,
              !.symbols = IF i = Top THEN [scopes[i].symbols EXCEPT ![n] = NewVariable]
                                     ELSE scopes[i].symbols]
      BY <1>x, <3>2
    <3>. DEFINE f == [scopes[i].symbols EXCEPT ![n] = NewVariable]
    <3>4. f \in [Name -> Symbol] /\ \A m \in Name : f[m] \in {scopes[i].symbols[m], NewVariable}
      BY <1>4, <3>1 DEF TableType
    <3>a. scopes[i].symbols \in [Name -> Symbol] /\ scopes[i].next_index \in 0 .. SlotBound
      BY <3>1 DEF TableType
    <3>. HIDE DEF f
    <3>b. scopes'[i] = [scopes[i] EXCEPT
              !.next_index = IF i = Home THEN x + 1 ELSE scopes[i].next_index,
              !.symbols = IF i = Top THEN f ELSE scopes[i].symbols]
      BY <3>3 DEF f
    <3>c. /\ (IF i = Home THEN x + 1 ELSE scopes[i].next_index) \in 0 .. SlotBound
          /\ (IF i = Top THEN f ELSE scopes[i].symbols) \in [Name -> Symbol]
      BY <1>2, <3>4, <3>a
    <3>5. scopes'[i] \in TableType
      BY <3>1, <3>b, <3>c DEF TableType
    <3>6. /\ scopes'[i].level = scopes[i].level
          /\ scopes'[i].next_index = IF i = Home THEN x + 1 ELSE scopes[i].next_index
          /\ scopes'[i].symbols = IF i = Top THEN f ELSE scopes[i].symbols
      BY <3>1, <3>b DEF TableType
    <3>7. \A m \in Name :
                        \/ scopes'[i].symbols[m] = scopes[i].symbols[m]
                        \/ scopes'[i].symbols[m] = NewVariable /\ i = Top
      <4>1. CASE i = Top BY <3>4, <3>6, <4>1
      <4>2. CASE i # Top BY <3>6, <4>2
      <4>. QED BY <4>1, <4>2
    <3>. QED BY <3>5, <3>6, <3>7
  <2>2. DOMAIN scopes' = 1 .. Len(scopes)
    BY Shape DEF DefinedVariable
  <2>3. scopes' = [i \in 1 .. Len(scopes) |-> scopes'[i]]
    BY <2>2, Shape DEF DefinedVariable
  <2>. QED BY <2>1, <2>2, <2>3, Shape
<1>11. \A i \in 1 .. Len(scopes) : IsHome(i)' = IsHome(i)
  <2>1. ASSUME NEW i \in 1 .. Len(scopes) PROVE IsHome(i)' = IsHome(i)
    <3>1. i # 1 => i - 1 \in 1 .. Len(scopes)
      BY Shape
    <3>2. \A j \in 1 .. Len(scopes) : scopes'[j].level = scopes[j].level
      BY <1>10
    <3>3. i # 1 => scopes'[i - 1].level = scopes[i - 1].level
      BY <3>1, <3>2
    <3>4. scopes'[i].level = scopes[i].level
      BY <3>2
    <3>. QED BY <3>3, <3>4 DEF IsHome
  <2>. QED BY <2>1
<1>12. Types'
  BY <1>2, <1>v, <1>7, <1>10 DEF Types
<1>13. Levels'
  BY <1>L, <1>7, <1>10, <1>11, LevelsKept
<1>14. GivenSlots'
  <2>1. ASSUME NEW i \in 1 .. Len(scopes), NEW y \in Slots, IsHome(i),
               routines'[scopes[i].level + 1].owner[y] # Unowned
        PROVE  y < scopes'[i].next_index
    <3>1. CASE i = Home
      <4>1. y = x \/ y < x
        BY <1>x, <1>1, <1>7, <1>8, <2>1, <3>1 DEF GivenSlots
      <4>. QED BY <1>2, <1>10, <3>1, <4>1 DEF Slots
    <3>2. CASE i # Home
      <4>1. scopes[i].level + 1 # L /\ scopes[i].level + 1 \in 1 .. L
        BY <1>L, <1>1, <2>1, <3>2, Shape
      <4>. QED BY <1>8, <1>10, <2>1, <3>2, <4>1 DEF GivenSlots
    <3>. QED BY <3>1, <3>2
  <2>. QED BY <1>10, <1>11, <2>1 DEF GivenSlots
<1>15. OwnSlots'
  <2>1. ASSUME NEW i \in 1 .. Len(scopes), NEW m \in Name
        PROVE  OwnSlot(i, scopes[i].symbols[m])'
    <3>1. scopes[i].level + 1 \in 1 .. L /\ scopes[Top].level + 1 = L
      BY <1>L, Shape DEF Levels, Table
    <3>2. CASE scopes'[i].symbols[m] = scopes[i].symbols[m]
      <4>1. OwnSlot(i, scopes[i].symbols[m]) BY DEF OwnSlots
      <4>. QED BY <1>8, <1>10, <3>1, <3>2, <4>1 DEF OwnSlot
    <3>3. CASE scopes'[i].symbols[m] = NewVariable /\ i = Top
      BY <1>2, <1>4, <1>9, <1>10, <3>1, <3>3 DEF OwnSlot
    <3>. QED BY <1>10, <3>2, <3>3
  <2>. QED BY <1>10, <2>1 DEF OwnSlots
<1>16. PlainConstants'
  BY <1>4, <1>10 DEF PlainConstants
<1>17. ReferencesReachTheirVariable'
  <2>1. ASSUME NEW k \in 1 .. L, NEW q \in routines'[k].refs
        PROVE  /\ q.upcount \in 0 .. k - 1 /\ q.index \in Slots /\ q.var # Unowned
               /\ routines'[k - q.upcount].owner[q.index] = q.var
    <3>1. CASE q \in routines[k].refs
      <4>1. Reaches(k, q)
        BY <1>7, <3>1 DEF ReferencesReachTheirVariable, Reaches
      <4>2. k - q.upcount \in 1 .. L
        BY <1>7, <4>1 DEF Reaches
      <4>. QED BY <1>8, <4>1, <4>2 DEF Reaches
    <3>2. CASE k = L /\ q = [upcount |-> 0, index |-> x, var |-> v]
      BY <1>2, <1>7, <1>9, <3>2
    <3>. QED BY <1>3, <1>6, <1>7, <3>1, <3>2
  <2>. QED BY <1>7, <2>1 DEF ReferencesReachTheirVariable
<1>18. Core' /\ Len(scopes') = Len(scopes) /\ Len(routines') = Len(routines)
  BY <1>7, <1>10, <1>12, <1>13, <1>14, <1>15, <1>16, <1>17, <1>L
<1>. QED BY <1>x, <1>v, <1>6, <1>10, <1>11, <1>18

(* A table is opened: at the level of the current one for a block, one     *)
(* above it for a routine, whose slots are not given away yet.             *)
LEMMA TableOpened ==
    ASSUME Core, NEW t \in TableType, \A n \in Name : t.symbols[n] = NoSymbol,
           t.level \in {Table.level, Table.level + 1},
           scopes' = Append(scopes, t), declared' = declared,
           routines' \in Seq(RoutineType), Len(routines') = t.level + 1,
           \A k \in 1 .. Len(routines) :
               /\ routines'[k].owner = routines[k].owner
               /\ routines'[k].refs = routines[k].refs,
           \A k \in 1 .. Len(routines') : k > Len(routines) =>
               /\ routines'[k].owner = [x \in Slots |-> Unowned]
               /\ routines'[k].refs = {}
    PROVE  Core'
<1>. USE DEF Core
<1>N. PICK N : N = Len(scopes)
  OBVIOUS
<1>L. PICK L : L = Len(routines)
  OBVIOUS
<1>1. /\ N \in Nat /\ N \in 1 .. N /\ N >= 1 /\ Top = N /\ Table = scopes[N]
      /\ L \in Nat /\ scopes \in Seq(TableType) /\ L = scopes[N].level + 1
      /\ DOMAIN routines = 1 .. L
  BY <1>N, <1>L, Shape DEF Top, Table, Types, Levels
<1>e. /\ \A i \in 1 .. N + 1 : i \in 1 .. N \/ i = N + 1
      /\ \A i \in 2 .. N + 1 : i \in 2 .. N \/ i = N + 1
      /\ 1 .. N \subseteq 1 .. N + 1 /\ N + 1 \in 1 .. N + 1
  <2>1. N \in Nat /\ N >= 1 BY <1>1
  <2>. QED BY <2>1
<1>2. \A i \in 1 .. N : /\ scopes[i] \in TableType /\ scopes[i].level \in Nat
                        /\ scopes[i].level + 1 \in 1 .. L
                        /\ scopes[i].level <= scopes[N].level
  BY <1>N, <1>L, <1>1, Shape DEF Levels
<1>3. /\ scopes' \in Seq(TableType) /\ Len(scopes') = N + 1
      /\ DOMAIN scopes' = 1 .. N + 1
      /\ scopes'[N + 1] = t /\ \A i \in 1 .. N : scopes'[i] = scopes[i]
  BY <1>N, <1>1
<1>4. /\ Len(routines') \in {L, L + 1} /\ DOMAIN routines' = 1 .. Len(routines')
      /\ L \in 1 .. L /\ t.level \in Nat
  BY <1>1, <1>2
<1>5. \A i \in 1 .. N : IsHome(i)' = IsHome(i)
  <2>1. \A i \in 1 .. N : i = 1 \/ i - 1 \in 1 .. N
    BY <1>1
  <2>. QED BY <1>3, <2>1 DEF IsHome
<1>6. IsHome(N + 1)' = (t.level # scopes[N].level)
  BY <1>1, <1>3 DEF IsHome
<1>7. Types'
  BY <1>1, <1>3 DEF Types
<1>8. Levels'
  <2>1. scopes'[1].level = 0
    BY <1>1, <1>3 DEF Levels
  <2>2. \A i, j \in 1 .. N + 1 : i < j => scopes'[i].level <= scopes'[j].level
    <3>1. ASSUME NEW i \in 1 .. N + 1, NEW j \in 1 .. N + 1, i < j
          PROVE  scopes'[i].level <= scopes'[j].level
      <4>1. CASE j \in 1 .. N
        <5>1. i \in 1 .. N BY <1>1, <3>1, <4>1
        <5>. QED BY <1>N, <1>3, <3>1, <4>1, <5>1 DEF Levels
      <4>2. CASE j = N + 1
        <5>1. i \in 1 .. N BY <1>1, <3>1, <4>2
        <5>2. scopes[i].level <= scopes[N].level /\ scopes[i].level \in Nat
              /\ scopes[N].level \in Nat
          BY <1>1, <1>2, <5>1
        <5>. QED BY SMTT(30), <1>1, <1>3, <4>2, <5>1, <5>2
      <4>. QED BY <1>e, <4>1, <4>2
    <3>. QED BY <3>1
  <2>3. \A i \in 2 .. N + 1 : scopes'[i].level <= scopes'[i - 1].level + 1
    <3>1. ASSUME NEW i \in 2 .. N + 1
          PROVE  scopes'[i].level <= scopes'[i - 1].level + 1
      <4>1. CASE i \in 2 .. N
        <5>1. i \in 1 .. N /\ i - 1 \in 1 .. N BY <1>1, <4>1
        <5>. QED BY <1>N, <1>3, <4>1, <5>1 DEF Levels
      <4>2. CASE i = N + 1
        <5>1. scopes'[i] = t /\ scopes'[i - 1] = scopes[N] /\ scopes[N].level \in Nat
          BY <1>1, <1>2, <1>3, <4>2
        <5>2. t.level \in {scopes[N].level, scopes[N].level + 1}
          BY <1>1
        <5>. QED BY <5>1, <5>2
      <4>. QED BY <1>e, <4>1, <4>2
    <3>. QED BY <3>1
  <2>4. \A j \in 1 .. N + 1 : \E i \in 1 .. j :
            IsHome(i)' /\ scopes'[i].level = scopes'[j].level
    <3>1. ASSUME NEW j \in 1 .. N
          PROVE  \E i \in 1 .. j : /\ i \in 1 .. N /\ IsHome(i)'
                                   /\ scopes'[i].level = scopes'[j].level
      <4>1. PICK i \in 1 .. j : IsHome(i) /\ scopes[i].level = scopes[j].level
        BY <1>N DEF Levels
      <4>2. i \in 1 .. N BY <1>1
      <4>. QED BY <1>3, <1>5, <4>1, <4>2
    <3>2. CASE t.level = scopes[N].level
      <4>1. PICK i \in 1 .. N : IsHome(i)' /\ scopes'[i].level = scopes'[N].level
        BY <1>1, <3>1
      <4>2. i \in 1 .. N + 1 /\ scopes'[i].level = scopes'[N + 1].level
        BY <1>1, <1>3, <3>2, <4>1
      <4>3. \E k \in 1 .. N + 1 : IsHome(k)' /\ scopes'[k].level = scopes'[N + 1].level
        BY <4>1, <4>2
      <4>. QED BY <1>e, <3>1, <4>3
    <3>3. CASE t.level # scopes[N].level
      <4>1. N + 1 \in 1 .. N + 1 /\ IsHome(N + 1)'
        BY <1>e, <1>6, <3>3
      <4>. QED BY <1>e, <3>1, <4>1
    <3>. QED BY <3>2, <3>3
  <2>5. Len(routines') = Table'.level + 1
    BY <1>3 DEF Table, Top
  <2>. QED BY <1>3, <2>1, <2>2, <2>3, <2>4, <2>5 DEF Levels
<1>9. GivenSlots'
  <2>1. ASSUME NEW i \in 1 .. N + 1, NEW x \in Slots, IsHome(i)',
               routines'[scopes'[i].level + 1].owner[x] # Unowned
        PROVE  x < scopes'[i].next_index
    <3>1. CASE i \in 1 .. N
      BY <1>N, <1>L, <1>2, <1>3, <1>5, <2>1, <3>1 DEF GivenSlots
    <3>2. CASE i = N + 1
      <4>1. t.level = L
        BY <1>1, <1>2, <1>6, <2>1, <3>2
      <4>2. L + 1 \in 1 .. Len(routines') /\ L + 1 > L
        BY <1>4, <4>1
      <4>3. routines'[L + 1].owner = [y \in Slots |-> Unowned]
        BY <1>L, <4>2
      <4>. QED BY <1>3, <2>1, <3>2, <4>1, <4>3
    <3>. QED BY <1>e, <3>1, <3>2
  <2>. QED BY <1>3, <2>1 DEF GivenSlots
<1>10. OwnSlots' /\ PlainConstants'
  <2>1. ASSUME NEW i \in 1 .. N + 1, NEW n \in Name
        PROVE  OwnSlot(i, scopes[i].symbols[n])' /\ ~scopes'[i].symbols[n].routine
    <3>1. CASE i \in 1 .. N
      <4>1. OwnSlot(i, scopes[i].symbols[n]) /\ ~scopes[i].symbols[n].routine
        BY <1>N, <3>1 DEF OwnSlots, PlainConstants
      <4>2. /\ scopes'[i] = scopes[i]
            /\ routines'[scopes[i].level + 1].owner = routines[scopes[i].level + 1].owner
        BY <1>L, <1>2, <1>3, <3>1
      <4>. QED BY <4>1, <4>2 DEF OwnSlot
    <3>2. CASE i = N + 1
      BY <1>3, <3>2 DEF OwnSlot, NoSymbol
    <3>. QED BY <1>e, <3>1, <3>2
  <2>. QED BY <1>3, <2>1 DEF OwnSlots, PlainConstants
<1>11. ReferencesReachTheirVariable'
  <2>1. ASSUME NEW k \in 1 .. Len(routines'), NEW q \in routines'[k].refs
        PROVE  /\ q.upcount \in 0 .. k - 1 /\ q.index \in Slots /\ q.var # Unowned
               /\ routines'[k - q.upcount].owner[q.index] = q.var
    <3>1. k \in 1 .. L
      BY <1>L, <1>1, <1>4, <2>1
    <3>2. Reaches(k, q)
      BY ZenonT(60), <1>L, <1>1, <2>1, <3>1 DEF ReferencesReachTheirVariable, Reaches
    <3>3. k - q.upcount \in 1 .. L
      BY SMTT(30), <1>1, <3>1, <3>2 DEF Reaches
    <3>. QED BY <1>L, <3>2, <3>3 DEF Reaches
  <2>. QED BY <1>4, <2>1 DEF ReferencesReachTheirVariable
<1>. QED BY <1>7, <1>8, <1>9, <1>10, <1>11

(* The current table is closed, with the routine if it was opened for one. *)
LEMMA TableClosed ==
    ASSUME Core, Top > 1,
           scopes' = SubSeq(scopes, 1, Top - 1), declared' = declared,
           routines' \in Seq(RoutineType), Len(routines') = scopes[Top - 1].level + 1,
           \A k \in 1 .. Len(routines') :
               /\ routines'[k].owner = routines[k].owner
               /\ \A q \in routines'[k].refs : Reaches(k, q)
    PROVE  Core'
<1>. USE DEF Core
<1>N. PICK N : N = Len(scopes) - 1
  OBVIOUS
<1>L. PICK L : L = Len(routines')
  OBVIOUS
<1>1. /\ N \in Nat /\ N >= 1 /\ Len(scopes) = N + 1 /\ Top = N + 1
      /\ scopes \in Seq(TableType) /\ scopes' = SubSeq(scopes, 1, N)
      /\ L = scopes[N].level + 1
  BY <1>N, <1>L, Shape DEF Top, Types
<1>2. /\ N \in 1 .. N
      /\ \A i \in 1 .. N : i \in 1 .. Len(scopes)
      /\ \A i \in 2 .. N : i \in 2 .. Len(scopes) /\ i \in 1 .. N /\ i - 1 \in 1 .. N
      /\ \A j \in 1 .. N : \A i \in 1 .. j : i \in 1 .. N
      /\ \A i \in 1 .. N : i = 1 \/ i - 1 \in 1 .. N
  BY <1>1
<1>3. /\ scopes' \in Seq(TableType) /\ Len(scopes') = N /\ DOMAIN scopes' = 1 .. N
      /\ \A i \in 1 .. N : scopes'[i] = scopes[i]
  BY <1>1
<1>4. \A i \in 1 .. N : IsHome(i)' = IsHome(i)
  BY <1>2, <1>3 DEF IsHome
<1>5. \A i \in 1 .. N : /\ scopes[i].level \in Nat
                        /\ scopes[i].level + 1 \in 1 .. L
  <2>1. \A i \in 1 .. N : scopes[i].level \in Nat
    BY <1>2, Shape
  <2>2. \A i \in 1 .. N : scopes[i].level <= scopes[N].level
    BY <1>1, <1>2, <2>1 DEF Levels
  <2>. QED BY <1>1, <1>2, <2>1, <2>2
<1>6. Types'
  BY <1>1, <1>3 DEF Types
<1>7. Levels'
  <2>1. /\ scopes'[1].level = 0
        /\ \A i, j \in 1 .. N : i < j => scopes'[i].level <= scopes'[j].level
        /\ \A i \in 2 .. N : scopes'[i].level <= scopes'[i - 1].level + 1
    BY <1>1, <1>2, <1>3 DEF Levels
  <2>2. \A j \in 1 .. N : \E i \in 1 .. j : IsHome(i)' /\ scopes'[i].level = scopes'[j].level
    <3>1. \A j \in 1 .. N : \E i \in 1 .. j :
              i \in 1 .. N /\ IsHome(i) /\ scopes[i].level = scopes[j].level
      BY <1>2 DEF Levels
    <3>. QED BY <1>3, <1>4, <3>1
  <2>3. Len(routines') = Table'.level + 1
    BY <1>L, <1>1, <1>2, <1>3 DEF Table, Top
  <2>. QED BY <1>3, <2>1, <2>2, <2>3 DEF Levels
<1>8. GivenSlots'
  <2>1. ASSUME NEW i \in 1 .. N, NEW x \in Slots, IsHome(i),
               routines'[scopes[i].level + 1].owner[x] # Unowned
        PROVE  x < scopes[i].next_index
    <3>1. routines'[scopes[i].level + 1].owner = routines[scopes[i].level + 1].owner
      BY <1>L, <1>5
    <3>. QED BY <1>2, <2>1, <3>1 DEF GivenSlots
  <2>. QED BY <1>3, <1>4, <2>1 DEF GivenSlots
<1>9. OwnSlots' /\ PlainConstants'
  <2>1. ASSUME NEW i \in 1 .. N, NEW n \in Name
        PROVE  OwnSlot(i, scopes[i].symbols[n])' /\ ~scopes'[i].symbols[n].routine
    <3>1. OwnSlot(i, scopes[i].symbols[n]) /\ ~scopes[i].symbols[n].routine
      BY <1>2 DEF OwnSlots, PlainConstants
    <3>2. /\ scopes'[i] = scopes[i]
          /\ routines'[scopes[i].level + 1].owner = routines[scopes[i].level + 1].owner
      BY <1>L, <1>3, <1>5
    <3>. QED BY <3>1, <3>2 DEF OwnSlot
  <2>. QED BY <1>3, <2>1 DEF OwnSlots, PlainConstants
<1>10. ReferencesReachTheirVariable'
  <2>0. DOMAIN routines' = 1 .. L /\ L \in Nat
    BY <1>L, <1>2, <1>5
  <2>1. ASSUME NEW k \in 1 .. L, NEW q \in routines'[k].refs
        PROVE  /\ q.upcount \in 0 .. k - 1 /\ q.index \in Slots /\ q.var # Unowned
               /\ routines'[k - q.upcount].owner[q.index] = q.var
    <3>1. Reaches(k, q)
      BY <1>L, <2>1
    <3>2. k - q.upcount \in 1 .. L
      BY <2>0, <3>1 DEF Reaches
    <3>. QED BY <1>L, <3>1, <3>2 DEF Reaches
  <2>. QED BY <2>0, <2>1 DEF ReferencesReachTheirVariable
<1>. QED BY <1>6, <1>7, <1>8, <1>9, <1>10

(* Two routines: a reference from the inner one that goes further than its *)
(* own record reaches the same variable, one record less up, from the      *)
(* outer one.                                                              *)
LEMMA SeenOutsideReaches ==
    ASSUME Core, NEW k \in 2 .. Len(routines), NEW refs \in SUBSET Ref,
           \A q \in refs : Reaches(k, q)
    PROVE  /\ SeenOutside(refs) \in SUBSET Ref
           /\ \A q \in SeenOutside(refs) : Reaches(k - 1, q)
<1>1. ASSUME NEW q \in refs, q.upcount > 0
      PROVE  LET p == [q EXCEPT !.upcount = @ - 1]
             IN  p \in Ref /\ Reaches(k - 1, p)
  <2>1. q \in Ref /\ Reaches(k, q)
    OBVIOUS
  <2>2. Len(routines) \in Nat
    BY Shape DEF Core
  <2>. DEFINE p == [q EXCEPT !.upcount = @ - 1]
  <2>3. /\ p \in Ref /\ p.upcount = q.upcount - 1 /\ p.index = q.index /\ p.var = q.var
    BY <2>1 DEF Ref
  <2>. HIDE DEF p
  <2>4. /\ p.upcount \in 0 .. (k - 1) - 1 /\ (k - 1) - p.upcount = k - q.upcount
    BY <1>1, <2>1, <2>2, <2>3 DEF Reaches
  <2>5. p \in Ref /\ Reaches(k - 1, p)
    BY <2>1, <2>3, <2>4 DEF Reaches
  <2>. QED BY <2>5 DEF p
<1>. QED BY <1>1 DEF SeenOutside

LEMMA RoutineReaches ==
    ASSUME Core
    PROVE  /\ Routine \in RoutineType
           /\ \A q \in Routine.refs : Reaches(Len(routines), q)
<1>1. Len(routines) \in DOMAIN routines /\ Routine \in RoutineType
  BY Shape DEF Core, Routine
<1>. QED BY <1>1 DEF Core, Routine, ReferencesReachTheirVariable, Reaches

LEMMA CoreKept ==
    ASSUME Core, UNCHANGED <<scopes, routines, declared>>
    PROVE  Core'
BY DEF Core, Types, Levels, GivenSlots, OwnSlots, OwnSlot, PlainConstants,
       ReferencesReachTheirVariable, IsHome, Table, Top

LEMMA PlainSymbols ==
    /\ NoSymbol \in Symbol /\ NoSymbol.kind = "none" /\ ~NoSymbol.routine
    /\ Constant \in Symbol /\ Constant.kind = "constant" /\ ~Constant.routine
<1>1. {} \in SUBSET Ref /\ -1 \in Int /\ Unowned \in Nat
  BY DEF Unowned
<1>2. NoSymbol \in Symbol /\ NoSymbol.kind = "none" /\ ~NoSymbol.routine
  BY <1>1 DEF NoSymbol, Symbol
<1>3. /\ Constant \in Symbol /\ Constant.kind = "constant" /\ ~Constant.routine
  BY <1>2 DEF Constant, Symbol
<1>. QED BY <1>2, <1>3

(***************************************************************************)
(* Each action preserves Core                                              *)
(***************************************************************************)
LEMMA InitCore ==
    ASSUME Init PROVE Core
<1>. DEFINE t == NewTable(0, [n \in Name |-> IF n \in Predefined THEN Constant ELSE NoSymbol])
            r == NewRoutine(FALSE)
<1>1. /\ t \in TableType /\ t.level = 0 /\ t.next_index = 0
      /\ \A n \in Name : t.symbols[n] \in {Constant, NoSymbol}
  BY PlainSymbols, BoundsAssumption DEF NewTable, TableType
<1>2. /\ r \in RoutineType /\ r.refs = {}
      /\ \A i \in Slots : r.owner[i] = Unowned
  BY DEF NewRoutine, RoutineType, Unowned
<1>3. scopes = <<t>> /\ routines = <<r>> /\ declared = 0
  BY DEF Init
<1>. HIDE DEF t, r
<1>4. /\ Len(scopes) = 1 /\ scopes[1] = t /\ scopes \in Seq(TableType)
      /\ 1 .. Len(scopes) = {1} /\ 2 .. Len(scopes) = {}
  BY <1>1, <1>3
<1>5. /\ Len(routines) = 1 /\ routines[1] = r /\ routines \in Seq(RoutineType)
      /\ DOMAIN routines = {1}
  BY <1>2, <1>3
<1>6. Types /\ Levels /\ GivenSlots
  <2>1. Types
    BY <1>3, <1>4, <1>5 DEF Types
  <2>2. IsHome(1) /\ Len(routines) = Table.level + 1
    BY <1>1, <1>4, <1>5 DEF IsHome, Table, Top
  <2>3. 1 .. 1 = {1}
    OBVIOUS
  <2>4. \A j \in 1 .. Len(scopes) : \E i \in 1 .. j : IsHome(i) /\ scopes[i].level = scopes[j].level
    BY <1>4, <2>2, <2>3
  <2>5. Levels
    BY <1>1, <1>4, <2>2, <2>4 DEF Levels
  <2>6. GivenSlots
    BY <1>1, <1>2, <1>4, <1>5 DEF GivenSlots
  <2>. QED BY <2>1, <2>5, <2>6
<1>7. OwnSlots /\ PlainConstants
  <2>1. ASSUME NEW i \in 1 .. Len(scopes), NEW n \in Name
        PROVE  scopes[i].symbols[n] \in {Constant, NoSymbol}
    BY <1>1, <1>4
  <2>. QED BY <2>1, PlainSymbols DEF OwnSlots, OwnSlot, PlainConstants
<1>8. ReferencesReachTheirVariable
  BY <1>2, <1>5 DEF ReferencesReachTheirVariable
<1>. QED BY <1>6, <1>7, <1>8 DEF Core

LEMMA OpenBlockCore ==
    ASSUME Core, OpenBlock PROVE Core'
<1>. DEFINE t == NewTable(Table.level, [n \in Name |-> NoSymbol])
<1>1. Table.level \in Nat /\ Len(routines) = Table.level + 1
  BY Shape DEF Core, Table, Levels
<1>2. t \in TableType /\ t.level = Table.level /\ \A n \in Name : t.symbols[n] = NoSymbol
  BY <1>1, PlainSymbols, BoundsAssumption DEF NewTable, TableType
<1>3. scopes' = Append(scopes, t) /\ UNCHANGED <<routines, declared>>
  BY DEF OpenBlock
<1>. HIDE DEF t
<1>. QED BY <1>1, <1>2, <1>3, TableOpened DEF Core, Types

LEMMA OpenRoutineCore ==
    ASSUME Core, OpenRoutine PROVE Core'
<1>. DEFINE t == NewTable(Table.level + 1, [n \in Name |-> NoSymbol])
            r == [Routine EXCEPT !.cc = @ + 1]
<1>1. Table.level \in Nat /\ Len(routines) = Table.level + 1
  BY Shape DEF Core, Table, Levels
<1>2. t \in TableType /\ t.level = Table.level + 1 /\ \A n \in Name : t.symbols[n] = NoSymbol
  BY <1>1, PlainSymbols, BoundsAssumption DEF NewTable, TableType
<1>n. PICK new : new = NewRoutine(TRUE)
  OBVIOUS
<1>3. r \in RoutineType /\ r.owner = Routine.owner /\ r.refs = Routine.refs
  BY RoutineReaches DEF RoutineType
<1>4. new \in RoutineType /\ new.refs = {} /\ new.owner = [i \in Slots |-> Unowned]
  BY <1>n DEF NewRoutine, RoutineType, Unowned
<1>5. /\ scopes' = Append(scopes, t) /\ declared' = declared
      /\ routines' = Append([routines EXCEPT ![Len(routines)] = r], new)
  BY <1>n DEF OpenRoutine, InRoutine
<1>. HIDE DEF t, r
<1>L. PICK L : L = Len(routines)
  OBVIOUS
<1>6. L \in Nat /\ L \in 1 .. L /\ routines \in Seq(RoutineType) /\ Routine = routines[L]
  BY <1>L, Shape DEF Core, Types, Routine
<1>7. /\ routines' \in Seq(RoutineType) /\ Len(routines') = L + 1
      /\ \A k \in 1 .. L : /\ routines'[k].owner = routines[k].owner
                           /\ routines'[k].refs = routines[k].refs
      /\ routines'[L + 1] = new
  <2>f. PICK f : f = [routines EXCEPT ![L] = r]
    OBVIOUS
  <2>1. f \in Seq(RoutineType) /\ Len(f) = L
    BY <2>f, <1>L, <1>3, <1>6
  <2>2. \A k \in 1 .. L : f[k].owner = routines[k].owner /\ f[k].refs = routines[k].refs
    BY <2>f, <1>L, <1>3, <1>6
  <2>3. routines' = Append(f, new)
    BY <2>f, <1>L, <1>5
  <2>4. /\ routines' \in Seq(RoutineType) /\ Len(routines') = L + 1
        /\ \A k \in 1 .. L : routines'[k] = f[k]
        /\ routines'[L + 1] = new
    <3>1. routines' \in Seq(RoutineType)
      BY <1>4, <2>1, <2>3
    <3>2. Len(routines') = L + 1 /\ routines'[L + 1] = new
      BY <2>1, <2>3
    <3>3. \A k \in 1 .. L : routines'[k] = f[k]
      BY <1>6, <2>1, <2>3
    <3>. QED BY <3>1, <3>2, <3>3
  <2>. QED BY <2>2, <2>4
<1>8. \A k \in 1 .. Len(routines') : k > L => k = L + 1
  BY <1>6, <1>7
<1>. QED BY <1>L, <1>1, <1>2, <1>4, <1>5, <1>7, <1>8, TableOpened

LEMMA CloseBlockCore ==
    ASSUME Core, CloseBlock PROVE Core'
<1>1. /\ Top \in Nat /\ Top > 1 /\ ~IsHome(Top)
      /\ scopes' = SubSeq(scopes, 1, Top - 1) /\ UNCHANGED <<routines, declared>>
  BY Shape DEF CloseBlock, IsBlock, Core
<1>2. scopes[Top - 1].level = scopes[Top].level
  BY <1>1 DEF IsHome
<1>3. Len(routines) = scopes[Top - 1].level + 1
  BY <1>2 DEF Core, Levels, Table
<1>4. \A k \in 1 .. Len(routines) : \A q \in routines[k].refs : Reaches(k, q)
  BY Shape DEF Core, ReferencesReachTheirVariable, Reaches
<1>. QED BY <1>1, <1>3, <1>4, TableClosed DEF Core, Types

LEMMA CloseRoutineCore ==
    ASSUME Core, CloseRoutine PROVE Core'
<1>L. PICK L : L = Len(routines)
  OBVIOUS
<1>b. PICK b : b = IsConstant(Top - 1)
  OBVIOUS
<1>1. /\ Top \in Nat /\ Top > 1 /\ IsHome(Top) /\ Top = Len(scopes)
      /\ scopes' = SubSeq(scopes, 1, Top - 1) /\ declared' = declared
      /\ routines' = [k \in 1 .. L - 1 |-> IF k = L - 1 /\ ~b
                          THEN WithClosure(routines[k], Routine.refs) ELSE routines[k]]
  BY <1>L, <1>b, Shape DEF CloseRoutine, IsRoutine, Core, Top
<1>2. scopes[Top - 1].level \in Nat /\ scopes[Top].level \in Nat
  <2>1. Top - 1 \in 1 .. Len(scopes) /\ Top \in 1 .. Len(scopes)
    BY <1>1
  <2>. QED BY <2>1, Shape DEF Core
<1>3. scopes[Top - 1].level = scopes[Top].level - 1
  <2>1. Top \in 2 .. Len(scopes) /\ Top - 1 \in 1 .. Len(scopes) /\ Top \in 1 .. Len(scopes)
        /\ Top - 1 < Top /\ Top # 1
    BY <1>1
  <2>2. scopes[Top].level <= scopes[Top - 1].level + 1
        /\ scopes[Top - 1].level <= scopes[Top].level
    BY <2>1 DEF Core, Levels
  <2>3. scopes[Top - 1].level # scopes[Top].level
    BY <1>1, <2>1 DEF IsHome
  <2>. QED BY <1>2, <2>2, <2>3
<1>4. L = scopes[Top].level + 1 /\ L - 1 = scopes[Top - 1].level + 1 /\ L \in Nat /\ L >= 2
  <2>1. L = scopes[Top].level + 1
    BY <1>L DEF Core, Levels, Table
  <2>. QED BY <1>2, <1>3, <2>1
<1>5. /\ L - 1 \in 1 .. L - 1 /\ L \in 2 .. L /\ L - 1 \in 1 .. L
      /\ \A k \in 1 .. L - 1 : k \in 1 .. L
  BY <1>4
<1>6. /\ \A q \in Routine.refs : Reaches(L, q)
      /\ Routine.refs \in SUBSET Ref
      /\ \A k \in 1 .. L : routines[k] \in RoutineType
      /\ \A k \in 1 .. L : \A q \in routines[k].refs : Reaches(k, q)
  BY <1>L, RoutineReaches, Shape
     DEF Core, RoutineType, ReferencesReachTheirVariable, Reaches
<1>. DEFINE new == SeenOutside(Routine.refs)
            old == routines[L - 1]
            r   == IF b THEN old ELSE WithClosure(old, Routine.refs)
<1>7. new \in SUBSET Ref /\ \A q \in new : Reaches(L - 1, q)
  BY <1>L, <1>5, <1>6, SeenOutsideReaches
<1>8. old \in RoutineType
  BY <1>5, <1>6
<1>9. /\ r \in RoutineType /\ r.owner = old.owner
      /\ r.refs = old.refs \/ r.refs = old.refs \cup new
  <2>. HIDE DEF new, old
  <2>1. CASE b
    BY <1>8, <2>1
  <2>2. CASE ~b
    <3>1. r = [old EXCEPT !.refs = old.refs \cup new, !.inner = old.inner + 1]
      BY <1>8, <2>2 DEF WithClosure, RoutineType, new
    <3>2. old.refs \cup new \in SUBSET Ref /\ old.inner + 1 \in Nat
      BY <1>7, <1>8 DEF RoutineType
    <3>. HIDE DEF r
    <3>. QED BY <1>8, <3>1, <3>2 DEF RoutineType
  <2>. QED BY <2>1, <2>2
<1>10. routines'[L - 1] = r /\ \A k \in 1 .. L - 1 : k # L - 1 => routines'[k] = routines[k]
  BY <1>1, <1>5
<1>. HIDE DEF new, r
<1>11. \A k \in 1 .. L - 1 : /\ routines'[k] \in RoutineType
                             /\ routines'[k].owner = routines[k].owner
                             /\ \A q \in routines'[k].refs : Reaches(k, q)
  <2>1. ASSUME NEW k \in 1 .. L - 1
        PROVE  /\ routines'[k] \in RoutineType
               /\ routines'[k].owner = routines[k].owner
               /\ \A q \in routines'[k].refs : Reaches(k, q)
    <3>1. CASE k = L - 1 BY <1>5, <1>6, <1>7, <1>9, <1>10, <3>1
    <3>2. CASE k # L - 1 BY <1>5, <1>6, <1>10, <3>2
    <3>. QED BY <3>1, <3>2
  <2>. QED BY <2>1
<1>12. routines' \in Seq(RoutineType) /\ Len(routines') = L - 1
  <2>1. routines' = [k \in 1 .. L - 1 |-> routines'[k]] /\ L - 1 \in Nat
    BY <1>1, <1>4
  <2>. QED BY <1>11, <2>1
<1>. QED BY <1>1, <1>4, <1>11, <1>12, TableClosed

LEMMA FormalCore ==
    ASSUME Core, NEW n \in Name, Formal(n) PROVE Core'
<1>1. CASE IsLocal(n)
  <2>. DEFINE r == [Routine EXCEPT !.arity = @ + 1]
  <2>1. r \in RoutineType /\ r.owner = Routine.owner /\ r.refs = Routine.refs
    BY RoutineReaches DEF RoutineType
  <2>2. routines' = InRoutine(r) /\ UNCHANGED <<scopes, declared>>
    BY <1>1 DEF Formal
  <2>. HIDE DEF r
  <2>. QED BY <2>1, <2>2, RoutineReaches, RoutineChanged
<1>2. CASE ~IsLocal(n)
  <2>1. /\ CanDeclare /\ scopes' = DefinedVariable(n)
        /\ routines' = InRoutine(WithVariable(TRUE)) /\ declared' = declared + 1
    BY <1>2 DEF Formal
  <2>. QED BY <2>1, VariableDeclared
<1>. QED BY <1>1, <1>2

LEMMA BeginBodyCore ==
    ASSUME Core, BeginBody PROVE Core'
<1>. DEFINE r == [Routine EXCEPT !.formals = FALSE]
<1>1. r \in RoutineType /\ r.owner = Routine.owner /\ r.refs = Routine.refs
  BY RoutineReaches DEF RoutineType
<1>2. routines' = InRoutine(r) /\ UNCHANGED <<scopes, declared>>
  BY DEF BeginBody
<1>. HIDE DEF r
<1>. QED BY <1>1, <1>2, RoutineReaches, RoutineChanged

LEMMA DeclareCore ==
    ASSUME Core, NEW n \in Name, Declare(n)
    PROVE  Core' /\ Len(scopes') = Len(scopes)
BY VariableDeclared DEF Declare

(* With no constant that is a routine, a mention is of a variable in an    *)
(* open table, or refers to nothing.                                       *)
LEMMA MentionReaches ==
    ASSUME Core, NEW i \in 1 .. Len(scopes), NEW n \in Name
    PROVE  /\ WithMention(i, n) \in RoutineType
           /\ WithMention(i, n).owner = Routine.owner
           /\ \A q \in WithMention(i, n).refs : Reaches(Len(routines), q)
<1>s. PICK s : s = scopes[i].symbols[n]
  OBVIOUS
<1>L. PICK L : L = Len(routines)
  OBVIOUS
<1>1. s \in Symbol /\ ~s.routine /\ OwnSlot(i, s)
  BY <1>s, Shape DEF Core, PlainConstants, OwnSlots, TableType
<1>2. CASE s.kind # "variable"
  <2>1. WithMention(i, n) = Routine
    BY <1>s, <1>1, <1>2 DEF WithMention
  <2>. QED BY <2>1, RoutineReaches
<1>3. CASE s.kind = "variable"
  <2>1. /\ scopes[i].level \in Nat /\ Table.level \in Nat /\ L = Table.level + 1
        /\ scopes[i].level + 1 \in 1 .. L
    BY <1>L, Shape DEF Core, Table, Levels
  <2>2. PICK q : q = RefTo(i, s)
    OBVIOUS
  <2>3. /\ q = [upcount |-> Table.level - scopes[i].level, index |-> s.index, var |-> s.var]
    BY <2>2 DEF RefTo, Upcount
  <2>4. q.upcount = Table.level - scopes[i].level /\ q.index = s.index /\ q.var = s.var
    BY <2>3
  <2>5. q.upcount \in 0 .. L - 1 /\ L - q.upcount = scopes[i].level + 1
    BY <2>1, <2>4
  <2>6. Reaches(L, q)
    BY <1>1, <1>3, <2>4, <2>5 DEF OwnSlot, Reaches
  <2>7. q \in Ref
    BY <1>1, <2>1, <2>3 DEF Ref, Symbol
  <2>8. /\ WithMention(i, n) = [Routine EXCEPT !.refs = Routine.refs \cup {q}]
        /\ Routine.refs \cup {q} \in SUBSET Ref
    BY <1>s, <1>3, <2>2, <2>7, RoutineReaches DEF WithMention, RoutineType
  <2>9. /\ WithMention(i, n) \in RoutineType
        /\ WithMention(i, n).owner = Routine.owner
        /\ WithMention(i, n).refs = Routine.refs \cup {q}
    BY <2>8, RoutineReaches DEF RoutineType
  <2>. QED BY <1>L, <2>6, <2>9, RoutineReaches
<1>. QED BY <1>2, <1>3

LEMMA MentionedCore ==
    ASSUME Core, NEW i \in 1 .. Len(scopes), NEW n \in Name,
           routines' = InRoutine(WithMention(i, n)), UNCHANGED <<scopes, declared>>
    PROVE  Core'
BY MentionReaches, RoutineChanged

LEMMA MentionCore ==
    ASSUME Core, NEW n \in Name, NEW assigning \in BOOLEAN, Mention(n, assigning)
    PROVE  Core' /\ Len(scopes') = Len(scopes)
<1>1. CASE UNCHANGED <<scopes, routines, declared>>
  BY <1>1, CoreKept
<1>2. CASE UNCHANGED <<scopes, declared>> /\ \E i \in DOMAIN scopes :
              routines' = InRoutine(WithMention(i, n))
  <2>1. DOMAIN scopes = 1 .. Len(scopes)
    BY Shape DEF Core
  <2>. QED BY <1>2, <2>1, MentionedCore
<1>3. CASE Declare(n)
  BY <1>3, DeclareCore
<1>. QED BY <1>1, <1>2, <1>3 DEF Mention

LEMMA DefineCore ==
    ASSUME Core, NEW n \in Name, NEW constant \in BOOLEAN, Define(n, constant)
    PROVE  Core' /\ Len(scopes') = Len(scopes)
<1>1. CASE IsLocal(n)
  <2>1. Top \in 1 .. Len(scopes)
    BY Shape DEF Core
  <2>2. routines' = InRoutine(WithMention(Top, n)) /\ UNCHANGED <<scopes, declared>>
    BY <1>1 DEF Define
  <2>. QED BY <2>1, <2>2, MentionedCore
<1>2. CASE ~IsLocal(n) /\ constant
  <2>1. scopes' = Defined(n, Constant) /\ UNCHANGED <<routines, declared>>
    BY <1>2 DEF Define
  <2>. QED BY <2>1, PlainSymbols, ConstantDefined
<1>3. CASE ~IsLocal(n) /\ ~constant
  BY <1>3, DeclareCore DEF Define
<1>. QED BY <1>1, <1>2, <1>3

LEMMA ImportCore ==
    ASSUME Core, NEW n \in Name, Import(n)
    PROVE  Core' /\ Len(scopes') = Len(scopes)
BY PlainSymbols, ConstantDefined DEF Import

(* The initializer of a constant is no closure. *)
LEMMA EndDefinitionCore ==
    ASSUME Core, PlainDefinitions, EndDefinition
    PROVE  Core' /\ Len(scopes') = Len(scopes)
<1>d. PICK d : d = defs[Len(defs)]
  OBVIOUS
<1>1. Len(defs) \in 1 .. Len(defs) /\ d \in DefType
  BY <1>d DEF EndDefinition, InInitializer, PlainDefinitions
<1>2. CASE UNCHANGED scopes
  BY <1>2, CoreKept DEF EndDefinition
<1>3. CASE scopes' = Defined(d.name, Constant)
  <2>1. d.name \in Name /\ UNCHANGED <<routines, declared>>
    BY <1>1 DEF DefType, EndDefinition
  <2>. QED BY <1>3, <2>1, PlainSymbols, ConstantDefined
<1>4. d.constant => closure = NoClosure
  BY <1>d, <1>1 DEF PlainDefinitions
<1>5. \A i \in DOMAIN scopes, n \in Name : ~scopes[i].symbols[n].routine
  BY Shape DEF Core, PlainConstants
<1>. QED BY <1>d, <1>2, <1>3, <1>4, <1>5 DEF EndDefinition

LEMMA NextCore ==
    ASSUME Core, PlainDefinitions, Next
    PROVE  Core'
BY PredefinedAssumption, OpenBlockCore, CloseBlockCore, OpenRoutineCore, BeginBodyCore,
   CloseRoutineCore, EndDefinitionCore, FormalCore, DefineCore, MentionCore, ImportCore
   DEF Next

(***************************************************************************)
(* Each action preserves PlainDefinitions                                  *)
(***************************************************************************)

(* While there is no constant among them, definitions need nothing more.   *)
LEMMA NoConstantDefinition ==
    ASSUME defs' \in Seq(DefType), \A k \in 1 .. Len(defs') : ~defs'[k].constant
    PROVE  PlainDefinitions'
BY DEF PlainDefinitions

(* A statement is not in the initializer of a constant. *)
LEMMA StatementPlain ==
    ASSUME PlainDefinitions, AtStatement
    PROVE  \A k \in 1 .. Len(defs) : ~defs[k].constant
BY DEF PlainDefinitions, AtStatement, InInitializer

(* A name does not end the argument list. *)
LEMMA FormalsKept ==
    ASSUME Core,
           \/ routines' = routines
           \/ routines' = InRoutine(WithVariable(FALSE))
           \/ \E i \in 1 .. Len(scopes) : \E n \in Name : routines' = InRoutine(WithMention(i, n))
    PROVE  Routine'.formals = Routine.formals
<1>1. /\ Routine \in RoutineType /\ Len(routines) \in 1 .. Len(routines)
      /\ DOMAIN routines = 1 .. Len(routines) /\ routines \in Seq(RoutineType)
  BY RoutineReaches, Shape DEF Core, Types
<1>2. ASSUME NEW r, r.formals = Routine.formals, routines' = InRoutine(r)
      PROVE  Routine'.formals = Routine.formals
  <2>1. Len(routines') = Len(routines) /\ routines'[Len(routines)] = r
    BY <1>1, <1>2 DEF InRoutine
  <2>. QED BY <1>2, <2>1 DEF Routine
<1>3. WithVariable(FALSE).formals = Routine.formals
  BY <1>1 DEF WithVariable, RoutineType
<1>4. \A i \in 1 .. Len(scopes) : \A n \in Name : WithMention(i, n).formals = Routine.formals
  BY <1>1 DEF WithMention, WithClosure, RoutineType
<1>. QED BY <1>2, <1>3, <1>4 DEF Routine

LEMMA DefineFormals ==
    ASSUME Core, NEW n \in Name, NEW constant \in BOOLEAN, Define(n, constant)
    PROVE  Routine'.formals = Routine.formals
<1>1. Top \in 1 .. Len(scopes)
  BY Shape DEF Core
<1>. QED BY <1>1, FormalsKept DEF Define, Declare

LEMMA MentionFormals ==
    ASSUME Core, NEW n \in Name, NEW assigning \in BOOLEAN, Mention(n, assigning)
    PROVE  Routine'.formals = Routine.formals
<1>1. DOMAIN scopes = 1 .. Len(scopes)
  BY Shape DEF Core
<1>. QED BY <1>1, FormalsKept DEF Mention, Declare

LEMMA NextPlain ==
    ASSUME Core, PlainDefinitions, ~ConstantRoutines, Next
    PROVE  PlainDefinitions'
<1>0. defs \in Seq(DefType) /\ Len(defs) \in Nat
  BY DEF PlainDefinitions
<1>1. CASE AtStatement /\ UNCHANGED defs
  BY <1>0, <1>1, StatementPlain, NoConstantDefinition
<1>2. CASE OpenRoutine
  <2>1. \A k \in 1 .. Len(defs) : ~defs[k].constant
    BY <1>2 DEF OpenRoutine, PlainDefinitions, InInitializer
  <2>. QED BY <1>0, <1>2, <2>1, NoConstantDefinition DEF OpenRoutine
<1>3. CASE Routine.formals /\ UNCHANGED defs
  <2>1. \A k \in 1 .. Len(defs) : ~defs[k].constant
    BY <1>3 DEF PlainDefinitions
  <2>. QED BY <1>0, <1>3, <2>1, NoConstantDefinition
<1>4. CASE EndDefinition
  <2>1. Len(defs) >= 1 /\ defs' = SubSeq(defs, 1, Len(defs) - 1)
    BY <1>0, <1>4 DEF EndDefinition, InInitializer
  <2>2. /\ defs' \in Seq(DefType)
        /\ \A k \in 1 .. Len(defs') : /\ k \in 1 .. Len(defs) /\ k # Len(defs)
                                     /\ defs'[k] = defs[k]
    BY <1>0, <2>1
  <2>3. \A k \in 1 .. Len(defs') : ~defs'[k].constant
    BY <2>2 DEF PlainDefinitions
  <2>. QED BY <2>2, <2>3, NoConstantDefinition
<1>5. ASSUME NEW n \in Name, NEW constant \in BOOLEAN, Define(n, constant)
      PROVE  PlainDefinitions'
  <2>1. \A k \in 1 .. Len(defs) : ~defs[k].constant
    BY <1>5, StatementPlain DEF Define
  <2>2. PICK d : d = [name |-> n, depth |-> Top, constant |-> constant]
    OBVIOUS
  <2>3. d \in DefType /\ d.depth = Top
    BY <2>2, Shape DEF DefType, Core
  <2>4. /\ defs' = Append(defs, d) /\ closure' = NoClosure
    BY <1>5, <2>2 DEF Define
  <2>5. /\ defs' \in Seq(DefType) /\ Len(defs') = Len(defs) + 1
        /\ defs'[Len(defs')] = d
        /\ \A k \in 1 .. Len(defs') : k # Len(defs') => k \in 1 .. Len(defs) /\ defs'[k] = defs[k]
    BY <1>0, <2>3, <2>4
  <2>6. Top' = Top
    BY <1>5, DefineCore DEF Top
  <2>7. ~Routine'.formals
    BY <1>5, DefineFormals DEF Define, AtStatement
  <2>8. \A k \in 1 .. Len(defs') : defs'[k].constant => k = Len(defs') /\ defs'[k].depth = Top'
    BY <2>1, <2>3, <2>5, <2>6
  <2>9. closure' = NoClosure'
    BY <2>4 DEF NoClosure
  <2>. QED BY <2>5, <2>7, <2>8, <2>9 DEF PlainDefinitions
<1>6. ASSUME NEW n \in Name, NEW assigning \in BOOLEAN, Mention(n, assigning)
      PROVE  PlainDefinitions'
  <2>1. UNCHANGED defs /\ closure' = NoClosure' /\ ~Routine.formals
    BY <1>6 DEF Mention, NoClosure
  <2>2. Top' = Top /\ Routine'.formals = Routine.formals
    BY <1>6, MentionCore, MentionFormals DEF Top
  <2>. QED BY <2>1, <2>2 DEF PlainDefinitions
<1>. QED BY <1>1, <1>2, <1>3, <1>4, <1>5, <1>6, PredefinedAssumption
         DEF Next, OpenBlock, CloseBlock, BeginBody, CloseRoutine, Formal, Import

(***************************************************************************)
(* The theorems                                                            *)
(***************************************************************************)

(* The inductive invariant: routines and levels go together, every slot    *)
(* below next_index belongs to one variable and no other slot to any.      *)
THEOREM InvariantHolds ==
    ASSUME ~ConstantRoutines
    PROVE  Spec => []IInv
<1>1. Init => IInv
  <2>1. ASSUME Init PROVE PlainDefinitions
    BY <2>1 DEF Init, PlainDefinitions
  <2>. QED BY <2>1, InitCore DEF IInv
<1>2. IInv /\ [Next]_vars => IInv'
  <2>1. ASSUME IInv, UNCHANGED vars PROVE IInv'
    <3>1. UNCHANGED <<scopes, routines, defs, closure, declared>>
      BY <2>1 DEF vars
    <3>2. Core'
      BY <2>1, <3>1, CoreKept DEF IInv
    <3>3. PlainDefinitions'
      BY <2>1, <3>1 DEF IInv, PlainDefinitions, Top, Routine, NoClosure
    <3>. QED BY <3>2, <3>3 DEF IInv
  <2>. QED BY <2>1, NextCore, NextPlain DEF IInv
<1>. QED BY <1>1, <1>2, PTL DEF Spec

(* In a program whose constants are no routines, every reference that the  *)
(* parser has put into the code of a routine comes to the variable it was  *)
(* made for: whatever blocks and routines are opened and closed, a slot is *)
(* never given to a second variable and upcount is the distance of levels. *)
THEOREM ReferencesHold ==
    ASSUME ~ConstantRoutines
    PROVE  Spec => []ReferencesReachTheirVariable
<1>1. IInv => ReferencesReachTheirVariable
  BY DEF IInv, Core
<1>. QED BY <1>1, InvariantHolds, PTL

(* Tables, routines, definitions and references keep their types, no       *)
(* routine has more slots than SlotBound, and as many routines are being   *)
(* parsed as there are levels.                                             *)
THEOREM TypesHold ==
    ASSUME ~ConstantRoutines
    PROVE  Spec => []TypeOK
<1>. DEFINE E == errors \in BOOLEAN
<1>1. Init => E
  BY DEF Init
<1>2. E /\ [Next]_vars => E'
  <2>1. ASSUME errors \in BOOLEAN, NEW n \in Name, NEW b \in BOOLEAN, Mention(n, b)
        PROVE  errors' \in BOOLEAN
    BY <2>1 DEF Mention
  <2>2. ASSUME errors \in BOOLEAN, NEW n \in Name, NEW b \in BOOLEAN, Define(n, b)
        PROVE  errors' \in BOOLEAN
    BY <2>2 DEF Define
  <2>3. ASSUME errors \in BOOLEAN, NEW n, Formal(n)
        PROVE  errors' \in BOOLEAN
    BY <2>3 DEF Formal
  <2>4. ASSUME errors \in BOOLEAN, EndDefinition
        PROVE  errors' \in BOOLEAN
    BY <2>4 DEF EndDefinition
  <2>. QED BY <2>1, <2>2, <2>3, <2>4
           DEF Next, vars, OpenBlock, CloseBlock, OpenRoutine, BeginBody, CloseRoutine, Import
<1>3. IInv /\ E => TypeOK
  BY DEF IInv, Core, Types, Levels, PlainDefinitions, TableType, RoutineType, DefType, TypeOK
<1>. HIDE DEF E
<1>4. Spec => []E
  BY <1>1, <1>2, PTL DEF Spec
<1>. QED BY <1>3, <1>4, InvariantHolds, PTL

(***************************************************************************)
(* The records of calls                                                    *)
(***************************************************************************)

(* The arguments of a routine have its first slots; while they are being   *)
(* read, all of its slots.                                                 *)
ArgsFit(i) ==
    LET r == routines[scopes[i].level + 1] IN
    /\ r.arity <= scopes[i].next_index
    /\ r.formals => r.arity = scopes[i].next_index
    /\ {r.owner[x] : x \in 0 .. r.arity - 1} = r.args

Records == ~errors => \A i \in 1 .. Len(scopes) : IsHome(i) => ArgsFit(i)

(* A routine that makes a closure has counted it, and one in which another *)
(* is being parsed has counted that.                                       *)
Counted(r) == r.cc = 0 => r.inner = 0

Counts ==
    \A k \in 1 .. Len(routines) :
        Counted(routines[k]) /\ (k < Len(routines) => routines[k].cc >= 1)

RecordInv == Records /\ Counts /\ ClosureRecordFits /\ ClosuresAreCounted

(* Every table has the routine of its level, also after a step. *)
HasRoutine == \A i \in 1 .. Len(scopes) : scopes[i].level + 1 \in 1 .. Len(routines)

LEMMA CoreHasRoutine == Core => HasRoutine
BY Shape DEF Core, HasRoutine

LEMMA CoreHasRoutineNext == Core' => HasRoutine'
BY CoreHasRoutine, PTL

(* What Records says of a routine. *)
SameArgs(r, s) ==
    /\ r.arity = s.arity /\ r.owner = s.owner /\ r.args = s.args
    /\ r.formals => s.formals

LEMMA RecordsKept ==
    ASSUME Core, Core', Records, ~errors' => ~errors,
           \A i \in 1 .. Len(scopes') : IsHome(i)' =>
               \/ ArgsFit(i)'
               \/ /\ i \in 1 .. Len(scopes) /\ IsHome(i)
                  /\ scopes'[i].level = scopes[i].level
                  /\ scopes'[i].next_index = scopes[i].next_index,
           \A k \in 1 .. Len(routines) :
               k \in 1 .. Len(routines') => SameArgs(routines'[k], routines[k])
    PROVE  Records'
<1> SUFFICES ASSUME ~errors', NEW i \in 1 .. Len(scopes'), IsHome(i)'
             PROVE  ArgsFit(i)'
  BY DEF Records
<1>1. CASE /\ i \in 1 .. Len(scopes) /\ IsHome(i)
           /\ scopes'[i].level = scopes[i].level
           /\ scopes'[i].next_index = scopes[i].next_index
  <2>1. PICK k : k = scopes[i].level + 1
    OBVIOUS
  <2>2. k \in 1 .. Len(routines) /\ k \in 1 .. Len(routines')
    BY <1>1, <2>1, CoreHasRoutine, CoreHasRoutineNext DEF HasRoutine
  <2>3. SameArgs(routines'[k], routines[k]) /\ ArgsFit(i)
    BY <1>1, <2>2 DEF Records
  <2>. QED BY <1>1, <2>1, <2>3 DEF ArgsFit, SameArgs
<1>. QED BY <1>1

(* The routine being parsed is replaced. *)
LEMMA InRoutineIs ==
    ASSUME Core, NEW r, routines' = InRoutine(r)
    PROVE  /\ Len(routines') = Len(routines) /\ routines'[Len(routines)] = r
           /\ Routine = routines[Len(routines)]
           /\ \A k \in 1 .. Len(routines) : k # Len(routines) => routines'[k] = routines[k]
<1>1. Len(routines) \in 1 .. Len(routines) /\ routines \in Seq(RoutineType)
  BY Shape DEF Core, Types
<1>. QED BY <1>1 DEF InRoutine, Routine

LEMMA CountsKept ==
    ASSUME Core, Counts, NEW r, routines' = InRoutine(r),
           r.cc = Routine.cc, r.inner = Routine.inner
    PROVE  Counts'
<1>1. ASSUME NEW k \in 1 .. Len(routines')
      PROVE  Counted(routines'[k]) /\ (k < Len(routines') => routines'[k].cc >= 1)
  <2>1. k \in 1 .. Len(routines) /\ Len(routines') = Len(routines)
    BY InRoutineIs
  <2>2. routines'[k].cc = routines[k].cc /\ routines'[k].inner = routines[k].inner
    BY <2>1, InRoutineIs
  <2>. QED BY <2>1, <2>2 DEF Counts, Counted
<1>. QED BY <1>1 DEF Counts

(* A mention changes nothing of a routine but its references. *)
LEMMA MentionKeeps ==
    ASSUME Core, NEW i \in 1 .. Len(scopes), NEW n \in Name
    PROVE  /\ SameArgs(WithMention(i, n), Routine)
           /\ WithMention(i, n).cc = Routine.cc /\ WithMention(i, n).inner = Routine.inner
<1>1. ~scopes[i].symbols[n].routine
  BY DEF Core, PlainConstants
<1>2. Routine \in RoutineType
  BY RoutineReaches
<1>3. CASE WithMention(i, n) = Routine
  BY <1>3 DEF SameArgs
<1>4. ASSUME NEW q, WithMention(i, n) = [Routine EXCEPT !.refs = q]
      PROVE  /\ SameArgs(WithMention(i, n), Routine)
             /\ WithMention(i, n).cc = Routine.cc /\ WithMention(i, n).inner = Routine.inner
  BY <1>2, <1>4 DEF RoutineType, SameArgs
<1>5. WithMention(i, n) = Routine \/ \E q : WithMention(i, n) = [Routine EXCEPT !.refs = q]
  <2>1. CASE scopes[i].symbols[n].kind = "variable"
    <3>1. WithMention(i, n) = [Routine EXCEPT !.refs = @ \cup {RefTo(i, scopes[i].symbols[n])}]
      BY <2>1 DEF WithMention
    <3>2. WithMention(i, n) =
             [Routine EXCEPT !.refs = Routine.refs \cup {RefTo(i, scopes[i].symbols[n])}]
      BY <1>2, <3>1 DEF RoutineType
    <3>. QED BY <3>2
  <2>2. CASE scopes[i].symbols[n].kind # "variable"
    BY <1>1, <2>2 DEF WithMention
  <2>. QED BY <2>1, <2>2
<1>. QED BY <1>3, <1>4, <1>5

(* Tables that stay what they are, or get a name with no slot. *)
LEMMA TablesKept ==
    ASSUME Core, scopes' = scopes \/ \E n \in Name, s \in Symbol : scopes' = Defined(n, s)
    PROVE  /\ Len(scopes') = Len(scopes)
           /\ \A i \in 1 .. Len(scopes) :
                 /\ scopes'[i].level = scopes[i].level
                 /\ scopes'[i].next_index = scopes[i].next_index
                 /\ IsHome(i)' => IsHome(i)
<1>0. scopes \in Seq(TableType) /\ Top \in 1 .. Len(scopes) /\ Len(scopes) \in Nat
      /\ DOMAIN scopes = 1 .. Len(scopes)
  BY Shape DEF Core, Types
<1>1. CASE scopes' = scopes
  BY <1>1 DEF IsHome
<1>2. ASSUME NEW n \in Name, NEW s \in Symbol, scopes' = Defined(n, s)
      PROVE  /\ Len(scopes') = Len(scopes)
             /\ \A i \in 1 .. Len(scopes) :
                   /\ scopes'[i].level = scopes[i].level
                   /\ scopes'[i].next_index = scopes[i].next_index
  <2>1. ASSUME NEW t \in TableType
        PROVE  /\ [t EXCEPT !.symbols = [@ EXCEPT ![n] = s]].level = t.level
               /\ [t EXCEPT !.symbols = [@ EXCEPT ![n] = s]].next_index = t.next_index
    BY DEF TableType
  <2>2. scopes' = [scopes EXCEPT ![Top] =
                      [scopes[Top] EXCEPT !.symbols = [@ EXCEPT ![n] = s]]]
    BY <1>0, <1>2 DEF Defined
  <2>3. scopes[Top] \in TableType
    BY <1>0
  <2>4. ASSUME NEW i \in 1 .. Len(scopes)
        PROVE  /\ scopes'[i].level = scopes[i].level
               /\ scopes'[i].next_index = scopes[i].next_index
    <3>1. CASE i = Top
      <4>1. scopes'[Top] = [scopes[Top] EXCEPT !.symbols = [@ EXCEPT ![n] = s]]
        BY <1>0, <2>2
      <4>. QED BY <2>1, <2>3, <3>1, <4>1
    <3>2. CASE i # Top
      BY <1>0, <2>2, <3>2
    <3>. QED BY <3>1, <3>2
  <2>5. Len(scopes') = Len(scopes)
    BY <1>0, <2>2
  <2>. QED BY <2>4, <2>5
<1>3. CASE \E n \in Name, s \in Symbol : scopes' = Defined(n, s)
  <2>1. /\ Len(scopes') = Len(scopes)
        /\ \A i \in 1 .. Len(scopes) :
              /\ scopes'[i].level = scopes[i].level
              /\ scopes'[i].next_index = scopes[i].next_index
    BY <1>2, <1>3
  <2>2. ASSUME NEW i \in 1 .. Len(scopes), IsHome(i)' PROVE IsHome(i)
    <3>1. i # 1 => i - 1 \in 1 .. Len(scopes)
      BY <1>0
    <3>. QED BY <2>1, <2>2, <3>1 DEF IsHome
  <2>. QED BY <2>1, <2>2
<1>. QED BY <1>1, <1>3

(* A step that mentions or names something without a slot. *)
LEMMA NamedRecords ==
    ASSUME Core, Core', RecordInv, ~errors' => ~errors, closure' = NoClosure,
           scopes' = scopes \/ \E n \in Name, s \in Symbol : scopes' = Defined(n, s),
           \/ routines' = routines
           \/ \E i \in 1 .. Len(scopes), n \in Name : routines' = InRoutine(WithMention(i, n))
    PROVE  RecordInv'
<1>1. \A k \in 1 .. Len(routines) :
         k \in 1 .. Len(routines') => SameArgs(routines'[k], routines[k])
  <2>1. CASE routines' = routines
    BY <2>1 DEF SameArgs
  <2>2. ASSUME NEW i \in 1 .. Len(scopes), NEW n \in Name,
               routines' = InRoutine(WithMention(i, n)),
               NEW k \in 1 .. Len(routines)
        PROVE  SameArgs(routines'[k], routines[k])
    BY <2>2, InRoutineIs, MentionKeeps DEF SameArgs
  <2>. QED BY <2>1, <2>2
<1>2. Counts'
  <2>1. CASE routines' = routines
    BY <2>1 DEF RecordInv, Counts
  <2>2. ASSUME NEW i \in 1 .. Len(scopes), NEW n \in Name,
               routines' = InRoutine(WithMention(i, n))
        PROVE  Counts'
    BY <2>2, MentionKeeps, CountsKept DEF RecordInv
  <2>. QED BY <2>1, <2>2
<1>3. Records'
  BY <1>1, TablesKept, RecordsKept DEF RecordInv
<1>4. ClosureRecordFits' /\ ClosuresAreCounted'
  <2>1. closure' = NoClosure'
    BY DEF NoClosure
  <2>. QED BY <2>1 DEF ClosureRecordFits, ClosuresAreCounted
<1>. QED BY <1>2, <1>3, <1>4 DEF RecordInv

(* A variable is declared: an argument while the arguments are being read, *)
(* and never else.                                                         *)
LEMMA DeclaredRecords ==
    ASSUME Core, RecordInv, NEW n \in Name, NEW arg \in BOOLEAN, arg = Routine.formals,
           CanDeclare, ~errors' => ~errors, closure' = NoClosure,
           scopes' = DefinedVariable(n), routines' = InRoutine(WithVariable(arg)),
           declared' = declared + 1
    PROVE  RecordInv'
<1>x. PICK x : x = scopes[Home].next_index
  OBVIOUS
<1>v. PICK v : v = declared + 1
  OBVIOUS
<1>L. PICK L : L = Len(routines)
  OBVIOUS
<1>r. PICK r : r = WithVariable(arg)
  OBVIOUS
<1>1. /\ Core' /\ Len(scopes') = Len(scopes)
      /\ \A i \in 1 .. Len(scopes) :
            /\ scopes'[i].level = scopes[i].level /\ IsHome(i)' = IsHome(i)
            /\ scopes'[i].next_index = IF i = Home THEN x + 1 ELSE scopes[i].next_index
      /\ r.owner = [Routine.owner EXCEPT ![x] = v]
      /\ r.arity = IF arg THEN Routine.arity + 1 ELSE Routine.arity
      /\ r.args = IF arg THEN Routine.args \cup {v} ELSE Routine.args
      /\ r.formals = Routine.formals /\ r.cc = Routine.cc /\ r.inner = Routine.inner
  BY <1>x, <1>v, <1>r, VariableDeclared
<1>2. /\ Home \in 1 .. Len(scopes) /\ IsHome(Home) /\ scopes[Home].level + 1 = L
      /\ \A i \in 1 .. Len(scopes) : IsHome(i) /\ scopes[i].level + 1 = L => i = Home
  <2>1. L = Table.level + 1 /\ Table.level \in Nat
    BY <1>L, Shape DEF Core, Levels, Table
  <2>2. /\ Home \in 1 .. Len(scopes) /\ IsHome(Home) /\ scopes[Home].level = Table.level
        /\ \A i \in 1 .. Len(scopes) : IsHome(i) /\ scopes[i].level = Table.level => i = Home
    BY HomeIsHome DEF Core
  <2>3. \A i \in 1 .. Len(scopes) : scopes[i].level \in Nat
    BY Shape DEF Core
  <2>. QED BY <2>1, <2>2, <2>3
<1>3. /\ Len(routines') = L /\ routines'[L] = r /\ Routine = routines[L]
      /\ \A k \in 1 .. L : k # L => routines'[k] = routines[k]
  BY <1>L, <1>r, InRoutineIs
<1>4. /\ Routine \in RoutineType /\ Routine.arity \in Nat
      /\ Routine.owner \in [Slots -> Nat]
      /\ x \in Slots /\ x \in Nat
  <2>1. Routine \in RoutineType
    BY RoutineReaches
  <2>2. x \in 0 .. SlotBound /\ x < SlotBound
    <3>1. scopes[Home] \in TableType
      BY <1>2, Shape DEF Core
    <3>. QED BY <1>x, <3>1 DEF TableType, CanDeclare
  <2>. QED BY <2>1, <2>2, BoundsAssumption DEF RoutineType, Slots
<1>5. Counts'
  BY <1>1, <1>r, CountsKept DEF RecordInv
<1>6. Records'
  <2> SUFFICES ASSUME ~errors', NEW i \in 1 .. Len(scopes'), IsHome(i)'
               PROVE  ArgsFit(i)'
    BY DEF Records
  <2>1. i \in 1 .. Len(scopes) /\ IsHome(i) /\ ArgsFit(i)
    BY <1>1 DEF RecordInv, Records
  <2>2. CASE i = Home
    <3>1. /\ Routine.arity <= x /\ (Routine.formals => Routine.arity = x)
          /\ {Routine.owner[y] : y \in 0 .. Routine.arity - 1} = Routine.args
      BY <1>x, <1>2, <1>3, <2>1, <2>2 DEF ArgsFit
    <3>2. \A y \in 0 .. Routine.arity - 1 : y \in Slots /\ y # x
      BY <1>4, <3>1, BoundsAssumption DEF Slots
    <3>3. \A y \in 0 .. Routine.arity - 1 : r.owner[y] = Routine.owner[y]
      BY <1>1, <1>4, <3>2
    <3>4. r.arity <= x + 1 /\ (r.formals => r.arity = x + 1)
      BY <1>1, <1>4, <3>1
    <3>5. {r.owner[y] : y \in 0 .. r.arity - 1} = r.args
      <4>1. CASE ~arg
        BY <1>1, <3>1, <3>3, <4>1
      <4>2. CASE arg
        <5>1. Routine.arity = x /\ r.arity - 1 = x
          BY <1>1, <1>4, <3>1, <4>2
        <5>2. r.owner[x] = v
          BY <1>1, <1>4
        <5>3. \A y : y \in 0 .. x <=> y \in 0 .. Routine.arity - 1 \/ y = x
          BY <1>4, <5>1
        <5>4. {r.owner[y] : y \in 0 .. x}
                 = {Routine.owner[y] : y \in 0 .. Routine.arity - 1} \cup {v}
          BY <3>3, <5>2, <5>3
        <5>. QED BY <1>1, <3>1, <4>2, <5>1, <5>4
      <4>. QED BY <4>1, <4>2
    <3>6. /\ scopes'[i].next_index = x + 1 /\ routines'[scopes'[i].level + 1] = r
      BY <1>1, <1>2, <1>3, <2>1, <2>2
    <3>. QED BY <3>4, <3>5, <3>6 DEF ArgsFit
  <2>3. CASE i # Home
    <3>1. scopes[i].level + 1 \in 1 .. L /\ scopes[i].level + 1 # L
      BY <1>L, <1>2, <2>1, <2>3, CoreHasRoutine DEF HasRoutine
    <3>2. routines'[scopes[i].level + 1] = routines[scopes[i].level + 1]
      BY <1>3, <3>1
    <3>3. scopes'[i].level = scopes[i].level /\ scopes'[i].next_index = scopes[i].next_index
      BY <1>1, <2>1, <2>3
    <3>. QED BY <2>1, <3>2, <3>3 DEF ArgsFit
  <2>. QED BY <2>2, <2>3
<1>7. ClosureRecordFits' /\ ClosuresAreCounted'
  <2>1. closure' = NoClosure'
    BY DEF NoClosure
  <2>. QED BY <2>1 DEF ClosureRecordFits, ClosuresAreCounted
<1>. QED BY <1>5, <1>6, <1>7 DEF RecordInv

(***************************************************************************)
(* Each action preserves RecordInv                                         *)
(***************************************************************************)
LEMMA InitRecords ==
    ASSUME Init PROVE RecordInv
<1>1. /\ scopes = <<NewTable(0, [n \in Name |-> IF n \in Predefined THEN Constant ELSE NoSymbol])>>
      /\ routines = <<NewRoutine(FALSE)>> /\ closure = NoClosure
  BY DEF Init
<1>2. /\ Len(scopes) = 1 /\ scopes[1].level = 0 /\ scopes[1].next_index = 0
      /\ Len(routines) = 1 /\ routines[1] = NewRoutine(FALSE)
  BY <1>1 DEF NewTable
<1>3. PICK r : r = NewRoutine(FALSE)
  OBVIOUS
<1>4. r.arity = 0 /\ r.args = {} /\ r.cc = 0 /\ r.inner = 0
  BY <1>3 DEF NewRoutine
<1>5. {r.owner[x] : x \in 0 .. r.arity - 1} = {}
  <2>1. 0 .. r.arity - 1 = {}
    BY <1>4
  <2>. QED BY <2>1
<1>6. ASSUME NEW i \in 1 .. Len(scopes) PROVE ArgsFit(i)
  <2>1. i = 1 /\ scopes[i].level = 0 /\ scopes[i].level + 1 = 1 /\ scopes[i].next_index = 0
    BY <1>2
  <2>2. routines[scopes[i].level + 1] = r
    BY <1>2, <1>3, <2>1
  <2>. QED BY <1>4, <1>5, <2>1, <2>2 DEF ArgsFit
<1>7. Counts
  <2>1. ASSUME NEW k \in 1 .. Len(routines)
        PROVE  Counted(routines[k]) /\ (k < Len(routines) => routines[k].cc >= 1)
    <3>1. k = 1 /\ ~(k < Len(routines))
      BY <1>2
    <3>2. routines[k] = r
      BY <1>2, <1>3, <3>1
    <3>. QED BY <1>4, <3>1, <3>2 DEF Counted
  <2>. QED BY <2>1 DEF Counts
<1>. QED BY <1>1, <1>6, <1>7
         DEF RecordInv, Records, ClosureRecordFits, ClosuresAreCounted

LEMMA OpenBlockRecords ==
    ASSUME Core, Core', RecordInv, OpenBlock PROVE RecordInv'
<1>. DEFINE t == NewTable(Table.level, [n \in Name |-> NoSymbol])
<1>N. PICK N : N = Len(scopes)
  OBVIOUS
<1>1. /\ scopes' = Append(scopes, t) /\ t.level = scopes[N].level
      /\ UNCHANGED <<routines, errors>> /\ closure' = NoClosure'
  BY <1>N DEF OpenBlock, NewTable, Table, Top, NoClosure
<1>2. N \in Nat /\ N >= 1 /\ scopes \in Seq(TableType)
  BY <1>N, Shape DEF Core, Types
<1>. HIDE DEF t
<1>3. /\ Len(scopes') = N + 1 /\ scopes'[N + 1] = t
      /\ \A i \in 1 .. N : scopes'[i] = scopes[i]
  BY <1>N, <1>1, <1>2
<1>4. ~IsHome(N + 1)'
  BY <1>1, <1>2, <1>3 DEF IsHome
<1>5. ASSUME NEW i \in 1 .. Len(scopes'), IsHome(i)'
      PROVE  /\ i \in 1 .. Len(scopes) /\ IsHome(i)
             /\ scopes'[i].level = scopes[i].level
             /\ scopes'[i].next_index = scopes[i].next_index
  <2>1. i # N + 1 /\ i \in 1 .. N
    BY <1>2, <1>3, <1>4, <1>5
  <2>2. i = 1 \/ i - 1 \in 1 .. N
    BY <1>2, <2>1
  <2>. QED BY <1>N, <1>3, <1>5, <2>1, <2>2 DEF IsHome
<1>6. \A k \in 1 .. Len(routines) : SameArgs(routines'[k], routines[k])
  BY <1>1 DEF SameArgs
<1>7. Records'
  BY <1>1, <1>5, <1>6, RecordsKept DEF RecordInv
<1>8. Counts'
  BY <1>1 DEF RecordInv, Counts
<1>. QED BY <1>1, <1>7, <1>8 DEF RecordInv, ClosureRecordFits, ClosuresAreCounted

(* The new routine has no slots, no arguments and no closures yet; the one *)
(* it is written in has counted it.                                        *)
LEMMA OpenRoutineRecords ==
    ASSUME Core, Core', RecordInv, OpenRoutine PROVE RecordInv'
<1>. DEFINE t == NewTable(Table.level + 1, [n \in Name |-> NoSymbol])
            r == [Routine EXCEPT !.cc = @ + 1]
<1>N. PICK N : N = Len(scopes)
  OBVIOUS
<1>L. PICK L : L = Len(routines)
  OBVIOUS
<1>n. PICK new : new = NewRoutine(TRUE)
  OBVIOUS
<1>1. /\ scopes' = Append(scopes, t) /\ t.level = scopes[N].level + 1 /\ t.next_index = 0
      /\ routines' = Append([routines EXCEPT ![L] = r], new)
      /\ UNCHANGED errors /\ closure' = NoClosure'
  BY <1>N, <1>L, <1>n DEF OpenRoutine, NewTable, Table, Top, NoClosure, InRoutine
<1>2. /\ N \in Nat /\ N >= 1 /\ scopes \in Seq(TableType)
      /\ L \in Nat /\ L \in 1 .. L /\ routines \in Seq(RoutineType)
      /\ L = scopes[N].level + 1
  BY <1>N, <1>L, Shape DEF Core, Types, Levels, Table, Top
<1>3. /\ r \in RoutineType /\ SameArgs(r, Routine) /\ r.cc = Routine.cc + 1
      /\ Routine.cc \in Nat /\ Routine = routines[L]
  BY <1>L, RoutineReaches DEF RoutineType, SameArgs, Routine
<1>4. /\ new \in RoutineType /\ new.arity = 0 /\ new.args = {} /\ new.cc = 0 /\ new.inner = 0
  BY <1>n DEF NewRoutine, RoutineType, Unowned
<1>. HIDE DEF t, r
<1>5. /\ Len(scopes') = N + 1 /\ scopes'[N + 1] = t
      /\ \A i \in 1 .. N : scopes'[i] = scopes[i]
  BY <1>N, <1>1, <1>2
<1>6. /\ Len(routines') = L + 1 /\ routines'[L + 1] = new /\ routines'[L] = r
      /\ \A k \in 1 .. L : k # L => routines'[k] = routines[k]
  <2>f. PICK f : f = [routines EXCEPT ![L] = r]
    OBVIOUS
  <2>1. /\ f \in Seq(RoutineType) /\ Len(f) = L /\ f[L] = r
        /\ \A k \in 1 .. L : k # L => f[k] = routines[k]
    <3>0. routines \in Seq(RoutineType)
      BY <1>2
    <3>1. DOMAIN routines = 1 .. L
      BY <3>0, <1>L
    <3>2. DOMAIN f = 1 .. L /\ f \in [1 .. L -> RoutineType]
      BY <2>f, <1>L, <1>2, <1>3, <3>1
    <3>3. f \in Seq(RoutineType) /\ Len(f) = L
      BY SMTT(30), <1>2, <3>2
    <3>. QED BY <2>f, <1>2, <3>1, <3>3
  <2>2. routines' = Append(f, new)
    BY <2>f, <1>1
  <2>3. /\ Len(routines') = L + 1 /\ routines'[L + 1] = new
        /\ \A k \in 1 .. L : routines'[k] = f[k]
    BY <1>2, <2>1, <2>2
  <2>. QED BY <1>2, <2>1, <2>3
<1>7. ArgsFit(N + 1)'
  <2>1. scopes'[N + 1].level + 1 = L + 1 /\ scopes'[N + 1].next_index = 0
    BY <1>1, <1>2, <1>5
  <2>2. 0 .. new.arity - 1 = {}
    BY <1>4
  <2>. QED BY <1>4, <1>6, <2>1, <2>2 DEF ArgsFit
<1>8. ASSUME NEW i \in 1 .. Len(scopes'), IsHome(i)'
      PROVE  \/ ArgsFit(i)'
             \/ /\ i \in 1 .. Len(scopes) /\ IsHome(i)
                /\ scopes'[i].level = scopes[i].level
                /\ scopes'[i].next_index = scopes[i].next_index
  <2>1. CASE i = N + 1
    BY <1>7, <2>1
  <2>2. CASE i # N + 1
    <3>1. i \in 1 .. N
      BY <1>2, <1>5, <2>2
    <3>2. i = 1 \/ i - 1 \in 1 .. N
      BY <1>2, <3>1
    <3>. QED BY <1>N, <1>5, <1>8, <3>1, <3>2 DEF IsHome
  <2>. QED BY <2>1, <2>2
<1>9. \A k \in 1 .. Len(routines) : SameArgs(routines'[k], routines[k])
  BY <1>L, <1>3, <1>6 DEF SameArgs
<1>10. Records'
  BY <1>1, <1>8, <1>9, RecordsKept DEF RecordInv
<1>11. Counts'
  <2>1. ASSUME NEW k \in 1 .. Len(routines')
        PROVE  Counted(routines'[k]) /\ (k < Len(routines') => routines'[k].cc >= 1)
    <3>1. k \in 1 .. L \/ k = L + 1
      BY <1>2, <1>6
    <3>2. CASE k = L + 1
      BY <1>2, <1>4, <1>6, <3>2 DEF Counted
    <3>3. CASE k = L
      BY <1>3, <1>6, <3>3 DEF Counted
    <3>4. CASE k \in 1 .. L /\ k # L
      <4>1. k < L /\ routines'[k] = routines[k]
        BY <1>2, <1>6, <3>4
      <4>. QED BY <1>L, <3>4, <4>1 DEF RecordInv, Counts
    <3>. QED BY <3>1, <3>2, <3>3, <3>4
  <2>. QED BY <2>1 DEF Counts
<1>. QED BY <1>1, <1>10, <1>11 DEF RecordInv, ClosureRecordFits, ClosuresAreCounted

(* When the last table is closed, the homes are those that were.           *)
LEMMA HomesKept ==
    ASSUME Core, Top > 1, scopes' = SubSeq(scopes, 1, Top - 1)
    PROVE  \A i \in 1 .. Len(scopes') : IsHome(i)' =>
              /\ i \in 1 .. Len(scopes) /\ IsHome(i)
              /\ scopes'[i].level = scopes[i].level
              /\ scopes'[i].next_index = scopes[i].next_index
<1>N. PICK N : N = Len(scopes) - 1
  OBVIOUS
<1>1. /\ N \in Nat /\ N >= 1 /\ Len(scopes) = N + 1 /\ Top = N + 1
      /\ scopes \in Seq(TableType) /\ scopes' = SubSeq(scopes, 1, N)
  BY <1>N, Shape DEF Top, Core, Types
<1>2. /\ scopes' \in Seq(TableType) /\ Len(scopes') = N /\ DOMAIN scopes' = 1 .. N
      /\ \A i \in 1 .. N : scopes'[i] = scopes[i]
  BY <1>1
<1>3. ASSUME NEW i \in 1 .. Len(scopes'), IsHome(i)'
      PROVE  /\ i \in 1 .. Len(scopes) /\ IsHome(i)
             /\ scopes'[i].level = scopes[i].level
             /\ scopes'[i].next_index = scopes[i].next_index
  <2>1. i \in 1 .. N /\ i \in 1 .. N + 1 /\ (i = 1 \/ i - 1 \in 1 .. N)
    BY <1>1, <1>2
  <2>. QED BY <1>1, <1>2, <1>3, <2>1 DEF IsHome
<1>. QED BY <1>3

LEMMA CloseBlockRecords ==
    ASSUME Core, Core', RecordInv, CloseBlock PROVE RecordInv'
<1>1. /\ Top > 1 /\ scopes' = SubSeq(scopes, 1, Top - 1)
      /\ UNCHANGED <<routines, errors>> /\ closure' = NoClosure'
  BY DEF CloseBlock, IsBlock, NoClosure
<1>2. Records'
  <2>1. \A k \in 1 .. Len(routines) : SameArgs(routines'[k], routines[k])
    BY <1>1 DEF SameArgs
  <2>. QED BY <1>1, <2>1, HomesKept, RecordsKept DEF RecordInv
<1>3. Counts'
  BY <1>1 DEF RecordInv, Counts
<1>. QED BY <1>1, <1>2, <1>3 DEF RecordInv, ClosureRecordFits, ClosuresAreCounted

(* The closure that is made has room for all slots that are given away.    *)
LEMMA CloseRoutineRecords ==
    ASSUME Core, Core', RecordInv, CloseRoutine PROVE RecordInv'
<1>L. PICK L : L = Len(routines)
  OBVIOUS
<1>b. PICK b : b = IsConstant(Top - 1)
  OBVIOUS
<1>1. /\ Top \in 1 .. Len(scopes) /\ Top > 1 /\ IsHome(Top) /\ errors' = errors
      /\ scopes' = SubSeq(scopes, 1, Top - 1)
      /\ routines' = [k \in 1 .. L - 1 |-> IF k = L - 1 /\ ~b
                          THEN WithClosure(routines[k], Routine.refs) ELSE routines[k]]
  BY <1>L, <1>b, Shape DEF CloseRoutine, IsRoutine, Core
<1>2. L \in Nat /\ L >= 1 /\ L \in 1 .. L /\ Routine = routines[L] /\ Routine \in RoutineType
  BY <1>L, Shape DEF Core, Routine
<1>3. \A k \in 1 .. L : routines[k] \in RoutineType
  BY <1>L, Shape DEF Core
<1>4. Len(routines') = L - 1
  <2>1. L - 1 \in Nat
    BY <1>2
  <2>. QED BY <1>1, <2>1
<1>5. ASSUME NEW k \in 1 .. L - 1
      PROVE  /\ k \in 1 .. L /\ k < L /\ SameArgs(routines'[k], routines[k])
             /\ routines'[k].cc = routines[k].cc
  <2>1. k \in 1 .. L /\ k < L
    BY <1>2
  <2>2. CASE k # L - 1 \/ b
    BY <1>1, <2>1, <2>2 DEF SameArgs
  <2>3. CASE k = L - 1 /\ ~b
    <3>1. routines'[k] = WithClosure(routines[k], Routine.refs)
      BY <1>1, <2>3
    <3>. QED BY <1>3, <2>1, <3>1 DEF WithClosure, RoutineType, SameArgs
  <2>. QED BY <2>1, <2>2, <2>3
<1>6. Records'
  <2>1. \A k \in 1 .. Len(routines) :
           k \in 1 .. Len(routines') => SameArgs(routines'[k], routines[k])
    BY <1>4, <1>5
  <2>. QED BY <1>1, <2>1, HomesKept, RecordsKept DEF RecordInv
<1>7. Counts'
  <2>1. ASSUME NEW k \in 1 .. Len(routines')
        PROVE  Counted(routines'[k]) /\ (k < Len(routines') => routines'[k].cc >= 1)
    <3>1. k \in 1 .. L /\ k < L /\ routines'[k].cc = routines[k].cc
      BY <1>4, <1>5
    <3>2. routines[k].cc >= 1
      BY <1>L, <3>1 DEF RecordInv, Counts
    <3>. QED BY <3>1, <3>2 DEF Counted
  <2>. QED BY <2>1 DEF Counts
<1>8. PICK c : /\ c = closure' /\ c.arity = Routine.arity
               /\ c.locals = Table.next_index - Routine.arity
               /\ c.cc = Routine.cc /\ c.inner = Routine.inner
               /\ c.owner = Routine.owner /\ c.args = Routine.args
  BY DEF CloseRoutine
<1>9. /\ Routine.arity \in Nat /\ Table.next_index \in Nat
      /\ Table.level + 1 = L /\ Table = scopes[Top]
  <2>1. scopes[Top] \in TableType /\ Table = scopes[Top]
    BY <1>1, Shape DEF Core, Table
  <2>2. Table.next_index \in 0 .. SlotBound
    BY <2>1 DEF TableType
  <2>3. Table.next_index \in Nat
    BY <2>2, BoundsAssumption
  <2>. QED BY <1>L, <1>2, <2>1, <2>3 DEF RoutineType, Core, Levels
<1>10. c.arity + c.locals = Table.next_index
  BY <1>8, <1>9
<1>11. \A i \in Slots : c.owner[i] # Unowned => i < c.arity + c.locals
  BY <1>1, <1>2, <1>8, <1>9, <1>10 DEF Core, GivenSlots
<1>12. ~errors' => /\ c.locals >= 0
                   /\ {c.owner[i] : i \in 0 .. c.arity - 1} = c.args
  <2> SUFFICES ASSUME ~errors'
               PROVE  c.locals >= 0 /\ {c.owner[i] : i \in 0 .. c.arity - 1} = c.args
    OBVIOUS
  <2>1. ArgsFit(Top)
    BY <1>1 DEF RecordInv, Records
  <2>2. /\ Routine.arity <= Table.next_index
        /\ {Routine.owner[x] : x \in 0 .. Routine.arity - 1} = Routine.args
    BY <1>2, <1>9, <2>1 DEF ArgsFit
  <2>3. c.locals >= 0
    BY <1>8, <1>9, <2>2
  <2>. QED BY <1>8, <2>2, <2>3
<1>13. ClosureRecordFits'
  BY <1>8, <1>11, <1>12 DEF ClosureRecordFits
<1>14. ClosuresAreCounted'
  BY <1>L, <1>2, <1>8 DEF ClosuresAreCounted, RecordInv, Counts, Counted
<1>. QED BY <1>6, <1>7, <1>13, <1>14 DEF RecordInv

(* A routine that only gets on with what it is.                            *)
LEMMA RoutineRecords ==
    ASSUME Core, Core', RecordInv, NEW r, SameArgs(r, Routine) \/ errors',
           r.cc = Routine.cc, r.inner = Routine.inner,
           routines' = InRoutine(r), scopes' = scopes, ~errors' => ~errors,
           ClosureRecordFits' /\ ClosuresAreCounted'
    PROVE  RecordInv'
<1>1. Counts'
  BY CountsKept DEF RecordInv
<1>2. Records'
  <2>1. CASE errors'
    BY <2>1 DEF Records
  <2>2. CASE SameArgs(r, Routine)
    <3>1. \A k \in 1 .. Len(routines) : SameArgs(routines'[k], routines[k])
      BY <2>2, InRoutineIs DEF SameArgs
    <3>. QED BY <3>1, TablesKept, RecordsKept DEF RecordInv
  <2>. QED BY <2>1, <2>2
<1>. QED BY <1>1, <1>2 DEF RecordInv

LEMMA FormalRecords ==
    ASSUME Core, Core', RecordInv, NEW n \in Name, Formal(n) PROVE RecordInv'
<1>1. closure' = NoClosure /\ closure' = NoClosure' /\ Routine.formals
  BY DEF Formal, NoClosure
<1>2. CASE IsLocal(n)
  <2>. DEFINE r == [Routine EXCEPT !.arity = @ + 1]
  <2>1. r.cc = Routine.cc /\ r.inner = Routine.inner
    BY RoutineReaches DEF RoutineType
  <2>2. routines' = InRoutine(r) /\ scopes' = scopes /\ errors' = TRUE
    BY <1>2 DEF Formal
  <2>3. ClosureRecordFits' /\ ClosuresAreCounted'
    BY <1>1 DEF ClosureRecordFits, ClosuresAreCounted
  <2>. HIDE DEF r
  <2>. QED BY <2>1, <2>2, <2>3, RoutineRecords
<1>3. CASE ~IsLocal(n)
  <2>1. /\ CanDeclare /\ scopes' = DefinedVariable(n) /\ errors' = errors
        /\ routines' = InRoutine(WithVariable(TRUE)) /\ declared' = declared + 1
    BY <1>3 DEF Formal
  <2>2. TRUE = Routine.formals
    <3>1. Routine.formals \in BOOLEAN
      BY RoutineReaches DEF RoutineType
    <3>. QED BY <1>1, <3>1
  <2>. QED BY <1>1, <2>1, <2>2, DeclaredRecords
<1>. QED BY <1>2, <1>3

LEMMA BeginBodyRecords ==
    ASSUME Core, Core', RecordInv, BeginBody PROVE RecordInv'
<1>. DEFINE r == [Routine EXCEPT !.formals = FALSE]
<1>1. r.cc = Routine.cc /\ r.inner = Routine.inner /\ SameArgs(r, Routine)
  BY RoutineReaches DEF RoutineType, SameArgs
<1>2. routines' = InRoutine(r) /\ UNCHANGED <<scopes, closure, errors>>
  BY DEF BeginBody
<1>3. ClosureRecordFits' /\ ClosuresAreCounted'
  BY <1>2 DEF RecordInv, ClosureRecordFits, ClosuresAreCounted, NoClosure
<1>. HIDE DEF r
<1>. QED BY <1>1, <1>2, <1>3, RoutineRecords

LEMMA DeclareRecords ==
    ASSUME Core, RecordInv, NEW n \in Name, Declare(n), ~Routine.formals,
           ~errors' => ~errors, closure' = NoClosure
    PROVE  RecordInv'
<1>1. FALSE = Routine.formals
  <2>1. Routine.formals \in BOOLEAN
    BY RoutineReaches DEF RoutineType
  <2>. QED BY <2>1
<1>. QED BY <1>1, DeclaredRecords DEF Declare

LEMMA MentionRecords ==
    ASSUME Core, Core', RecordInv, errors \in BOOLEAN,
           NEW n \in Name, NEW assigning \in BOOLEAN, Mention(n, assigning)
    PROVE  RecordInv'
<1>1. closure' = NoClosure /\ ~Routine.formals /\ DOMAIN scopes = 1 .. Len(scopes)
  BY Shape DEF Mention, Core
<1>2. ~errors' => ~errors
  BY DEF Mention
<1>3. CASE UNCHANGED <<scopes, routines, declared>>
  BY <1>1, <1>2, <1>3, NamedRecords
<1>4. CASE UNCHANGED <<scopes, declared>> /\ \E i \in DOMAIN scopes :
              routines' = InRoutine(WithMention(i, n))
  BY <1>1, <1>2, <1>4, NamedRecords
<1>5. CASE Declare(n)
  BY <1>1, <1>2, <1>5, DeclareRecords
<1>. QED BY <1>3, <1>4, <1>5 DEF Mention

LEMMA DefineRecords ==
    ASSUME Core, Core', RecordInv,
           NEW n \in Name, NEW constant \in BOOLEAN, Define(n, constant)
    PROVE  RecordInv'
<1>1. closure' = NoClosure /\ ~Routine.formals /\ Top \in 1 .. Len(scopes)
  BY Shape DEF Define, AtStatement, Core
<1>2. ~errors' => ~errors
  BY DEF Define
<1>3. CASE IsLocal(n)
  <2>1. scopes' = scopes /\ routines' = InRoutine(WithMention(Top, n))
    BY <1>3 DEF Define
  <2>. QED BY <1>1, <1>2, <2>1, NamedRecords
<1>4. CASE ~IsLocal(n) /\ constant
  <2>1. scopes' = Defined(n, Constant) /\ routines' = routines
    BY <1>4 DEF Define
  <2>. QED BY <1>1, <1>2, <2>1, PlainSymbols, NamedRecords
<1>5. CASE ~IsLocal(n) /\ ~constant
  BY <1>1, <1>2, <1>5, DeclareRecords DEF Define
<1>. QED BY <1>3, <1>4, <1>5

LEMMA ImportRecords ==
    ASSUME Core, Core', RecordInv, NEW n \in Name, Import(n) PROVE RecordInv'
<1>1. /\ closure' = NoClosure /\ errors' = errors /\ routines' = routines
      /\ scopes' = Defined(n, Constant)
  BY DEF Import
<1>. QED BY <1>1, PlainSymbols, NamedRecords

LEMMA EndDefinitionRecords ==
    ASSUME Core, Core', PlainDefinitions, RecordInv, EndDefinition PROVE RecordInv'
<1>d. PICK d : d = defs[Len(defs)]
  OBVIOUS
<1>1. Len(defs) \in 1 .. Len(defs) /\ d \in DefType
  BY <1>d DEF EndDefinition, InInitializer, PlainDefinitions
<1>2. d.constant => closure = NoClosure
  BY <1>d, <1>1 DEF PlainDefinitions
<1>3. scopes' = scopes \/ scopes' = Defined(d.name, Constant)
  <2>1. \A i \in DOMAIN scopes, n \in Name : ~scopes[i].symbols[n].routine
    BY Shape DEF Core, PlainConstants
  <2>. QED BY <1>d, <1>2, <2>1 DEF EndDefinition
<1>4. d.name \in Name
  BY <1>1 DEF DefType
<1>5. closure' = NoClosure /\ routines' = routines /\ (~errors' => ~errors)
  BY DEF EndDefinition
<1>. QED BY <1>3, <1>4, <1>5, PlainSymbols, NamedRecords

(* What a program without constant routines may rely on: the invariant of  *)
(* the references, and what is said here of the records.                   *)
RecordIInv == IInv /\ errors \in BOOLEAN /\ RecordInv

LEMMA RecordsNext ==
    ASSUME ~ConstantRoutines, RecordIInv, IInv', [Next]_vars
    PROVE  RecordInv'
<1>. USE DEF RecordIInv, IInv
<1>1. CASE UNCHANGED vars
  <2>1. UNCHANGED <<scopes, routines, closure, errors>>
    BY <1>1 DEF vars
  <2>2. \A i \in 1 .. Len(scopes) : IsHome(i)' = IsHome(i) /\ ArgsFit(i)' = ArgsFit(i)
    BY <2>1 DEF IsHome, ArgsFit
  <2>3. Records'
    BY <2>1, <2>2 DEF RecordInv, Records
  <2>4. Counts'
    BY <2>1 DEF RecordInv, Counts
  <2>5. ClosureRecordFits' /\ ClosuresAreCounted'
    BY <2>1 DEF RecordInv, ClosureRecordFits, ClosuresAreCounted, NoClosure
  <2>. QED BY <2>1, <2>3, <2>4, <2>5 DEF RecordInv
<1>2. CASE Next
  BY <1>2, PredefinedAssumption, OpenBlockRecords, CloseBlockRecords, OpenRoutineRecords,
     BeginBodyRecords, CloseRoutineRecords, EndDefinitionRecords, FormalRecords,
     DefineRecords, MentionRecords, ImportRecords DEF Next
<1>. QED BY <1>1, <1>2

THEOREM RecordInvariantHolds ==
    ASSUME ~ConstantRoutines
    PROVE  Spec => []RecordInv
<1>1. Spec => []TypeOK
  BY TypesHold
<1>2. TypeOK => errors \in BOOLEAN
  BY DEF TypeOK
<1>3. Init => RecordInv
  BY InitRecords
<1>4. RecordInv /\ IInv /\ IInv' /\ errors \in BOOLEAN /\ [Next]_vars => RecordInv'
  BY RecordsNext DEF RecordIInv
<1>. QED BY <1>1, <1>2, <1>3, <1>4, InvariantHolds, PTL DEF Spec

(* The record that vm_run makes for a call, arity + locals slots long,     *)
(* has a slot for every variable of the routine and of its blocks, and the *)
(* arguments have the first of them, for any program that the parser took  *)
(* without an error.                                                       *)
THEOREM RecordsAreLongEnough ==
    ASSUME ~ConstantRoutines
    PROVE  Spec => []ClosureRecordFits
<1>1. RecordInv => ClosureRecordFits
  BY DEF RecordInv
<1>. QED BY <1>1, RecordInvariantHolds, PTL

(* Every closure that a routine makes is counted in its cc.                *)
THEOREM ClosuresCounted ==
    ASSUME ~ConstantRoutines
    PROVE  Spec => []ClosuresAreCounted
<1>1. RecordInv => ClosuresAreCounted
  BY DEF RecordInv
<1>. QED BY <1>1, RecordInvariantHolds, PTL
=============================================================================
