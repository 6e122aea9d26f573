-------------------------- MODULE ZendVariablesProofs --------------------------
(***************************************************************************)
(* Proof that the reference counts of ZendVariables are exact, that no     *)
(* reference holds a reference and that the empty-array literal is never   *)
(* written: for any variables, keys, scalars and number of cells, also     *)
(* when an array was stored in itself.  Then, that no cell is left behind  *)
(* which no variable leads to, and that sharing and copying cannot be      *)
(* seen, as long as that has not happened.                                 *)
(***************************************************************************)
EXTENDS ZendVariables, FiniteSetTheorems, TLAPS

Fields == {"kind", "rc", "at"}
Places == Cells \X (Vars \cup Keys \cup {REFVAL})

\* p is a place of m.
IsPlace(m, p) == p \in Places /\ p[2] \in DOMAIN m[p[1]].at

\* An array or a reference points to a cell that is one.
Points(m, z) == /\ IsArr(z) => z[2] \in Cells /\ m[z[2]].kind = "array"
                /\ IsRef(z) => z[2] \in Cells /\ m[z[2]].kind = "ref"

\* What a cell of a kind has.
CellShape(c, x) ==
  /\ DOMAIN x = Fields
  /\ x.rc \in Int
  /\ x.kind \in {"vars", "array", "ref", "free"}
  /\ x.kind = "vars" <=> c = VarCell
  /\ x.kind = "vars" => DOMAIN x.at = Vars
  /\ x.kind = "array" => DOMAIN x.at = Keys
  /\ x.kind = "ref" => DOMAIN x.at = {REFVAL}
  /\ x.kind = "free" => DOMAIN x.at = {}
Shape(m) ==
  /\ DOMAIN m = Cells
  /\ \A c \in Cells : CellShape(c, m[c])
  /\ m[Literal] = [kind |-> "array", rc |-> 2, at |-> NoElements]

\* No zval points to a freed cell, and references are flat.
Sound(m) ==
  \A c \in Cells : \A k \in DOMAIN m[c].at :
    /\ Points(m, m[c].at[k])
    /\ c # VarCell => ~IsRef(m[c].at[k])
    /\ m[c].kind = "ref" => m[c].at[k] # UNDEF

\* Every count is the number of zvals that point to the cell, with y and z, which are
\* in no place of the memory.
One(z, c) == IF Refcounted(z) /\ z[2] = c THEN 1 ELSE 0
Balanced(m, y, z) ==
  \A c \in Cells \ {VarCell, Literal} :
    m[c].rc = Cardinality(Pointers(m, Cells, c)) + One(y, c) + One(z, c)

Good(m, y, z) == /\ Shape(m) /\ Sound(m) /\ Balanced(m, y, z)
                 /\ Points(m, y) /\ Points(m, z)

\* The invariant.  Temporaries hold no references; a function's variables are unset
\* while it is not called, and the temporary while it is.
TempsInv(at) ==
  /\ ~IsRef(at["tmp"])
  /\ at["loop"] = UNDEF \/ IsArr(at["loop"])
  /\ frame \in {"main", "function"}
  /\ frame = "main" => \A v \in CalleeVars : at[v] = UNDEF
  /\ frame = "function" => at["tmp"] = UNDEF
  /\ pos \in Nat
MemInv == Good(mem, UNDEF, UNDEF) /\ TempsInv(mem[VarCell].at)

-------------------------------------------------------------------------------
(* Naturals and finite sets.                                               *)

\* A set of naturals has a least element; what follows by induction follows from it.
LEMMA Least ==
  ASSUME NEW S, S \subseteq Nat, S # {}
  PROVE  \E x \in S : \A y \in S : x <= y
<1>1. PICK x \in S : \A y \in S : ~(<<y, x>> \in OpToRel(<, Nat))
  BY NatLessThanWellFounded, WFMin, Zenon
<1>2. \A y \in S : ~(y < x)
  BY <1>1, Zenon DEF OpToRel
<1> QED
  BY <1>2

-------------------------------------------------------------------------------
(* Destroy, which is defined by recursion.                                 *)

\* Destroy makes MaxCells rounds of DestroyDead.
LEMMA DestroyIterates ==
  ASSUME NEW m
  PROVE  \E f : /\ f[0] = m
                /\ \A n \in 1 .. MaxCells : f[n] = DestroyDead(f[n - 1])
                /\ Destroy(m) = f[MaxCells]
<1> DEFINE Rounds(N, f) == f = [n \in 0 .. N |-> IF n = 0 THEN m ELSE DestroyDead(f[n - 1])]
           Bad == {N \in Nat : ~\E f : Rounds(N, f)}
<1>1. Bad = {}
  <2> SUFFICES ASSUME Bad # {} PROVE FALSE
    OBVIOUS
  <2>1. PICK N \in Bad : \A y \in Bad : N <= y
    <3> HIDE DEF Rounds
    <3> QED BY Least
  <2>2. CASE N = 0
    <3>1. Rounds(0, [n \in 0 .. 0 |-> m])
      OBVIOUS
    <3> QED
      BY <2>1, <2>2, <3>1
  <2>3. CASE N # 0
    <3>1. N - 1 \in Nat /\ N - 1 \notin Bad
      <4> HIDE DEF Rounds
      <4> QED BY <2>1, <2>3
    <3>2. PICK f : Rounds(N - 1, f)
      BY <3>1
    <3> DEFINE g == [n \in 0 .. N |-> IF n = N THEN DestroyDead(f[N - 1]) ELSE f[n]]
    <3>3. \A n \in 0 .. N : n = N \/ n \in 0 .. N - 1
      BY <2>1
    <3>4. \A n \in 0 .. N : n # 0 => n - 1 \in 0 .. N - 1 /\ n - 1 # N /\ n - 1 \in 0 .. N
      BY <2>1
    <3>5. \A n \in 0 .. N : g[n] = IF n = 0 THEN m ELSE DestroyDead(g[n - 1])
      <4> TAKE n \in 0 .. N
      <4>1. CASE n = N
        <5>1. g[n] = DestroyDead(f[N - 1]) /\ g[n - 1] = f[N - 1]
          BY <4>1, <2>3, <3>4, Zenon
        <5> QED BY <4>1, <5>1, <2>3
      <4>2. CASE n # N
        <5>1. n \in 0 .. N - 1 /\ g[n] = f[n]
          BY <4>2, <3>3, Zenon
        <5>2. n # 0 => g[n - 1] = f[n - 1]
          BY <3>4, Zenon
        <5>3. f[n] = IF n = 0 THEN m ELSE DestroyDead(f[n - 1])
          BY <3>2, <5>1
        <5> QED BY <5>1, <5>2, <5>3, Zenon
      <4> QED BY <4>1, <4>2
    <3>6. Rounds(N, g)
      BY <3>5
    <3> QED
      BY <3>6, <2>1
  <2> QED
    BY <2>2, <2>3
<1>2. MaxCells \in Nat
  BY BoundsAssumption
<1>3. \E f : Rounds(MaxCells, f)
  BY <1>1, <1>2
<1> DEFINE after == CHOOSE f : Rounds(MaxCells, f)
<1>4. Rounds(MaxCells, after)
  <2> HIDE DEF Rounds
  <2> QED BY <1>3, Zenon
<1>5. Destroy(m) = after[MaxCells]
  BY DEF Destroy
<1>6. \A n \in 0 .. MaxCells : after[n] = IF n = 0 THEN m ELSE DestroyDead(after[n - 1])
  <2> HIDE DEF after
  <2> QED BY <1>4
<1> HIDE DEF after
<1>7. after[0] = m
  BY <1>6, <1>2
<1>8. \A n \in 1 .. MaxCells : after[n] = DestroyDead(after[n - 1])
  BY <1>6, <1>2
<1> QED
  BY <1>5, <1>7, <1>8

-------------------------------------------------------------------------------
(* Places, and what points to a cell.                                      *)

LEMMA Cell == /\ Cells \subseteq Int /\ VarCell \in Cells /\ Literal \in Cells
              /\ VarCell # Literal /\ IsFiniteSet(Cells)
<1>1. IsFiniteSet(0 .. MaxCells - 1)
  BY BoundsAssumption, FS_Interval
<1> QED
  BY <1>1, BoundsAssumption DEF Cells, VarCell, Literal

LEMMA PlacesFinite == IsFiniteSet(Places)
<1>1. IsFiniteSet(Keys)
  BY BoundsAssumption, FS_Interval DEF Keys
<1>2. IsFiniteSet({"static", "tmp", "loop"})
  <2>1. IsFiniteSet({"static"})
    BY FS_Singleton
  <2>2. IsFiniteSet({"static"} \cup {"tmp"})
    BY <2>1, FS_AddElement
  <2>3. IsFiniteSet({"static"} \cup {"tmp"} \cup {"loop"})
    BY <2>2, FS_AddElement
  <2>4. {"static"} \cup {"tmp"} \cup {"loop"} = {"static", "tmp", "loop"}
    OBVIOUS
  <2> QED
    BY <2>3, <2>4
<1>3. IsFiniteSet(MainVars \cup CalleeVars)
  BY VarsAssumption, FS_Union
<1>4. IsFiniteSet(Vars)
  BY <1>2, <1>3, FS_Union DEF Vars
<1>5. IsFiniteSet(Vars \cup Keys)
  BY <1>1, <1>4, FS_Union
<1>6. IsFiniteSet((Vars \cup Keys) \cup {REFVAL})
  BY <1>5, FS_AddElement
<1> QED
  BY <1>6, Cell, FS_Product DEF Places

\* The value at p is counted at c.
Holder(m, p, c) == IsPlace(m, p) /\ Refcounted(Get(m, p)) /\ Get(m, p)[2] = c

LEMMA PlaceOf ==
  ASSUME NEW m, Shape(m), NEW c \in Cells, NEW k \in DOMAIN m[c].at
  PROVE  IsPlace(m, <<c, k>>)
BY DEF IsPlace, Places, Shape, CellShape

LEMMA PointersHeld ==
  ASSUME NEW m, Shape(m), NEW from \in SUBSET Cells, NEW c
  PROVE  /\ \A p : p \in Pointers(m, from, c) <=> Holder(m, p, c) /\ p[1] \in from
         /\ IsFiniteSet(Pointers(m, from, c))
         /\ Cardinality(Pointers(m, from, c)) \in Nat
<1>1. ASSUME NEW p, p \in Pointers(m, from, c)
      PROVE  Holder(m, p, c) /\ p[1] \in from
  <2>1. PICK d \in from : p \in {d} \X DOMAIN m[d].at
    BY <1>1 DEF Pointers
  <2>2. p = <<d, p[2]>> /\ p[2] \in DOMAIN m[d].at /\ p[1] = d
    BY <2>1
  <2>3. IsPlace(m, p)
    BY <2>2, PlaceOf
  <2> QED
    BY <1>1, <2>2, <2>3, Zenon DEF Holder, Pointers
<1>2. ASSUME NEW p, Holder(m, p, c), p[1] \in from
      PROVE  p \in Pointers(m, from, c)
  <2>1. p = <<p[1], p[2]>> /\ p[2] \in DOMAIN m[p[1]].at
    BY <1>2 DEF Holder, IsPlace, Places
  <2>2. p \in {p[1]} \X DOMAIN m[p[1]].at
    BY <2>1
  <2> QED
    BY <1>2, <2>2 DEF Holder, Pointers
<1>3. Pointers(m, from, c) \subseteq Places
  BY <1>1 DEF Holder, IsPlace
<1>4. IsFiniteSet(Pointers(m, from, c))
  BY <1>3, PlacesFinite, FS_Subset
<1> QED
  BY <1>1, <1>2, <1>4, FS_CardinalityType, Zenon

\* What Put changes.
LEMMA PutView ==
  ASSUME NEW m, Shape(m), NEW p, IsPlace(m, p), NEW z
  PROVE  LET n == Put(m, p, z)
         IN  /\ DOMAIN n = Cells
             /\ \A c \in Cells : /\ DOMAIN n[c] = Fields
                                 /\ n[c].kind = m[c].kind /\ n[c].rc = m[c].rc
                                 /\ DOMAIN n[c].at = DOMAIN m[c].at
             /\ \A c \in Cells : \A k \in DOMAIN m[c].at :
                  n[c].at[k] = IF <<c, k>> = p THEN z ELSE m[c].at[k]
             /\ \A c \in Cells : c # p[1] => n[c] = m[c]
             /\ Get(n, p) = z
<1> DEFINE n == Put(m, p, z)
<1>1. p = <<p[1], p[2]>> /\ p[1] \in Cells /\ p[2] \in DOMAIN m[p[1]].at
  BY DEF IsPlace, Places
<1>2. n = [m EXCEPT ![p[1]] = [m[p[1]] EXCEPT !.at = [m[p[1]].at EXCEPT ![p[2]] = z]]]
  BY DEF Put
<1>3. DOMAIN n = Cells /\ \A c \in Cells : c # p[1] => n[c] = m[c]
  BY <1>2 DEF Shape, CellShape
<1>4. n[p[1]] = [m[p[1]] EXCEPT !.at = [m[p[1]].at EXCEPT ![p[2]] = z]]
  BY <1>1, <1>2 DEF Shape, CellShape
<1>5. /\ DOMAIN n[p[1]] = Fields
      /\ n[p[1]].kind = m[p[1]].kind /\ n[p[1]].rc = m[p[1]].rc
      /\ n[p[1]].at = [m[p[1]].at EXCEPT ![p[2]] = z]
  BY <1>1, <1>4 DEF Shape, CellShape, Fields
<1> HIDE DEF n
<1>6. \A c \in Cells : DOMAIN n[c] = Fields /\ n[c].kind = m[c].kind /\ n[c].rc = m[c].rc
                       /\ DOMAIN n[c].at = DOMAIN m[c].at
  BY <1>3, <1>5 DEF Shape, CellShape
<1>7. \A c \in Cells : \A k \in DOMAIN m[c].at :
        n[c].at[k] = IF <<c, k>> = p THEN z ELSE m[c].at[k]
  BY <1>1, <1>3, <1>5
<1>8. Get(n, p) = z
  BY <1>1, <1>5 DEF Get
<1> QED
  BY <1>3, <1>6, <1>7, <1>8 DEF n

\* Two sets that differ in one element of each.
LEMMA SwapOne ==
  ASSUME NEW A, NEW B, IsFiniteSet(A), IsFiniteSet(B), NEW p, NEW q, A \ {p} = B \ {q}
  PROVE  Cardinality(A) - (IF p \in A THEN 1 ELSE 0) = Cardinality(B) - (IF q \in B THEN 1 ELSE 0)
<1>1. Cardinality(A) \in Nat /\ Cardinality(B) \in Nat
  BY FS_CardinalityType
<1>2. Cardinality(A \ {p}) = IF p \in A THEN Cardinality(A) - 1 ELSE Cardinality(A)
  BY FS_RemoveElement
<1>3. Cardinality(B \ {q}) = IF q \in B THEN Cardinality(B) - 1 ELSE Cardinality(B)
  BY FS_RemoveElement
<1> HIDE DEF IsFiniteSet
<1> QED
  BY <1>1, <1>2, <1>3

LEMMA OneType == \A z, c : One(z, c) \in 0 .. 1
BY DEF One

\* A value that is not counted can be held or not.
LEMMA Uncounted ==
  ASSUME NEW m, NEW x, NEW y, NEW z, Good(m, x, y), ~Refcounted(y), ~Refcounted(z)
  PROVE  Good(m, x, z)
<1>1. Points(m, z)
  BY Cell DEF Points, Refcounted, Good, Shape, CellShape
<1>2. \A c : One(y, c) = One(z, c)
  BY DEF One
<1> QED
  BY <1>1, <1>2 DEF Good, Balanced

LEMMA Undefined == /\ ~IsArr(UNDEF) /\ ~IsRef(UNDEF) /\ ~Refcounted(UNDEF)
                   /\ ~IsArr(NULL) /\ ~IsRef(NULL) /\ ~Refcounted(NULL) /\ NULL # UNDEF
                   /\ \A n : ~IsArr(LONG(n)) /\ ~IsRef(LONG(n)) /\ ~Refcounted(LONG(n))
                             /\ LONG(n) # UNDEF
                   /\ \A c : IsArr(ARR(c)) /\ ~IsRef(ARR(c)) /\ ARR(c) # UNDEF /\ ARR(c)[2] = c
                             /\ (Refcounted(ARR(c)) <=> c # Literal)
                   /\ \A c : ~IsArr(REF(c)) /\ IsRef(REF(c)) /\ REF(c) # UNDEF /\ REF(c)[2] = c
                             /\ Refcounted(REF(c))
BY DEF UNDEF, NULL, LONG, ARR, REF, IsArr, IsRef, Refcounted

\* A cell that is counted is neither that of the variables nor the literal.
LEMMA CountedCell ==
  ASSUME NEW m, Shape(m), NEW z, Points(m, z), Refcounted(z)
  PROVE  z[2] \in Cells \ {VarCell, Literal} /\ m[z[2]].kind \in {"array", "ref"}
BY DEF Points, Refcounted, Shape, CellShape, Literal, VarCell

\* A place gets the value that was held, and its own is held.
LEMMA PutGood ==
  ASSUME NEW m, NEW y, NEW z, Good(m, y, z), NEW p, IsPlace(m, p), p[1] # Literal,
         p[1] # VarCell => ~IsRef(z), m[p[1]].kind = "ref" => z # UNDEF
  PROVE  Good(Put(m, p, z), y, Get(m, p))
<1> DEFINE n == Put(m, p, z)
<1>1. /\ DOMAIN n = Cells
      /\ \A c \in Cells : /\ DOMAIN n[c] = Fields
                          /\ n[c].kind = m[c].kind /\ n[c].rc = m[c].rc
                          /\ DOMAIN n[c].at = DOMAIN m[c].at
      /\ \A c \in Cells : \A k \in DOMAIN m[c].at :
           n[c].at[k] = IF <<c, k>> = p THEN z ELSE m[c].at[k]
      /\ \A c \in Cells : c # p[1] => n[c] = m[c]
      /\ Get(n, p) = z
  BY PutView DEF Good
<1>2. p = <<p[1], p[2]>> /\ p[1] \in Cells /\ p[2] \in DOMAIN m[p[1]].at
  BY DEF IsPlace, Places
<1> HIDE DEF n
<1>3. Shape(n)
  BY <1>1, Cell DEF Good, Shape, CellShape
<1>4. \A x : Points(m, x) => Points(n, x)
  BY <1>1 DEF Points
<1>5. Sound(n)
  <2> SUFFICES ASSUME NEW c \in Cells, NEW k \in DOMAIN n[c].at
               PROVE  /\ Points(n, n[c].at[k])
                      /\ c # VarCell => ~IsRef(n[c].at[k])
                      /\ n[c].kind = "ref" => n[c].at[k] # UNDEF
    BY DEF Sound
  <2>1. k \in DOMAIN m[c].at /\ n[c].kind = m[c].kind
    BY <1>1
  <2>2. CASE <<c, k>> = p
    <3>1. n[c].at[k] = z /\ c = p[1]
      BY <1>1, <2>1, <2>2
    <3> QED
      BY <1>4, <2>1, <3>1, Zenon DEF Good
  <2>3. CASE <<c, k>> # p
    <3>1. n[c].at[k] = m[c].at[k]
      BY <1>1, <2>1, <2>3
    <3> QED
      BY <1>4, <2>1, <3>1, Zenon DEF Good, Sound
  <2> QED
    BY <2>2, <2>3
<1>6. Points(n, y) /\ Points(n, Get(m, p))
  <2>1. Points(m, m[p[1]].at[p[2]])
    BY <1>2 DEF Good, Sound
  <2> QED
    BY <1>4, <2>1 DEF Good, Get
<1>7. Balanced(n, y, Get(m, p))
  <2> SUFFICES ASSUME NEW c \in Cells \ {VarCell, Literal}
               PROVE  n[c].rc = Cardinality(Pointers(n, Cells, c)) + One(y, c) + One(Get(m, p), c)
    BY DEF Balanced
  <2> DEFINE A == Pointers(m, Cells, c)
             B == Pointers(n, Cells, c)
  <2>1. /\ \A q : q \in A <=> Holder(m, q, c) /\ q[1] \in Cells
        /\ IsFiniteSet(A) /\ Cardinality(A) \in Nat
    BY PointersHeld DEF Good
  <2>2. /\ \A q : q \in B <=> Holder(n, q, c) /\ q[1] \in Cells
        /\ IsFiniteSet(B) /\ Cardinality(B) \in Nat
    BY PointersHeld, <1>3
  <2>3. m[c].rc = Cardinality(A) + One(y, c) + One(z, c)
    BY DEF Good, Balanced
  <2> HIDE DEF A, B
  <2>4. \A q : IsPlace(n, q) <=> IsPlace(m, q)
    BY <1>1 DEF IsPlace, Places
  <2>5. \A q : IsPlace(m, q) /\ q # p => Get(n, q) = Get(m, q)
    BY <1>1 DEF IsPlace, Places, Get
  <2>6. \A q : q # p => (Holder(n, q, c) <=> Holder(m, q, c))
    BY <2>4, <2>5, Zenon DEF Holder
  <2>7. A \ {p} = B \ {p}
    BY <2>1, <2>2, <2>6, Zenon
  <2>8. Cardinality(A) - (IF p \in A THEN 1 ELSE 0) = Cardinality(B) - (IF p \in B THEN 1 ELSE 0)
    BY <2>1, <2>2, <2>7, SwapOne
  <2>9. (p \in A <=> Refcounted(Get(m, p)) /\ Get(m, p)[2] = c)
        /\ (p \in B <=> Refcounted(z) /\ z[2] = c)
    BY <1>1, <1>2, <2>1, <2>2, <2>4, Zenon DEF Holder
  <2>10. One(Get(m, p), c) = (IF p \in A THEN 1 ELSE 0) /\ One(z, c) = (IF p \in B THEN 1 ELSE 0)
    BY <2>9 DEF One
  <2>11. n[c].rc = m[c].rc
    BY <1>1
  <2>12. n[c].rc = Cardinality(B) + One(y, c) + One(Get(m, p), c)
    BY <2>1, <2>2, <2>3, <2>8, <2>10, <2>11, OneType
  <2> QED
    BY <2>12 DEF B
<1> QED
  BY <1>3, <1>5, <1>6, <1>7 DEF Good, n

-------------------------------------------------------------------------------
(* Counting.                                                               *)

\* Only counts differ, and not that of the literal.
SameButCounts(m, n) ==
  /\ DOMAIN n = Cells
  /\ \A c \in Cells : /\ DOMAIN n[c] = Fields /\ n[c].rc \in Int
                      /\ n[c].kind = m[c].kind /\ n[c].at = m[c].at
  /\ n[Literal] = m[Literal]

LEMMA Recounted ==
  ASSUME NEW m, Shape(m), NEW n, SameButCounts(m, n)
  PROVE  /\ Shape(n) /\ (Sound(m) => Sound(n))
         /\ \A x : Points(m, x) => Points(n, x)
         /\ \A p : (IsPlace(n, p) <=> IsPlace(m, p)) /\ (IsPlace(m, p) => Get(n, p) = Get(m, p))
         /\ \A from \in SUBSET Cells : \A c : Pointers(n, from, c) = Pointers(m, from, c)
<1> USE DEF SameButCounts
<1>1. Shape(n)
  BY Cell DEF Shape, CellShape
<1>2. \A x : Points(m, x) => Points(n, x)
  BY DEF Points
<1>3. Sound(m) => Sound(n)
  BY <1>2 DEF Sound
<1>4. \A p : (IsPlace(n, p) <=> IsPlace(m, p)) /\ (IsPlace(m, p) => Get(n, p) = Get(m, p))
  BY DEF IsPlace, Places, Get
<1>5. ASSUME NEW from \in SUBSET Cells, NEW c
      PROVE  Pointers(n, from, c) = Pointers(m, from, c)
  <2>1. \A p : p \in Pointers(m, from, c) <=> Holder(m, p, c) /\ p[1] \in from
    BY PointersHeld
  <2>2. \A p : p \in Pointers(n, from, c) <=> Holder(n, p, c) /\ p[1] \in from
    BY PointersHeld, <1>1
  <2>3. \A p : Holder(n, p, c) <=> Holder(m, p, c)
    BY <1>4, Zenon DEF Holder
  <2> QED
    BY <2>1, <2>2, <2>3, Zenon
<1> QED
  BY <1>1, <1>2, <1>3, <1>4, <1>5, Zenon

\* Counts that fit what is held.
LEMMA RecountedGood ==
  ASSUME NEW m, Shape(m), Sound(m), NEW n, SameButCounts(m, n), NEW y, NEW z,
         Points(m, y), Points(m, z),
         \A c \in Cells \ {VarCell, Literal} :
           n[c].rc = Cardinality(Pointers(m, Cells, c)) + One(y, c) + One(z, c)
  PROVE  Good(n, y, z)
<1>1. Balanced(n, y, z)
  <2>1. \A from \in SUBSET Cells : \A c : Pointers(n, from, c) = Pointers(m, from, c)
    BY Recounted, Zenon
  <2>2. Cells \in SUBSET Cells
    OBVIOUS
  <2> QED
    BY <2>1, <2>2, Zenon DEF Balanced
<1> QED
  BY <1>1, Recounted, Zenon DEF Good

\* The count of the cell of a counted value changes.
LEMMA CountView ==
  ASSUME NEW m, Shape(m), NEW z, Points(m, z), Refcounted(z), NEW i \in Int
  PROVE  LET n == [m EXCEPT ![z[2]].rc = i]
         IN  /\ SameButCounts(m, n)
             /\ \A c \in Cells : n[c].rc = IF c = z[2] THEN i ELSE m[c].rc
<1> DEFINE n == [m EXCEPT ![z[2]].rc = i]
<1>1. z[2] \in Cells \ {VarCell, Literal}
  BY CountedCell
<1>2. n[z[2]] = [m[z[2]] EXCEPT !.rc = i] /\ \A c \in Cells : c # z[2] => n[c] = m[c]
  BY <1>1 DEF Shape, CellShape
<1>3. DOMAIN n = Cells
  BY DEF Shape, CellShape
<1> HIDE DEF n
<1>4. \A c \in Cells : /\ DOMAIN n[c] = Fields /\ n[c].kind = m[c].kind /\ n[c].at = m[c].at
                       /\ n[c].rc = IF c = z[2] THEN i ELSE m[c].rc
  BY <1>1, <1>2 DEF Shape, CellShape, Fields
<1>5. SameButCounts(m, n)
  BY <1>1, <1>2, <1>3, <1>4, Cell DEF SameButCounts, Shape, CellShape
<1> QED
  BY <1>4, <1>5 DEF n

LEMMA AddRefGood ==
  ASSUME NEW m, NEW z, Good(m, UNDEF, UNDEF), Points(m, z)
  PROVE  Good(AddRef(m, z), UNDEF, z) /\ SameButCounts(m, AddRef(m, z))
<1> USE DEF Good
<1>1. CASE Refcounted(z)
  <2> DEFINE i == m[z[2]].rc + 1
             n == [m EXCEPT ![z[2]].rc = i]
  <2>1. z[2] \in Cells /\ i \in Int
    BY <1>1, CountedCell DEF Shape, CellShape
  <2>2. AddRef(m, z) = n
    BY <1>1 DEF AddRef
  <2> HIDE DEF i
  <2>3. SameButCounts(m, n) /\ \A c \in Cells : n[c].rc = IF c = z[2] THEN i ELSE m[c].rc
    BY <1>1, <2>1, CountView
  <2> HIDE DEF n
  <2>4. ASSUME NEW c \in Cells \ {VarCell, Literal}
        PROVE  n[c].rc = Cardinality(Pointers(m, Cells, c)) + One(UNDEF, c) + One(z, c)
    <3>1. m[c].rc = Cardinality(Pointers(m, Cells, c)) + One(UNDEF, c) + One(UNDEF, c)
      BY DEF Balanced
    <3>2. One(UNDEF, c) = 0 /\ One(z, c) = IF c = z[2] THEN 1 ELSE 0
      BY <1>1, Undefined DEF One
    <3>3. n[c].rc = IF c = z[2] THEN m[c].rc + 1 ELSE m[c].rc
      BY <2>3 DEF i
    <3>4. Cardinality(Pointers(m, Cells, c)) \in Nat
      BY PointersHeld
    <3> QED
      BY <3>1, <3>2, <3>3, <3>4
  <2>5. Good(n, UNDEF, z)
    <3> HIDE DEF Good
    <3> QED
      BY <2>3, <2>4, RecountedGood, Zenon DEF Good
  <2> QED
    BY <2>2, <2>3, <2>5
<1>2. CASE ~Refcounted(z)
  <2>1. AddRef(m, z) = m
    BY <1>2 DEF AddRef
  <2>2. Good(m, UNDEF, z)
    BY <1>2, Undefined, Uncounted
  <2>3. SameButCounts(m, m)
    BY DEF SameButCounts, Shape, CellShape
  <2> QED
    BY <2>1, <2>2, <2>3
<1> QED
  BY <1>1, <1>2

\* The count of a held value is given back.
Drop(m, z) == IF Refcounted(z) THEN [m EXCEPT ![z[2]].rc = @ - 1] ELSE m

LEMMA DropGood ==
  ASSUME NEW m, NEW y, NEW z, Good(m, y, z)
  PROVE  Good(Drop(m, z), y, UNDEF) /\ SameButCounts(m, Drop(m, z))
<1> USE DEF Good
<1>1. CASE Refcounted(z)
  <2> DEFINE i == m[z[2]].rc - 1
             n == [m EXCEPT ![z[2]].rc = i]
  <2>1. z[2] \in Cells /\ i \in Int
    BY <1>1, CountedCell DEF Shape, CellShape
  <2>2. Drop(m, z) = n
    BY <1>1 DEF Drop
  <2> HIDE DEF i
  <2>3. SameButCounts(m, n) /\ \A c \in Cells : n[c].rc = IF c = z[2] THEN i ELSE m[c].rc
    BY <1>1, <2>1, CountView
  <2> HIDE DEF n
  <2>4. ASSUME NEW c \in Cells \ {VarCell, Literal}
        PROVE  n[c].rc = Cardinality(Pointers(m, Cells, c)) + One(y, c) + One(UNDEF, c)
    <3>1. m[c].rc = Cardinality(Pointers(m, Cells, c)) + One(y, c) + One(z, c)
      BY DEF Balanced
    <3>2. One(UNDEF, c) = 0 /\ One(z, c) = IF c = z[2] THEN 1 ELSE 0
      BY <1>1, Undefined DEF One
    <3>3. n[c].rc = IF c = z[2] THEN m[c].rc - 1 ELSE m[c].rc
      BY <2>3 DEF i
    <3>4. Cardinality(Pointers(m, Cells, c)) \in Nat
      BY PointersHeld
    <3> QED
      BY <3>1, <3>2, <3>3, <3>4, OneType
  <2>5. Points(m, UNDEF)
    BY Undefined DEF Points
  <2>6. Good(n, y, UNDEF)
    <3> HIDE DEF Good
    <3> QED
      BY <2>3, <2>4, <2>5, RecountedGood, Zenon DEF Good
  <2> QED
    BY <2>2, <2>3, <2>6
<1>2. CASE ~Refcounted(z)
  <2>1. Drop(m, z) = m
    BY <1>2 DEF Drop
  <2>2. Good(m, y, UNDEF)
    BY <1>2, Undefined, Uncounted
  <2>3. SameButCounts(m, m)
    BY DEF SameButCounts, Shape, CellShape
  <2> QED
    BY <2>1, <2>2, <2>3
<1> QED
  BY <1>1, <1>2

-------------------------------------------------------------------------------
(* Freeing.                                                                *)

\* The variables keep their values, and free cells stay free.
Kept(m, n) == n[VarCell].at = m[VarCell].at /\ Unused(m) \subseteq Unused(n)

LEMMA KeptBoth ==
  ASSUME NEW l, NEW m, NEW n, Kept(l, m), Kept(m, n)
  PROVE  Kept(l, n)
BY DEF Kept

LEMMA KeptCounts ==
  ASSUME NEW m, NEW n, SameButCounts(m, n)
  PROVE  Kept(m, n)
BY Cell DEF Kept, SameButCounts, Unused

LEMMA NoneWithout ==
  ASSUME NEW m, Shape(m), NEW c, Cardinality(Pointers(m, Cells, c)) = 0
  PROVE  \A p : ~(Holder(m, p, c) /\ p[1] \in Cells)
<1>1. IsFiniteSet(Pointers(m, Cells, c))
  BY PointersHeld
<1>2. Pointers(m, Cells, c) = {}
  BY <1>1, FS_EmptySet
<1> QED
  BY <1>2, PointersHeld

\* What points to a cell without its count.
LEMMA PlainCells ==
  ASSUME NEW m, Shape(m), Sound(m), NEW from \in SUBSET Cells
  PROVE  Pointers(m, from, VarCell) = {} /\ Pointers(m, from, Literal) = {}
<1>1. ASSUME NEW p, NEW c, Holder(m, p, c)
      PROVE  c \notin {VarCell, Literal}
  <2>1. p[1] \in Cells /\ p[2] \in DOMAIN m[p[1]].at
    BY <1>1 DEF Holder, IsPlace, Places
  <2>2. Points(m, Get(m, p))
    BY <2>1 DEF Sound, Get
  <2> QED
    BY <1>1, <2>2, CountedCell DEF Holder
<1> QED
  BY <1>1, PointersHeld

\* A cell whose count is zero is freed, and with it what it holds.
LEMMA DestroyDeadGood ==
  ASSUME NEW m, Good(m, UNDEF, UNDEF)
  PROVE  Good(DestroyDead(m), UNDEF, UNDEF) /\ Kept(m, DestroyDead(m))
<1> DEFINE n == DestroyDead(m)
           dead == Dead(m)
<1>0. Shape(m) /\ Sound(m) /\ Balanced(m, UNDEF, UNDEF)
  BY DEF Good
<1>1. dead \subseteq Cells \ {VarCell, Literal}
  BY <1>0 DEF Dead, Shape, CellShape
<1>2. ASSUME NEW d \in dead
      PROVE  m[d].rc = 0 /\ \A p : ~(Holder(m, p, d) /\ p[1] \in Cells)
  <2>1. m[d].rc = 0 /\ d \in Cells \ {VarCell, Literal}
    BY <1>1 DEF Dead
  <2>2. One(UNDEF, d) = 0
    BY Undefined DEF One
  <2>3. Cardinality(Pointers(m, Cells, d)) \in Nat
    BY <1>0, PointersHeld
  <2>4. m[d].rc = Cardinality(Pointers(m, Cells, d)) + One(UNDEF, d) + One(UNDEF, d)
    BY <1>0, <2>1 DEF Balanced
  <2>5. Cardinality(Pointers(m, Cells, d)) = 0
    BY <2>1, <2>2, <2>3, <2>4
  <2> QED
    BY <1>0, <2>1, <2>5, NoneWithout
<1>3. /\ DOMAIN n = Cells
      /\ \A c \in dead : n[c] = FreeCell
      /\ \A c \in Cells \ dead :
           n[c] = [m[c] EXCEPT !.rc = @ - Cardinality(Pointers(m, dead, c))]
  BY <1>1 DEF DestroyDead
<1> HIDE DEF n, dead
<1>4. \A c \in dead : /\ DOMAIN n[c] = Fields /\ n[c].kind = "free" /\ n[c].rc = 0
                      /\ DOMAIN n[c].at = {}
  BY <1>3 DEF FreeCell, Fields
<1>5. \A c \in Cells \ dead : /\ DOMAIN n[c] = Fields /\ n[c].kind = m[c].kind
                              /\ n[c].at = m[c].at
                              /\ n[c].rc = m[c].rc - Cardinality(Pointers(m, dead, c))
  BY <1>0, <1>3 DEF Shape, CellShape, Fields
<1>6. \A c \in Cells : Cardinality(Pointers(m, dead, c)) \in Nat
  BY <1>0, <1>1, PointersHeld
<1>7. n[Literal] = m[Literal]
  <2>1. Pointers(m, dead, Literal) = {}
    BY <1>0, <1>1, PlainCells
  <2>2. n[Literal] = [m[Literal] EXCEPT !.rc = @ - 0]
    BY <1>1, <1>3, <2>1, Cell, FS_EmptySet
  <2> QED
    BY <1>0, <2>2 DEF Shape, CellShape
<1>8. Shape(n)
  BY <1>0, <1>1, <1>3, <1>4, <1>5, <1>6, <1>7, Cell DEF Shape, CellShape
<1>9. \A p : IsPlace(n, p) <=> IsPlace(m, p) /\ p[1] \notin dead
  BY <1>4, <1>5 DEF IsPlace, Places
<1>10. \A p : IsPlace(n, p) => Get(n, p) = Get(m, p)
  BY <1>5, <1>9 DEF IsPlace, Places, Get
<1>11. \A p, c : Holder(n, p, c) <=> Holder(m, p, c) /\ p[1] \notin dead
  BY <1>9, <1>10, Zenon DEF Holder
<1>12. Sound(n)
  <2> SUFFICES ASSUME NEW c \in Cells, NEW k \in DOMAIN n[c].at
               PROVE  /\ Points(n, n[c].at[k])
                      /\ c # VarCell => ~IsRef(n[c].at[k])
                      /\ n[c].kind = "ref" => n[c].at[k] # UNDEF
    BY DEF Sound
  <2>1. c \notin dead
    BY <1>4
  <2>2. n[c].at = m[c].at /\ n[c].kind = m[c].kind
    BY <1>5, <2>1
  <2> DEFINE z == m[c].at[k]
  <2>3. /\ Points(m, z)
        /\ c # VarCell => ~IsRef(z)
        /\ m[c].kind = "ref" => z # UNDEF
    BY <1>0, <2>2 DEF Sound
  <2>4. Holder(m, <<c, k>>, z[2]) \/ ~Refcounted(z)
    BY <1>0, <2>2, PlaceOf DEF Holder, Get
  <2> HIDE DEF z
  <2>5. ~Refcounted(z) \/ z[2] \notin dead
    BY <1>2, <2>4
  <2>6. Points(n, z)
    <3>1. CASE ~Refcounted(z)
      BY <1>7, <2>3, <3>1 DEF Points, Refcounted
    <3>2. CASE z[2] \notin dead
      BY <1>5, <2>3, <3>2 DEF Points
    <3> QED
      BY <2>5, <3>1, <3>2
  <2> QED
    BY <2>2, <2>3, <2>6 DEF z
<1>13. Balanced(n, UNDEF, UNDEF)
  <2> SUFFICES ASSUME NEW c \in Cells \ {VarCell, Literal}
               PROVE  n[c].rc = Cardinality(Pointers(n, Cells, c)) + One(UNDEF, c) + One(UNDEF, c)
    BY DEF Balanced
  <2> DEFINE A == Pointers(m, Cells, c)
             B == Pointers(n, Cells, c)
             D == Pointers(m, dead, c)
  <2>1. One(UNDEF, c) = 0
    BY Undefined DEF One
  <2>2. /\ \A p : p \in A <=> Holder(m, p, c) /\ p[1] \in Cells
        /\ IsFiniteSet(A) /\ Cardinality(A) \in Nat
    BY <1>0, PointersHeld
  <2>3. \A p : p \in B <=> Holder(n, p, c) /\ p[1] \in Cells
    BY <1>8, PointersHeld
  <2>4. \A p : p \in D <=> Holder(m, p, c) /\ p[1] \in dead
    BY <1>0, <1>1, PointersHeld
  <2>5. m[c].rc = Cardinality(A) + One(UNDEF, c) + One(UNDEF, c)
    BY <1>0 DEF Balanced
  <2>6. c \notin dead => n[c].rc = m[c].rc - Cardinality(D)
    BY <1>5
  <2> HIDE DEF A, B, D
  <2>7. B = A \ D /\ A \cap D = D
    BY <1>1, <1>11, <2>2, <2>3, <2>4
  <2>8. Cardinality(B) = Cardinality(A) - Cardinality(D)
    BY <2>2, <2>7, FS_Difference
  <2>9. c \in dead => B = {}
    BY <1>2, <1>11, <2>3
  <2>10. c \in dead => n[c].rc = Cardinality(B)
    BY <1>4, <2>9, FS_EmptySet
  <2>11. n[c].rc = Cardinality(B)
    BY <2>1, <2>2, <2>5, <2>6, <2>8, <2>10
  <2>12. Cardinality(B) \in Nat
    BY <2>2, <2>7, FS_Difference, FS_CardinalityType
  <2>13. n[c].rc = Cardinality(B) + One(UNDEF, c) + One(UNDEF, c)
    BY <2>1, <2>11, <2>12
  <2> QED
    BY <2>13 DEF B
<1>14. Points(n, UNDEF)
  BY Undefined DEF Points
<1>15. Kept(m, n)
  BY <1>1, <1>4, <1>5, Cell DEF Kept, Unused
<1> QED
  BY <1>8, <1>12, <1>13, <1>14, <1>15 DEF Good, n

\* Destroy frees cells and nothing else.
LEMMA DestroyGood ==
  ASSUME NEW m, Good(m, UNDEF, UNDEF)
  PROVE  Good(Destroy(m), UNDEF, UNDEF) /\ Kept(m, Destroy(m))
<1>1. PICK f : /\ f[0] = m
               /\ \A n \in 1 .. MaxCells : f[n] = DestroyDead(f[n - 1])
               /\ Destroy(m) = f[MaxCells]
  BY DestroyIterates
<1> DEFINE Fine(n) == Good(f[n], UNDEF, UNDEF) /\ Kept(m, f[n])
           Bad == {n \in 0 .. MaxCells : ~Fine(n)}
<1>2. Bad = {}
  <2> SUFFICES ASSUME Bad # {} PROVE FALSE
    OBVIOUS
  <2>0. Bad \subseteq Nat
    BY BoundsAssumption
  <2>1. PICK n \in Bad : \A i \in Bad : n <= i
    <3> HIDE DEF Bad
    <3> QED BY <2>0, Least
  <2>2. Fine(0)
    BY <1>1 DEF Kept
  <2>3. n \in 1 .. MaxCells
    <3> HIDE DEF Fine
    <3> QED BY <2>1, <2>2
  <2>4. n - 1 \in 0 .. MaxCells /\ n - 1 \notin Bad
    <3>1. n - 1 \in 0 .. MaxCells /\ ~(n <= n - 1)
      BY <2>3, BoundsAssumption
    <3> HIDE DEF Bad
    <3> QED BY <2>1, <3>1
  <2>5. Fine(n - 1)
    BY <2>4
  <2>6. f[n] = DestroyDead(f[n - 1])
    BY <1>1, <2>3
  <2>7. Good(f[n], UNDEF, UNDEF) /\ Kept(f[n - 1], f[n])
    BY <2>5, <2>6, DestroyDeadGood
  <2>8. Fine(n)
    BY <2>5, <2>7, KeptBoth
  <2> QED
    BY <2>1, <2>8
<1>3. MaxCells \in 0 .. MaxCells
  BY BoundsAssumption
<1> QED
  BY <1>1, <1>2, <1>3

\* What was held is released.
LEMMA ReleaseGood ==
  ASSUME NEW m, NEW z, Good(m, UNDEF, z)
  PROVE  Good(Release(m, z), UNDEF, UNDEF) /\ Kept(m, Release(m, z))
<1>1. Good(Drop(m, z), UNDEF, UNDEF) /\ Kept(m, Drop(m, z))
  BY DropGood, KeptCounts
<1>2. Good(Destroy(Drop(m, z)), UNDEF, UNDEF) /\ Kept(Drop(m, z), Destroy(Drop(m, z)))
  BY <1>1, DestroyGood
<1>3. Kept(m, Destroy(Drop(m, z)))
  BY <1>1, <1>2, KeptBoth
<1>4. Release(m, z) \in {Drop(m, z), Destroy(Drop(m, z))}
  BY DEF Release, Drop
<1> QED
  BY <1>1, <1>2, <1>3, <1>4

-------------------------------------------------------------------------------
(* New cells.                                                              *)

LEMMA NewCellFree ==
  ASSUME NEW m, Shape(m), Unused(m) # {}
  PROVE  /\ NewCell(m) \in Cells \ {VarCell, Literal}
         /\ NewCell(m) \in Unused(m) /\ m[NewCell(m)].kind = "free"
<1>1. Unused(m) \subseteq Nat
  BY DEF Unused, Cells
<1>2. \E c \in Unused(m) : \A d \in Unused(m) : c <= d
  BY <1>1, Least
<1>3. NewCell(m) \in Unused(m)
  BY <1>2, Zenon DEF NewCell
<1> QED
  BY <1>3 DEF Unused, Shape, CellShape

\* Nothing points to a free cell.
LEMMA FreeCellUnknown ==
  ASSUME NEW m, Shape(m), Sound(m), NEW c \in Unused(m)
  PROVE  /\ \A z : Points(m, z) => One(z, c) = 0
         /\ \A p : ~Holder(m, p, c)
         /\ \A p : IsPlace(m, p) => p[1] # c
<1>1. c \in Cells /\ m[c].kind = "free" /\ DOMAIN m[c].at = {}
  BY DEF Unused, Shape, CellShape
<1>2. \A z : Points(m, z) => ~(Refcounted(z) /\ z[2] = c)
  BY <1>1 DEF Points, Refcounted
<1>3. \A z : Points(m, z) => One(z, c) = 0
  BY <1>2 DEF One
<1>4. \A p : IsPlace(m, p) => Points(m, Get(m, p))
  BY DEF IsPlace, Places, Sound, Get
<1>5. \A p : ~Holder(m, p, c)
  BY <1>2, <1>4, Zenon DEF Holder
<1>6. \A p : IsPlace(m, p) => p[1] # c
  BY <1>1 DEF IsPlace
<1> QED
  BY <1>3, <1>5, <1>6

LEMMA GoodSwap ==
  ASSUME NEW m, NEW y, NEW z, Good(m, y, z)
  PROVE  Good(m, z, y)
<1>1. ASSUME NEW c \in Cells \ {VarCell, Literal}
      PROVE  m[c].rc = Cardinality(Pointers(m, Cells, c)) + One(z, c) + One(y, c)
  <2>1. m[c].rc = Cardinality(Pointers(m, Cells, c)) + One(y, c) + One(z, c)
    BY DEF Good, Balanced
  <2>2. Cardinality(Pointers(m, Cells, c)) \in Nat
    BY PointersHeld DEF Good
  <2> QED
    BY <2>1, <2>2, OneType
<1> QED
  BY <1>1 DEF Good, Balanced

\* A new cell x takes the place of a free one.
IsNewCell(x) == /\ DOMAIN x = Fields /\ x.rc = 1 /\ x.kind \in {"array", "ref"}
                /\ x.kind = "array" => DOMAIN x.at = Keys
                /\ x.kind = "ref" => DOMAIN x.at = {REFVAL}
AddCell(m, x) == [m EXCEPT ![NewCell(m)] = x]

LEMMA AddCellView ==
  ASSUME NEW m, Shape(m), Unused(m) # {}, NEW x, IsNewCell(x)
  PROVE  LET n == AddCell(m, x)
             c == NewCell(m)
         IN  /\ Shape(n) /\ n[c] = x
             /\ \A d \in Cells : d # c => n[d] = m[d]
             /\ \A p : IsPlace(m, p) => IsPlace(n, p) /\ Get(n, p) = Get(m, p)
             /\ \A p : IsPlace(n, p) /\ ~IsPlace(m, p) => p[1] = c
             /\ \A z : Points(m, z) => Points(n, z)
<1> DEFINE n == AddCell(m, x)
           c == NewCell(m)
<1>1. c \in Cells \ {VarCell, Literal} /\ m[c].kind = "free"
  BY NewCellFree
<1>2. DOMAIN n = Cells /\ n[c] = x /\ \A d \in Cells : d # c => n[d] = m[d]
  BY <1>1 DEF AddCell, Shape, CellShape
<1> HIDE DEF n, c
<1>3. Shape(n)
  <2>1. CellShape(c, n[c])
    BY <1>1, <1>2 DEF CellShape, IsNewCell
  <2>2. \A d \in Cells : CellShape(d, n[d])
    BY <1>2, <2>1, Zenon DEF Shape
  <2>3. n[Literal] = m[Literal]
    BY <1>1, <1>2, Cell
  <2> QED
    BY <1>2, <2>2, <2>3, Zenon DEF Shape
<1>4. \A p : IsPlace(m, p) => p[1] # c
  <2>1. DOMAIN m[c].at = {}
    BY <1>1 DEF Shape, CellShape
  <2> QED
    BY <2>1 DEF IsPlace
<1>5. \A p : IsPlace(m, p) => IsPlace(n, p) /\ Get(n, p) = Get(m, p)
  BY <1>2, <1>4 DEF IsPlace, Places, Get
<1>6. \A p : IsPlace(n, p) /\ ~IsPlace(m, p) => p[1] = c
  BY <1>2 DEF IsPlace, Places
<1>7. \A z : Points(m, z) => Points(n, z)
  BY <1>1, <1>2 DEF Points
<1> QED
  BY <1>2, <1>3, <1>5, <1>6, <1>7 DEF n, c

\* A new array without elements is held by the one who made it.
LEMMA NewArrayGood ==
  ASSUME NEW m, NEW y, Good(m, UNDEF, y), Unused(m) # {}
  PROVE  LET n == AddCell(m, ArrayCell(NoElements))
         IN  /\ Good(n, y, ARR(NewCell(m)))
             /\ \A p : IsPlace(m, p) => IsPlace(n, p) /\ Get(n, p) = Get(m, p)
             /\ \A d \in Cells : d # NewCell(m) => n[d] = m[d]
<1> DEFINE x == ArrayCell(NoElements)
           n == AddCell(m, x)
           c == NewCell(m)
<1>0. Shape(m) /\ Sound(m) /\ Points(m, y)
  BY DEF Good
<1>1. /\ IsNewCell(x) /\ x.kind = "array" /\ x.rc = 1
      /\ \A k \in DOMAIN x.at : x.at[k] = UNDEF
  BY DEF ArrayCell, NoElements, IsNewCell, Fields
<1> HIDE DEF x
<1>2. /\ Shape(n) /\ n[c] = x
      /\ \A d \in Cells : d # c => n[d] = m[d]
      /\ \A p : IsPlace(m, p) => IsPlace(n, p) /\ Get(n, p) = Get(m, p)
      /\ \A p : IsPlace(n, p) /\ ~IsPlace(m, p) => p[1] = c
      /\ \A z : Points(m, z) => Points(n, z)
  BY <1>0, <1>1, AddCellView
<1>3. /\ c \in Cells \ {VarCell, Literal} /\ c \in Unused(m)
  BY <1>0, NewCellFree
<1>4. /\ \A z : Points(m, z) => One(z, c) = 0
      /\ \A p : ~Holder(m, p, c)
      /\ \A p : IsPlace(m, p) => p[1] # c
  BY <1>0, <1>3, FreeCellUnknown
<1> HIDE DEF n, c
<1>5. Points(n, ARR(c)) /\ Points(n, y) /\ Points(n, UNDEF)
  BY <1>0, <1>1, <1>2, <1>3, Undefined DEF Points
<1>6. Sound(n)
  <2> SUFFICES ASSUME NEW d \in Cells, NEW k \in DOMAIN n[d].at
               PROVE  /\ Points(n, n[d].at[k])
                      /\ d # VarCell => ~IsRef(n[d].at[k])
                      /\ n[d].kind = "ref" => n[d].at[k] # UNDEF
    BY DEF Sound
  <2>1. CASE d = c
    BY <1>1, <1>2, <1>5, <2>1, Undefined
  <2>2. CASE d # c
    BY <1>0, <1>2, <2>2 DEF Sound
  <2> QED
    BY <2>1, <2>2
<1>7. \A p, d : Holder(n, p, d) <=> Holder(m, p, d)
  <2>1. \A p : IsPlace(n, p) /\ ~IsPlace(m, p) => Get(n, p) = UNDEF
    BY <1>1, <1>2 DEF IsPlace, Get
  <2> QED
    BY <1>2, <2>1, Undefined, Zenon DEF Holder
<1>8. Balanced(n, y, ARR(c))
  <2> SUFFICES ASSUME NEW d \in Cells \ {VarCell, Literal}
               PROVE  n[d].rc = Cardinality(Pointers(n, Cells, d)) + One(y, d) + One(ARR(c), d)
    BY DEF Balanced
  <2>1. Pointers(n, Cells, d) = Pointers(m, Cells, d)
    BY <1>0, <1>2, <1>7, PointersHeld
  <2>2. Cardinality(Pointers(m, Cells, d)) \in Nat
    BY <1>0, PointersHeld
  <2>3. m[d].rc = Cardinality(Pointers(m, Cells, d)) + One(UNDEF, d) + One(y, d)
    BY DEF Good, Balanced
  <2>4. One(UNDEF, d) = 0 /\ One(ARR(c), d) = IF d = c THEN 1 ELSE 0
    BY <1>3, Undefined DEF One
  <2>5. CASE d = c
    <3>1. Pointers(m, Cells, d) = {}
      BY <1>0, <1>4, <2>5, PointersHeld
    <3>2. Cardinality(Pointers(m, Cells, d)) = 0 /\ One(y, d) = 0 /\ n[d].rc = 1
      BY <1>0, <1>1, <1>2, <1>4, <2>5, <3>1, FS_EmptySet
    <3> QED
      BY <2>1, <2>4, <2>5, <3>2
  <2>6. CASE d # c
    BY <1>2, <2>1, <2>2, <2>3, <2>4, <2>6, OneType
  <2> QED
    BY <2>5, <2>6
<1> QED
  BY <1>2, <1>5, <1>6, <1>8 DEF Good, n, c, x

\* ZVAL_MAKE_REF_EX: a variable becomes a reference to what it was.
LEMMA MakeRefGood ==
  ASSUME NEW m, Good(m, UNDEF, UNDEF), NEW v \in Vars, Unused(m) # {}
  PROVE  LET n == MAKE_REF(m, Var(v))
         IN  /\ Good(n, UNDEF, UNDEF)
             /\ IsRef(Get(n, Var(v)))
             /\ \A u \in Vars \ {v} : n[VarCell].at[u] = m[VarCell].at[u]
<1> DEFINE p == Var(v)
           c == NewCell(m)
           z == IF Get(m, p) = UNDEF THEN NULL ELSE Get(m, p)
           x == [kind |-> "ref", rc |-> 1, at |-> [i \in {REFVAL} |-> z]]
           l == AddCell(m, x)
           n == Put(l, p, REF(c))
           q == <<c, REFVAL>>
<1>0. Shape(m) /\ Sound(m) /\ Balanced(m, UNDEF, UNDEF)
  BY DEF Good
<1>1. CASE IsRef(Get(m, p))
  BY <1>1 DEF MAKE_REF
<1>2. CASE ~IsRef(Get(m, p))
  <2>1. MAKE_REF(m, p) = n
    BY <1>2 DEF MAKE_REF, AddCell
  <2>2. /\ IsNewCell(x) /\ x.kind = "ref" /\ x.rc = 1 /\ DOMAIN x.at = {REFVAL}
        /\ x.at[REFVAL] = z
    BY DEF IsNewCell, Fields
  <2>3. p[1] = VarCell /\ p[2] = v /\ p = <<VarCell, v>> /\ Get(m, p) = m[VarCell].at[v]
    BY DEF Var, Get
  <2>4. IsPlace(m, p) /\ DOMAIN m[VarCell].at = Vars
    BY <1>0, <2>3, PlaceOf, Cell DEF Shape, CellShape
  <2>5. Points(m, z) /\ ~IsRef(z) /\ z # UNDEF
    BY <1>0, <1>2, <2>3, <2>4, Undefined, Cell DEF Sound, Points
  <2>6. \A d : One(z, d) = One(Get(m, p), d)
    BY Undefined DEF One
  <2> HIDE DEF x, z
  <2>7. /\ Shape(l) /\ l[c] = x
        /\ \A d \in Cells : d # c => l[d] = m[d]
        /\ \A r : IsPlace(m, r) => IsPlace(l, r) /\ Get(l, r) = Get(m, r)
        /\ \A r : IsPlace(l, r) /\ ~IsPlace(m, r) => r[1] = c
        /\ \A w : Points(m, w) => Points(l, w)
    BY <1>0, <2>2, AddCellView
  <2>8. c \in Cells \ {VarCell, Literal} /\ c \in Unused(m)
    BY <1>0, NewCellFree
  <2>9. /\ \A r : ~Holder(m, r, c)
        /\ \A r : IsPlace(m, r) => r[1] # c
    BY <1>0, <2>8, FreeCellUnknown
  <2> HIDE DEF c, l
  <2>10. /\ DOMAIN n = Cells
         /\ \A d \in Cells : /\ DOMAIN n[d] = Fields
                             /\ n[d].kind = l[d].kind /\ n[d].rc = l[d].rc
                             /\ DOMAIN n[d].at = DOMAIN l[d].at
         /\ \A d \in Cells : \A k \in DOMAIN l[d].at :
              n[d].at[k] = IF <<d, k>> = p THEN REF(c) ELSE l[d].at[k]
         /\ \A d \in Cells : d # p[1] => n[d] = l[d]
         /\ Get(n, p) = REF(c)
    BY <2>4, <2>7, PutView
  <2> HIDE DEF n
  <2>11. Shape(n)
    BY <2>3, <2>7, <2>10, Cell DEF Shape, CellShape
  <2>12. \A w : Points(m, w) => Points(n, w)
    BY <2>7, <2>10 DEF Points
  <2>13. Points(n, REF(c))
    BY <2>2, <2>7, <2>8, <2>10, Undefined DEF Points
  <2>14. Sound(n)
    <3> SUFFICES ASSUME NEW d \in Cells, NEW k \in DOMAIN n[d].at
                 PROVE  /\ Points(n, n[d].at[k])
                        /\ d # VarCell => ~IsRef(n[d].at[k])
                        /\ n[d].kind = "ref" => n[d].at[k] # UNDEF
      BY DEF Sound
    <3>1. CASE d = c
      <4>1. n[d].at[k] = z
        BY <2>2, <2>3, <2>7, <2>8, <2>10, <3>1
      <4> QED
        BY <2>5, <2>12, <4>1
    <3>2. CASE <<d, k>> = p
      BY <2>3, <2>10, <2>11, <2>13, <3>2, Undefined DEF Shape, CellShape
    <3>3. CASE d # c /\ <<d, k>> # p
      <4>1. k \in DOMAIN m[d].at /\ n[d].at[k] = m[d].at[k] /\ n[d].kind = m[d].kind
        BY <2>7, <2>10, <3>3
      <4> QED
        BY <1>0, <2>12, <4>1 DEF Sound
    <3> QED
      BY <3>1, <3>2, <3>3
  <2>15. IsPlace(n, q) /\ Get(n, q) = z
    <3>1. REFVAL \in DOMAIN n[c].at /\ n[c].at[REFVAL] = z
      BY <2>2, <2>3, <2>7, <2>8, <2>10
    <3> QED
      BY <2>8, <2>11, <3>1, PlaceOf DEF Get
  <2>16. \A r : r # q => (IsPlace(n, r) <=> IsPlace(m, r))
    <3>1. \A r : IsPlace(n, r) <=> IsPlace(l, r)
      BY <2>10 DEF IsPlace, Places
    <3>2. \A r : IsPlace(l, r) /\ ~IsPlace(m, r) => r = q
      BY <2>2, <2>7 DEF IsPlace, Places
    <3> QED
      BY <2>7, <3>1, <3>2, Zenon
  <2>17. \A r : IsPlace(m, r) /\ r # p => Get(n, r) = Get(m, r)
    <3>1. \A r : IsPlace(l, r) /\ r # p => Get(n, r) = Get(l, r)
      BY <2>10 DEF IsPlace, Places, Get
    <3> QED
      BY <2>7, <3>1, Zenon
  <2>18. Balanced(n, UNDEF, UNDEF)
    <3> SUFFICES ASSUME NEW d \in Cells \ {VarCell, Literal}
                 PROVE  n[d].rc = Cardinality(Pointers(n, Cells, d)) + One(UNDEF, d) + One(UNDEF, d)
      BY DEF Balanced
    <3> DEFINE A == Pointers(m, Cells, d)
               B == Pointers(n, Cells, d)
    <3>1. /\ \A r : r \in A <=> Holder(m, r, d) /\ r[1] \in Cells
          /\ IsFiniteSet(A) /\ Cardinality(A) \in Nat
      BY <1>0, PointersHeld
    <3>2. /\ \A r : r \in B <=> Holder(n, r, d) /\ r[1] \in Cells
          /\ IsFiniteSet(B) /\ Cardinality(B) \in Nat
      BY <2>11, PointersHeld
    <3>3. One(UNDEF, d) = 0
      BY Undefined DEF One
    <3>4. m[d].rc = Cardinality(A) + One(UNDEF, d) + One(UNDEF, d)
      BY <1>0 DEF Balanced
    <3>5. q \notin A /\ q[1] = c
      BY <2>9, <3>1 DEF Holder
    <3> HIDE DEF A, B, p, q
    <3>6. CASE d = c
      <4>1. p \in B
        BY <2>3, <2>4, <2>8, <2>10, <2>15, <2>16, <3>2, <3>6, Undefined, Cell DEF Holder
      <4>2. \A r \in B : r = p
        <5> SUFFICES ASSUME NEW r, r # p, Holder(n, r, c) PROVE FALSE
          BY <3>2, <3>6
        <5>1. CASE r = q
          BY <1>0, <2>5, <2>8, <2>15, <5>1, FreeCellUnknown DEF Holder, One
        <5>2. CASE r # q
          BY <2>9, <2>16, <2>17, <5>2 DEF Holder
        <5> QED
          BY <5>1, <5>2
      <4>3. B = {p}
        BY <4>1, <4>2
      <4>4. Cardinality(B) = 1 /\ n[d].rc = 1
        BY <2>2, <2>7, <2>8, <2>10, <3>6, <4>3, FS_Singleton
      <4>5. n[d].rc = Cardinality(B) + One(UNDEF, d) + One(UNDEF, d)
        BY <3>3, <4>4
      <4> QED
        BY <4>5 DEF B
    <3>7. CASE d # c
      <4>1. p \notin B
        BY <2>10, <3>2, <3>7, Undefined DEF Holder
      <4>2. \A r : r # p /\ r # q => (Holder(n, r, d) <=> Holder(m, r, d))
        BY <2>16, <2>17, Zenon DEF Holder
      <4>3. A \ {p} = B \ {q}
        BY <3>1, <3>2, <3>5, <4>1, <4>2, Zenon
      <4>4. Cardinality(A) - (IF p \in A THEN 1 ELSE 0) = Cardinality(B) - (IF q \in B THEN 1 ELSE 0)
        BY <3>1, <3>2, <4>3, SwapOne
      <4>5. p \in A <=> One(Get(m, p), d) = 1
        BY <2>3, <2>4, <3>1, Cell DEF Holder, One
      <4>6. q \in B <=> One(z, d) = 1
        BY <2>8, <2>15, <3>2, <3>5 DEF Holder, One
      <4>7. p \in A <=> q \in B
        BY <2>6, <4>5, <4>6
      <4>8. Cardinality(A) = Cardinality(B)
        BY <3>1, <3>2, <4>4, <4>7
      <4>9. n[d].rc = m[d].rc
        BY <2>7, <2>10, <3>7
      <4>10. n[d].rc = Cardinality(B) + One(UNDEF, d) + One(UNDEF, d)
        BY <3>4, <4>8, <4>9
      <4> QED
        BY <4>10 DEF B
    <3> QED
      BY <3>6, <3>7
  <2>19. Points(n, UNDEF)
    BY Undefined DEF Points
  <2>20. \A u \in Vars \ {v} : n[VarCell].at[u] = m[VarCell].at[u]
    BY <2>3, <2>4, <2>7, <2>8, <2>10, Cell
  <2>21. IsRef(Get(n, p))
    BY <2>10, Undefined
  <2> QED
    BY <2>1, <2>11, <2>14, <2>18, <2>19, <2>20, <2>21 DEF Good
<1> QED
  BY <1>1, <1>2

\* zend_array_dup: the copy holds what the array holds, and is held by who asked.
LEMMA DupGood ==
  ASSUME NEW m, NEW y, Good(m, UNDEF, y), Unused(m) # {},
         NEW c \in Cells, m[c].kind = "array"
  PROVE  LET n == Dup(m, c)
         IN  /\ Good(n, y, ARR(NewCell(m)))
             /\ \A p : IsPlace(m, p) => IsPlace(n, p) /\ Get(n, p) = Get(m, p)
             /\ \A d \in Cells : d # NewCell(m) => n[d].kind = m[d].kind /\ n[d].at = m[d].at
<1> DEFINE x == ArrayCell(m[c].at)
           new == NewCell(m)
           n == Dup(m, c)
<1>0. Shape(m) /\ Sound(m) /\ Points(m, y)
  BY DEF Good
<1>1. DOMAIN x = Fields /\ x.kind = "array" /\ x.rc = 1 /\ x.at = m[c].at
  BY DEF ArrayCell, Fields
<1>2. new \in Cells \ {VarCell, Literal} /\ new \in Unused(m) /\ m[new].kind = "free"
  BY <1>0, NewCellFree
<1>3. /\ \A z : Points(m, z) => One(z, new) = 0
      /\ \A p : ~Holder(m, p, new)
      /\ \A p : IsPlace(m, p) => p[1] # new
  BY <1>0, <1>2, FreeCellUnknown
<1>4. /\ DOMAIN n = Cells /\ n[new] = x
      /\ \A d \in Cells : d # new =>
           n[d] = [m[d] EXCEPT !.rc = @ + Cardinality(Pointers(m, {c}, d))]
  BY <1>2 DEF Dup
<1>5. \A d : Cardinality(Pointers(m, {c}, d)) \in Nat
  BY <1>0, PointersHeld
<1>6. c # new
  BY <1>2
<1> HIDE DEF new, x, n
<1>7. \A d \in Cells : d # new =>
        /\ DOMAIN n[d] = Fields /\ n[d].kind = m[d].kind /\ n[d].at = m[d].at
        /\ n[d].rc = m[d].rc + Cardinality(Pointers(m, {c}, d))
  BY <1>0, <1>4 DEF Shape, CellShape, Fields
<1>8. Shape(n)
  <2>1. CellShape(new, n[new])
    BY <1>0, <1>1, <1>2, <1>4 DEF Shape, CellShape
  <2>2. \A d \in Cells : d # new => CellShape(d, n[d])
    <3> SUFFICES ASSUME NEW d \in Cells, d # new PROVE CellShape(d, n[d])
      OBVIOUS
    <3>1. CellShape(d, m[d])
      BY <1>0 DEF Shape
    <3>2. n[d].rc \in Int
      BY <1>5, <1>7, <3>1 DEF CellShape
    <3> QED
      BY <1>7, <3>1, <3>2 DEF CellShape
  <2>3. n[Literal] = m[Literal]
    <3>1. Pointers(m, {c}, Literal) = {}
      BY <1>0, PlainCells
    <3>2. n[Literal] = [m[Literal] EXCEPT !.rc = @ + 0]
      BY <1>2, <1>4, <3>1, Cell, FS_EmptySet
    <3> QED
      BY <1>0, <3>2 DEF Shape
  <2> QED
    BY <1>0, <1>4, <2>1, <2>2, <2>3 DEF Shape
<1>9. \A p : IsPlace(m, p) => IsPlace(n, p) /\ Get(n, p) = Get(m, p)
  BY <1>3, <1>7 DEF IsPlace, Places, Get
<1>10. \A p : IsPlace(n, p) /\ p[1] # new => IsPlace(m, p)
  BY <1>7 DEF IsPlace, Places
<1>11. \A z : Points(m, z) => Points(n, z)
  BY <1>2, <1>7 DEF Points
<1>12. Points(n, ARR(new)) /\ Points(n, UNDEF)
  BY <1>1, <1>2, <1>4, Undefined DEF Points
<1>13. DOMAIN n[new].at = DOMAIN m[c].at /\ \A k : n[new].at[k] = m[c].at[k]
  BY <1>1, <1>4
<1>14. Sound(n)
  <2> SUFFICES ASSUME NEW d \in Cells, NEW k \in DOMAIN n[d].at
               PROVE  /\ Points(n, n[d].at[k])
                      /\ d # VarCell => ~IsRef(n[d].at[k])
                      /\ n[d].kind = "ref" => n[d].at[k] # UNDEF
    BY DEF Sound
  <2>1. CASE d = new
    <3>1. k \in DOMAIN m[c].at /\ n[d].at[k] = m[c].at[k]
      BY <1>13, <2>1
    <3>2. c # VarCell /\ n[d].kind = "array"
      BY <1>0, <1>1, <1>4, <2>1 DEF Shape, CellShape
    <3> QED
      BY <1>0, <1>11, <3>1, <3>2 DEF Sound
  <2>2. CASE d # new
    BY <1>0, <1>7, <1>11, <2>2 DEF Sound
  <2> QED
    BY <2>1, <2>2
<1>15. Balanced(n, y, ARR(new))
  <2> SUFFICES ASSUME NEW d \in Cells \ {VarCell, Literal}
               PROVE  n[d].rc = Cardinality(Pointers(n, Cells, d)) + One(y, d) + One(ARR(new), d)
    BY DEF Balanced
  <2> DEFINE A == Pointers(m, Cells, d)
             B == Pointers(n, Cells, d)
             C == Pointers(m, {c}, d)
             D == Pointers(n, {new}, d)
  <2>1. /\ \A p : p \in A <=> Holder(m, p, d) /\ p[1] \in Cells
        /\ IsFiniteSet(A) /\ Cardinality(A) \in Nat
    BY <1>0, PointersHeld
  <2>2. /\ \A p : p \in B <=> Holder(n, p, d) /\ p[1] \in Cells
        /\ IsFiniteSet(B) /\ Cardinality(B) \in Nat
    BY <1>8, PointersHeld
  <2>3. /\ \A p : p \in C <=> Holder(m, p, d) /\ p[1] \in {c}
        /\ IsFiniteSet(C) /\ Cardinality(C) \in Nat
    BY <1>0, PointersHeld
  <2>4. /\ \A p : p \in D <=> Holder(n, p, d) /\ p[1] \in {new}
        /\ IsFiniteSet(D) /\ Cardinality(D) \in Nat
    BY <1>2, <1>8, PointersHeld
  <2>5. m[d].rc = Cardinality(A) + One(UNDEF, d) + One(y, d)
    BY DEF Good, Balanced
  <2>6. One(UNDEF, d) = 0 /\ One(ARR(new), d) = IF d = new THEN 1 ELSE 0
    BY <1>2, Undefined DEF One
  <2>7. d # new => n[d].rc = m[d].rc + Cardinality(C)
    BY <1>7
  <2> HIDE DEF A, B, C, D
  <2>8. \A p : p[1] # new => (Holder(n, p, d) <=> Holder(m, p, d))
    BY <1>9, <1>10, Zenon DEF Holder
  <2>9. B = A \cup D /\ A \cap D = {}
    BY <1>2, <1>3, <2>1, <2>2, <2>4, <2>8 DEF Holder
  <2>10. \A k : <<new, k>> \in D <=> <<c, k>> \in C
    <3>1. \A k : IsPlace(n, <<new, k>>) <=> IsPlace(m, <<c, k>>)
      BY <1>0, <1>2, <1>8, <1>13, PlaceOf DEF IsPlace
    <3>2. \A k : Get(n, <<new, k>>) = Get(m, <<c, k>>)
      BY <1>13 DEF Get
    <3> QED
      BY <2>3, <2>4, <3>1, <3>2 DEF Holder
  <2>11. /\ \A p \in C : p = <<c, p[2]>>
         /\ \A p \in D : p = <<new, p[2]>>
    BY <2>3, <2>4 DEF Holder, IsPlace, Places
  <2> DEFINE f == [p \in C |-> <<new, p[2]>>]
  <2>12. f \in [C -> D]
    BY <2>10, <2>11
  <2>13. \A p, q \in C : f[p] = f[q] => p = q
    BY <2>11
  <2>14. \A q \in D : \E p \in C : f[p] = q
    <3> SUFFICES ASSUME NEW q \in D PROVE \E p \in C : f[p] = q
      OBVIOUS
    <3>1. <<c, q[2]>> \in C
      BY <2>10, <2>11
    <3>2. f[<<c, q[2]>>] = q
      BY <2>11, <3>1
    <3> QED
      BY <3>1, <3>2
  <2>15. f \in Bijection(C, D)
    <3> HIDE DEF f
    <3> QED
      BY <2>12, <2>13, <2>14, Zenon DEF Bijection, Injection, Surjection, IsInjective
  <2>16. Cardinality(D) = Cardinality(C)
    BY <2>3, <2>15, FS_Bijection DEF ExistsBijection
  <2>17. Cardinality(B) = Cardinality(A) + Cardinality(C)
    <3>1. Cardinality(A \cup D) = Cardinality(A) + Cardinality(D) - Cardinality(A \cap D)
      BY <2>1, <2>4, FS_Union
    <3>2. Cardinality(B) = Cardinality(A) + Cardinality(D) - Cardinality({})
      BY <2>9, <3>1, Zenon
    <3> QED
      BY <2>1, <2>4, <2>16, <3>2, FS_EmptySet
  <2>18. CASE d = new
    <3>1. B = {}
      <4>1. A = {} /\ C = {}
        BY <1>3, <2>1, <2>3, <2>18
      <4>2. D = {}
        BY <2>10, <2>11, <4>1
      <4> QED
        BY <2>9, <4>1, <4>2
    <3>2. n[d].rc = 1 /\ One(y, d) = 0
      BY <1>0, <1>1, <1>3, <1>4, <2>18
    <3>3. n[d].rc = Cardinality(B) + One(y, d) + One(ARR(new), d)
      BY <2>6, <2>18, <3>1, <3>2, FS_EmptySet
    <3> QED
      BY <3>3 DEF B
  <2>19. CASE d # new
    <3>1. n[d].rc = Cardinality(B) + One(y, d) + One(ARR(new), d)
      BY <2>1, <2>3, <2>5, <2>6, <2>7, <2>17, <2>19, OneType
    <3> QED
      BY <3>1 DEF B
  <2> QED
    BY <2>18, <2>19
<1>16. \A d \in Cells : d # new => n[d].kind = m[d].kind /\ n[d].at = m[d].at
  BY <1>7
<1> QED
  BY <1>0, <1>8, <1>9, <1>11, <1>12, <1>14, <1>15, <1>16 DEF Good, n, new

-------------------------------------------------------------------------------
(* Arrays that are written.                                                *)

\* own is m with an array of its own at p.
OwnAt(m, own, p) ==
  /\ IsPlace(own, p) /\ IsArr(Get(own, p))
  /\ Get(own, p)[2] \in Cells \ {VarCell, Literal} /\ own[Get(own, p)[2]].kind = "array"
  /\ \A u \in Vars : Var(u) # p => own[VarCell].at[u] = m[VarCell].at[u]
  /\ Unused(m) \ {NewCell(m)} \subseteq Unused(own)

LEMMA VarPlace ==
  ASSUME NEW m, Shape(m), NEW v \in Vars
  PROVE  IsPlace(m, Var(v)) /\ Get(m, Var(v)) = m[VarCell].at[v] /\ Var(v)[1] = VarCell
<1>1. DOMAIN m[VarCell].at = Vars
  BY Cell DEF Shape, CellShape
<1> QED
  BY <1>1, Cell, PlaceOf DEF Var, Get

\* A new array that someone holds is put to p.
LEMMA PutNewArray ==
  ASSUME NEW m, Shape(m), Unused(m) # {}, NEW n, NEW y, Good(n, y, ARR(NewCell(m))),
         NEW p, IsPlace(m, p), p[1] # Literal,
         \A q : IsPlace(m, q) => IsPlace(n, q) /\ Get(n, q) = Get(m, q),
         \A d \in Cells : d # NewCell(m) => n[d].kind = m[d].kind /\ n[d].at = m[d].at
  PROVE  /\ Good(Put(n, p, ARR(NewCell(m))), y, Get(m, p))
         /\ OwnAt(m, Put(n, p, ARR(NewCell(m))), p)
<1> DEFINE c == NewCell(m)
           o == Put(n, p, ARR(c))
<1>1. c \in Cells \ {VarCell, Literal} /\ c \in Unused(m) /\ m[c].kind = "free"
  BY NewCellFree
<1>2. Shape(n) /\ IsPlace(n, p) /\ Get(n, p) = Get(m, p)
  BY DEF Good
<1>3. Good(o, y, Get(m, p))
  <2>1. ~IsRef(ARR(c)) /\ ARR(c) # UNDEF
    BY Undefined
  <2> QED
    BY <1>2, <2>1, PutGood
<1>4. n[c].kind = "array"
  <2>1. Points(n, ARR(c))
    BY DEF Good
  <2> QED
    BY <2>1, Undefined DEF Points
<1> HIDE DEF c
<1>5. /\ DOMAIN o = Cells
      /\ \A d \in Cells : /\ DOMAIN o[d] = Fields
                          /\ o[d].kind = n[d].kind /\ o[d].rc = n[d].rc
                          /\ DOMAIN o[d].at = DOMAIN n[d].at
      /\ \A d \in Cells : \A k \in DOMAIN n[d].at :
           o[d].at[k] = IF <<d, k>> = p THEN ARR(c) ELSE n[d].at[k]
      /\ \A d \in Cells : d # p[1] => o[d] = n[d]
      /\ Get(o, p) = ARR(c)
  BY <1>2, PutView
<1> HIDE DEF o
<1>6. IsPlace(o, p)
  BY <1>2, <1>5 DEF IsPlace, Places
<1>7. IsArr(Get(o, p)) /\ Get(o, p)[2] = c /\ o[c].kind = "array"
  BY <1>1, <1>4, <1>5, Undefined
<1>8. ASSUME NEW u \in Vars, Var(u) # p
      PROVE  o[VarCell].at[u] = m[VarCell].at[u]
  <2>1. u \in DOMAIN n[VarCell].at /\ n[VarCell].at = m[VarCell].at
    BY <1>1, <1>2, Cell DEF Shape, CellShape, c
  <2> QED
    BY <1>5, <1>8, <2>1, Cell DEF Var
<1>9. Unused(m) \ {c} \subseteq Unused(o)
  BY <1>5 DEF Unused, c
<1> QED
  BY <1>1, <1>3, <1>6, <1>7, <1>8, <1>9 DEF OwnAt, o, c

\* SEPARATE_ARRAY.
LEMMA SeparateGood ==
  ASSUME NEW m, NEW y, Good(m, UNDEF, y), Unused(m) # {},
         NEW p, IsPlace(m, p), p[1] # Literal, IsArr(Get(m, p))
  PROVE  Good(SEPARATE_ARRAY(m, p), UNDEF, y) /\ OwnAt(m, SEPARATE_ARRAY(m, p), p)
<1> DEFINE c == Get(m, p)[2]
           dup == Put(Dup(m, c), p, ARR(NewCell(m)))
<1>0. Shape(m) /\ Sound(m)
  BY DEF Good
<1>1. Points(m, Get(m, p))
  BY <1>0 DEF IsPlace, Places, Sound, Get
<1>2. c \in Cells /\ m[c].kind = "array" /\ c # VarCell
  BY <1>0, <1>1 DEF Points, Shape, CellShape
<1>3. CASE m[c].rc <= 1
  <2>1. SEPARATE_ARRAY(m, p) = m
    BY <1>3 DEF SEPARATE_ARRAY
  <2>2. c # Literal
    BY <1>0, <1>3 DEF Shape
  <2> QED
    BY <1>2, <2>1, <2>2 DEF OwnAt
<1>4. CASE ~(m[c].rc <= 1)
  <2>1. /\ Good(Dup(m, c), y, ARR(NewCell(m)))
        /\ \A q : IsPlace(m, q) => IsPlace(Dup(m, c), q) /\ Get(Dup(m, c), q) = Get(m, q)
        /\ \A d \in Cells : d # NewCell(m) =>
             Dup(m, c)[d].kind = m[d].kind /\ Dup(m, c)[d].at = m[d].at
    BY <1>2, DupGood
  <2>2. Good(dup, y, Get(m, p)) /\ OwnAt(m, dup, p)
    BY <1>0, <2>1, PutNewArray
  <2>3. Good(Drop(dup, Get(m, p)), y, UNDEF) /\ SameButCounts(dup, Drop(dup, Get(m, p)))
    BY <2>2, DropGood
  <2>4. SEPARATE_ARRAY(m, p) = IF c = Literal THEN dup ELSE [dup EXCEPT ![c].rc = @ - 1]
    BY <1>4 DEF SEPARATE_ARRAY
  <2>5. Refcounted(Get(m, p)) <=> c # Literal
    BY DEF Refcounted, IsArr, IsRef
  <2>6. SEPARATE_ARRAY(m, p) = Drop(dup, Get(m, p))
    <3> HIDE DEF dup
    <3> QED
      BY <2>4, <2>5 DEF Drop
  <2> DEFINE o == Drop(dup, Get(m, p))
  <2> HIDE DEF dup, o
  <2>7. OwnAt(m, o, p)
    <3>1. Shape(dup)
      BY <2>2 DEF Good
    <3>2. IsPlace(o, p) /\ Get(o, p) = Get(dup, p)
      BY <2>2, <2>3, <3>1, Recounted DEF OwnAt, o
    <3>3. \A d \in Cells : o[d].kind = dup[d].kind /\ o[d].at = dup[d].at
      BY <2>3 DEF SameButCounts, o
    <3> QED
      BY <2>2, <3>2, <3>3, Cell DEF OwnAt, Unused
  <2>8. Good(o, UNDEF, y)
    BY <2>3, GoodSwap DEF o
  <2> QED
    BY <2>6, <2>7, <2>8 DEF o
<1> QED
  BY <1>3, <1>4

\* The array that an element is written to.
LEMMA ArrayAtGood ==
  ASSUME NEW m, NEW y, Good(m, UNDEF, y), Unused(m) # {},
         NEW p, IsPlace(m, p), p[1] # Literal, Assignable(m, p)
  PROVE  Good(ArrayAt(m, p), UNDEF, y) /\ OwnAt(m, ArrayAt(m, p), p)
<1>1. CASE IsArr(Get(m, p))
  BY <1>1, SeparateGood DEF ArrayAt
<1>2. CASE ~IsArr(Get(m, p))
  <2> DEFINE n == AddCell(m, ArrayCell(NoElements))
             o == Put(n, p, ARR(NewCell(m)))
  <2>1. ArrayAt(m, p) = o
    BY <1>2 DEF ArrayAt, AddCell
  <2>2. ~Refcounted(Get(m, p)) /\ ~Refcounted(UNDEF)
    BY <1>2, Undefined DEF Assignable
  <2>3. /\ Good(n, y, ARR(NewCell(m)))
        /\ \A q : IsPlace(m, q) => IsPlace(n, q) /\ Get(n, q) = Get(m, q)
        /\ \A d \in Cells : d # NewCell(m) => n[d] = m[d]
    BY NewArrayGood
  <2>4. Shape(m)
    BY DEF Good
  <2> HIDE DEF n
  <2>5. \A d \in Cells : d # NewCell(m) => n[d].kind = m[d].kind /\ n[d].at = m[d].at
    BY <2>3
  <2>6. Good(o, y, Get(m, p)) /\ OwnAt(m, o, p)
    BY <2>3, <2>4, <2>5, PutNewArray
  <2>7. Good(o, UNDEF, y)
    BY <2>2, <2>6, Uncounted, GoodSwap
  <2> QED
    BY <2>1, <2>6, <2>7
<1> QED
  BY <1>1, <1>2

-------------------------------------------------------------------------------
(* Assignments and releases.                                               *)

\* The variables other than the one at p keep their values.
Others(m, n, p) == \A u \in Vars : Var(u) # p => n[VarCell].at[u] = m[VarCell].at[u]

LEMMA DerefPlace ==
  ASSUME NEW m, Shape(m), Sound(m), NEW p, IsPlace(m, p), p[1] # Literal
  PROVE  /\ IsPlace(m, DEREF(m, p)) /\ DEREF(m, p)[1] # Literal
         /\ ~IsRef(Get(m, DEREF(m, p)))
         /\ DEREF(m, p) = p \/ \A u \in Vars : Var(u) # DEREF(m, p)
         /\ Points(m, Get(m, DEREF(m, p)))
<1>1. CASE IsRef(Get(m, p))
  <2> DEFINE c == Get(m, p)[2]
  <2>1. Points(m, Get(m, p))
    BY DEF IsPlace, Places, Sound, Get
  <2>2. c \in Cells /\ m[c].kind = "ref"
    BY <1>1, <2>1 DEF Points
  <2>3. DEREF(m, p) = <<c, REFVAL>>
    BY <1>1 DEF DEREF
  <2> HIDE DEF c
  <2>4. c # VarCell /\ c # Literal /\ REFVAL \in DOMAIN m[c].at
    BY <2>2 DEF Shape, CellShape
  <2>5. IsPlace(m, <<c, REFVAL>>)
    BY <2>2, <2>4, PlaceOf
  <2>6. Get(m, <<c, REFVAL>>) = m[c].at[REFVAL]
    BY DEF Get
  <2>7. ~IsRef(m[c].at[REFVAL]) /\ Points(m, m[c].at[REFVAL])
    BY <2>2, <2>4 DEF Sound
  <2>8. \A u \in Vars : Var(u) # <<c, REFVAL>>
    BY <2>4 DEF Var
  <2> QED
    BY <2>3, <2>4, <2>5, <2>6, <2>7, <2>8
<1>2. CASE ~IsRef(Get(m, p))
  <2>1. Points(m, Get(m, p))
    BY DEF IsPlace, Places, Sound, Get
  <2> QED
    BY <1>2, <2>1 DEF DEREF
<1> QED
  BY <1>1, <1>2

\* What a variable reads as.
LEMMA ReadGood ==
  ASSUME NEW m, Shape(m), Sound(m), NEW v \in Vars
  PROVE  Points(m, Read(m, v)) /\ ~IsRef(Read(m, v)) /\ Read(m, v) # UNDEF
<1>1. /\ ~IsRef(Get(m, DEREF(m, Var(v))))
      /\ Points(m, Get(m, DEREF(m, Var(v))))
  BY VarPlace, DerefPlace, Cell
<1> QED
  BY <1>1, Undefined DEF Read, Points

\* A place changes hands, and what it held is released.
LEMMA ReplaceGood ==
  ASSUME NEW m, NEW z, Good(m, UNDEF, z), NEW p, IsPlace(m, p), p[1] # Literal,
         p[1] # VarCell => ~IsRef(z), m[p[1]].kind = "ref" => z # UNDEF
  PROVE  LET n == Release(Put(m, p, z), Get(m, p))
         IN  /\ Good(n, UNDEF, UNDEF) /\ Others(m, n, p) /\ Unused(m) \subseteq Unused(n)
             /\ \A u \in Vars : Var(u) = p => n[VarCell].at[u] = z
<1> DEFINE l == Put(m, p, z)
           n == Release(l, Get(m, p))
<1>1. Shape(m)
  BY DEF Good
<1>2. Good(l, UNDEF, Get(m, p))
  BY PutGood
<1>3. Good(n, UNDEF, UNDEF) /\ Kept(l, n)
  BY <1>2, ReleaseGood
<1>4. /\ DOMAIN l = Cells
      /\ \A d \in Cells : /\ DOMAIN l[d] = Fields
                          /\ l[d].kind = m[d].kind /\ l[d].rc = m[d].rc
                          /\ DOMAIN l[d].at = DOMAIN m[d].at
      /\ \A d \in Cells : \A k \in DOMAIN m[d].at :
           l[d].at[k] = IF <<d, k>> = p THEN z ELSE m[d].at[k]
      /\ \A d \in Cells : d # p[1] => l[d] = m[d]
      /\ Get(l, p) = z
  BY <1>1, PutView
<1> HIDE DEF l, n
<1>5. DOMAIN m[VarCell].at = Vars
  BY <1>1, Cell DEF Shape, CellShape
<1>6. \A u \in Vars : l[VarCell].at[u] = IF Var(u) = p THEN z ELSE m[VarCell].at[u]
  BY <1>4, <1>5, Cell DEF Var
<1>7. \A u \in Vars : n[VarCell].at[u] = IF Var(u) = p THEN z ELSE m[VarCell].at[u]
  BY <1>3, <1>6 DEF Kept
<1>8. Unused(m) \subseteq Unused(n)
  BY <1>3, <1>4 DEF Unused, Kept
<1> QED
  BY <1>3, <1>7, <1>8 DEF Others, l, n

\* zend_assign_to_variable.
LEMMA AssignToGood ==
  ASSUME NEW m, NEW p, NEW z, NEW owned \in BOOLEAN,
         Good(m, UNDEF, IF owned THEN z ELSE UNDEF),
         Points(m, z), ~IsRef(z), z # UNDEF, IsPlace(m, p), p[1] # Literal
  PROVE  Good(AssignTo(m, p, z, owned), UNDEF, UNDEF) /\ Others(m, AssignTo(m, p, z, owned), p)
<1> DEFINE q == DEREF(m, p)
           l == IF owned THEN m ELSE AddRef(m, z)
           n == Release(Put(l, q, z), Get(m, q))
<1>1. AssignTo(m, p, z, owned) = n
  BY DEF AssignTo
<1>2. Shape(m) /\ Sound(m)
  BY DEF Good
<1>3. /\ IsPlace(m, q) /\ q[1] # Literal
      /\ q = p \/ \A u \in Vars : Var(u) # q
  BY <1>2, DerefPlace
<1>4. Good(l, UNDEF, z) /\ SameButCounts(m, l)
  <2>1. CASE owned
    BY <1>2, <2>1 DEF SameButCounts, Shape, CellShape
  <2>2. CASE ~owned
    BY <2>2, AddRefGood
  <2> QED
    BY <2>1, <2>2
<1> HIDE DEF q, l
<1>5. IsPlace(l, q) /\ Get(l, q) = Get(m, q)
  BY <1>2, <1>3, <1>4, Recounted
<1>6. Good(n, UNDEF, UNDEF) /\ Others(l, n, q)
  BY <1>3, <1>4, <1>5, ReplaceGood
<1>7. l[VarCell].at = m[VarCell].at
  BY <1>4, Cell DEF SameButCounts
<1> HIDE DEF n
<1>8. Others(m, n, p)
  BY <1>3, <1>6, <1>7, Zenon DEF Others
<1> QED
  BY <1>1, <1>6, <1>8

\* The array that is stored in is separated first.
LEMMA StoreDimGood ==
  ASSUME NEW m, NEW p, NEW k \in Keys, NEW z, NEW owned \in BOOLEAN, Unused(m) # {},
         Good(m, UNDEF, IF owned THEN z ELSE UNDEF), ~IsRef(z), z # UNDEF,
         IsPlace(m, p), p[1] # Literal, Assignable(m, p),
         owned \/ Points(ArrayAt(m, p), z)
  PROVE  Good(StoreDim(m, p, k, z, owned), UNDEF, UNDEF) /\ Others(m, StoreDim(m, p, k, z, owned), p)
<1> DEFINE own == ArrayAt(m, p)
           q == <<Get(own, p)[2], k>>
           n == AssignTo(own, q, z, owned)
<1>1. Good(own, UNDEF, IF owned THEN z ELSE UNDEF) /\ OwnAt(m, own, p)
  BY ArrayAtGood
<1>2. StoreDim(m, p, k, z, owned) = n
  BY DEF StoreDim
<1> HIDE DEF own
<1>3. Points(own, z)
  BY <1>1 DEF Good, own
<1>4. q[1] \in Cells \ {VarCell, Literal} /\ own[q[1]].kind = "array"
  BY <1>1 DEF OwnAt
<1>5. IsPlace(own, q)
  <2>1. Shape(own)
    BY <1>1 DEF Good
  <2>2. k \in DOMAIN own[q[1]].at
    BY <1>4, <2>1 DEF Shape, CellShape
  <2> QED
    BY <1>4, <2>1, <2>2, PlaceOf
<1> HIDE DEF q
<1>6. Good(n, UNDEF, UNDEF) /\ Others(own, n, q)
  BY <1>1, <1>3, <1>4, <1>5, AssignToGood
<1> HIDE DEF n
<1>7. \A u \in Vars : Var(u) # q
  BY <1>4 DEF Var
<1>8. Others(m, n, p)
  BY <1>1, <1>6, <1>7, Zenon DEF Others, OwnAt
<1> QED
  BY <1>2, <1>6, <1>8

-------------------------------------------------------------------------------
(* Links, copies, returned values.                                         *)

\* A variable becomes a reference to the same cell as another.
LEMMA LinkPut ==
  ASSUME NEW m, Good(m, UNDEF, UNDEF), NEW v \in Vars, NEW w \in Vars, IsRef(Get(m, Var(w)))
  PROVE  LET ref == Get(m, Var(w))
             n == Put(AddRef(m, ref), Var(v), ref)
         IN  /\ Good(n, UNDEF, Get(m, Var(v))) /\ Others(m, n, Var(v))
             /\ n[VarCell].at[v] = ref
<1> DEFINE ref == Get(m, Var(w))
           l == AddRef(m, ref)
           n == Put(l, Var(v), ref)
<1>1. Shape(m) /\ Sound(m)
  BY DEF Good
<1>2. IsPlace(m, Var(v)) /\ Var(v)[1] = VarCell /\ IsPlace(m, Var(w)) /\ ref = m[VarCell].at[w]
  BY <1>1, VarPlace
<1>3. w \in DOMAIN m[VarCell].at
  BY <1>1, Cell DEF Shape, CellShape
<1>4. Points(m, ref)
  BY <1>1, <1>2, <1>3, Cell DEF Sound
<1> HIDE DEF ref
<1>5. Good(l, UNDEF, ref) /\ SameButCounts(m, l)
  BY <1>4, AddRefGood
<1> HIDE DEF l
<1>6. IsPlace(l, Var(v)) /\ Get(l, Var(v)) = Get(m, Var(v)) /\ Shape(l)
  BY <1>1, <1>2, <1>5, Recounted
<1>7. Var(v)[1] # Literal /\ l[Var(v)[1]].kind # "ref"
  BY <1>2, <1>6, Cell DEF Shape, CellShape
<1>8. Good(n, UNDEF, Get(m, Var(v)))
  BY <1>2, <1>5, <1>6, <1>7, PutGood
<1>9. \A u \in Vars : n[VarCell].at[u] = IF Var(u) = Var(v) THEN ref ELSE m[VarCell].at[u]
  <2>1. \A c \in Cells : \A k \in DOMAIN l[c].at :
          n[c].at[k] = IF <<c, k>> = Var(v) THEN ref ELSE l[c].at[k]
    BY <1>6, PutView
  <2>2. DOMAIN l[VarCell].at = Vars /\ l[VarCell].at = m[VarCell].at
    BY <1>5, <1>6, Cell DEF Shape, CellShape, SameButCounts
  <2> HIDE DEF n
  <2> QED
    BY <2>1, <2>2, Cell DEF Var
<1> QED
  BY <1>8, <1>9 DEF Others, n, l, ref

\* The values of the variables other than v and w are kept.
OtherTwo(m, n, v, w) == \A u \in Vars \ {v, w} : n[VarCell].at[u] = m[VarCell].at[u]

\* zend_assign_to_variable_reference, and the end of BIND_GLOBAL.
LEMMA LinkGood ==
  ASSUME NEW m, Good(m, UNDEF, UNDEF), NEW v \in Vars, NEW w \in Vars, Unused(m) # {}
  PROVE  LET made == MAKE_REF(m, Var(w))
             ref == Get(made, Var(w))
             n == Release(Put(AddRef(made, ref), Var(v), ref), Get(made, Var(v)))
         IN  Good(n, UNDEF, UNDEF) /\ OtherTwo(m, n, v, w)
<1> DEFINE made == MAKE_REF(m, Var(w))
           ref == Get(made, Var(w))
           l == Put(AddRef(made, ref), Var(v), ref)
           n == Release(l, Get(made, Var(v)))
<1>1. /\ Good(made, UNDEF, UNDEF) /\ IsRef(Get(made, Var(w)))
      /\ \A u \in Vars \ {w} : made[VarCell].at[u] = m[VarCell].at[u]
  BY MakeRefGood
<1> HIDE DEF made
<1>2. Good(l, UNDEF, Get(made, Var(v))) /\ Others(made, l, Var(v))
  BY <1>1, LinkPut
<1> HIDE DEF l
<1>3. Good(n, UNDEF, UNDEF) /\ Kept(l, n)
  BY <1>2, ReleaseGood
<1> HIDE DEF n
<1>4. \A u \in Vars \ {v} : Var(u) # Var(v)
  BY DEF Var
<1>5. OtherTwo(m, n, v, w)
  BY <1>1, <1>2, <1>3, <1>4 DEF Others, OtherTwo, Kept
<1> QED
  BY <1>3, <1>5 DEF n, l, made

\* ZVAL_COPY_DEREF to a variable that holds nothing to be counted.
LEMMA CopyToGood ==
  ASSUME NEW m, Good(m, UNDEF, UNDEF), NEW v \in Vars, NEW w \in Vars,
         ~Refcounted(Get(m, Var(v)))
  PROVE  /\ Good(CopyTo(m, v, w), UNDEF, UNDEF) /\ Others(m, CopyTo(m, v, w), Var(v))
         /\ CopyTo(m, v, w)[VarCell].at[v] = Read(m, w)
<1> DEFINE z == Read(m, w)
           l == AddRef(m, z)
           n == Put(l, Var(v), z)
<1>1. Shape(m) /\ Sound(m)
  BY DEF Good
<1>2. IsPlace(m, Var(v)) /\ Var(v)[1] = VarCell
  BY <1>1, VarPlace
<1>3. Points(m, z)
  BY <1>1, ReadGood
<1>4. CopyTo(m, v, w) = n
  BY DEF CopyTo
<1> HIDE DEF z
<1>5. Good(l, UNDEF, z) /\ SameButCounts(m, l)
  BY <1>3, AddRefGood
<1> HIDE DEF l
<1>6. IsPlace(l, Var(v)) /\ Get(l, Var(v)) = Get(m, Var(v)) /\ Shape(l)
  BY <1>1, <1>2, <1>5, Recounted
<1>7. Var(v)[1] # Literal /\ l[Var(v)[1]].kind # "ref"
  BY <1>2, <1>6, Cell DEF Shape, CellShape
<1>8. Good(n, UNDEF, Get(m, Var(v)))
  BY <1>2, <1>5, <1>6, <1>7, PutGood
<1>9. Good(n, UNDEF, UNDEF)
  BY <1>8, Undefined, Uncounted
<1>10. \A u \in Vars : n[VarCell].at[u] = IF Var(u) = Var(v) THEN z ELSE m[VarCell].at[u]
  <2>1. \A c \in Cells : \A k \in DOMAIN l[c].at :
          n[c].at[k] = IF <<c, k>> = Var(v) THEN z ELSE l[c].at[k]
    BY <1>6, PutView
  <2>2. DOMAIN l[VarCell].at = Vars /\ l[VarCell].at = m[VarCell].at
    BY <1>5, <1>6, Cell DEF Shape, CellShape, SameButCounts
  <2> HIDE DEF n
  <2> QED
    BY <2>1, <2>2, Cell DEF Var
<1> HIDE DEF n
<1> QED
  BY <1>4, <1>9, <1>10 DEF Others, z

\* The order of two writes to variables does not matter.
LEMMA PutsCommute ==
  ASSUME NEW m, Shape(m), NEW v \in Vars, NEW w \in Vars, v # w, NEW y, NEW z
  PROVE  Put(Put(m, Var(v), y), Var(w), z) = Put(Put(m, Var(w), z), Var(v), y)
<1> DEFINE at == m[VarCell].at
           M(t) == [m EXCEPT ![VarCell] = [m[VarCell] EXCEPT !.at = t]]
<1>1. VarCell \in DOMAIN m /\ "at" \in DOMAIN m[VarCell]
  BY Cell DEF Shape, CellShape, Fields
<1>2. \A n, u, x : Put(n, Var(u), x) = [n EXCEPT ![VarCell] =
                                        [n[VarCell] EXCEPT !.at = [n[VarCell].at EXCEPT ![u] = x]]]
  BY DEF Put, Var
<1>3. \A t : M(t)[VarCell] = [m[VarCell] EXCEPT !.at = t]
  BY <1>1
<1>4. \A t : M(t)[VarCell].at = t
  BY <1>1, <1>3
<1>5. \A t, s : [M(t)[VarCell] EXCEPT !.at = s] = [m[VarCell] EXCEPT !.at = s]
  BY <1>1, <1>3
<1>6. \A t, x : [M(t) EXCEPT ![VarCell] = x] = [m EXCEPT ![VarCell] = x]
  OBVIOUS
<1>7. ASSUME NEW u, NEW x, NEW t
      PROVE  Put(M(t), Var(u), x) = M([t EXCEPT ![u] = x])
  <2> DEFINE s == [t EXCEPT ![u] = x]
  <2> HIDE DEF M
  <2>1. Put(M(t), Var(u), x) = [M(t) EXCEPT ![VarCell] =
                                  [M(t)[VarCell] EXCEPT !.at = [M(t)[VarCell].at EXCEPT ![u] = x]]]
    BY <1>2
  <2>2. Put(M(t), Var(u), x) = [M(t) EXCEPT ![VarCell] = [M(t)[VarCell] EXCEPT !.at = s]]
    BY <1>4, <2>1
  <2> HIDE DEF s
  <2>3. Put(M(t), Var(u), x) = [M(t) EXCEPT ![VarCell] = [m[VarCell] EXCEPT !.at = s]]
    BY <1>5, <2>2
  <2>4. Put(M(t), Var(u), x) = [m EXCEPT ![VarCell] = [m[VarCell] EXCEPT !.at = s]]
    BY <1>6, <2>3
  <2> QED
    BY <2>4 DEF M, s
<1> HIDE DEF M
<1>8. \A u, x : Put(m, Var(u), x) = M([at EXCEPT ![u] = x])
  BY <1>2 DEF M
<1>9. [[at EXCEPT ![v] = y] EXCEPT ![w] = z] = [[at EXCEPT ![w] = z] EXCEPT ![v] = y]
  OBVIOUS
<1>10. \A t, u, x : Put(M(t), Var(u), x) = M([t EXCEPT ![u] = x])
  BY <1>7
<1>11. Put(Put(m, Var(v), y), Var(w), z) = M([[at EXCEPT ![v] = y] EXCEPT ![w] = z])
  <2>1. Put(m, Var(v), y) = M([at EXCEPT ![v] = y])
    BY <1>8
  <2> QED
    BY <1>10, <2>1
<1>12. Put(Put(m, Var(w), z), Var(v), y) = M([[at EXCEPT ![w] = z] EXCEPT ![v] = y])
  <2>1. Put(m, Var(w), z) = M([at EXCEPT ![w] = z])
    BY <1>8
  <2> QED
    BY <1>10, <2>1
<1> QED
  BY <1>9, <1>11, <1>12

\* The value of a variable goes to the temporary.
LEMMA ReturnedGood ==
  ASSUME NEW m, Good(m, UNDEF, UNDEF), NEW v \in Vars \ {"tmp"}, m[VarCell].at["tmp"] = UNDEF
  PROVE  LET n == Returned(m, v)
         IN  /\ Good(n, UNDEF, UNDEF) /\ OtherTwo(m, n, v, "tmp")
             /\ ~IsRef(n[VarCell].at["tmp"])
<1>1. "tmp" \in Vars
  BY DEF Vars
<1>2. Shape(m) /\ Sound(m)
  BY DEF Good
<1>3. Get(m, Var("tmp")) = UNDEF
  BY <1>1, <1>2, VarPlace
<1> DEFINE z == Get(m, Var(v))
<1>4. CASE IsRef(z)
  <2>1. Returned(m, v) = CopyTo(m, "tmp", v)
    BY <1>4 DEF Returned
  <2>2. /\ Good(CopyTo(m, "tmp", v), UNDEF, UNDEF) /\ Others(m, CopyTo(m, "tmp", v), Var("tmp"))
        /\ CopyTo(m, "tmp", v)[VarCell].at["tmp"] = Read(m, v)
    BY <1>1, <1>3, CopyToGood, Undefined
  <2>3. ~IsRef(Read(m, v))
    BY <1>2, ReadGood
  <2> QED
    BY <2>1, <2>2, <2>3 DEF Others, OtherTwo, Var
<1>5. CASE ~IsRef(z)
  <2> DEFINE y == IF z = UNDEF THEN NULL ELSE z
             x == IF Refcounted(z) THEN NULL ELSE z
             l == Put(m, Var(v), x)
             n == Put(l, Var("tmp"), y)
  <2>1. Returned(m, v) = Put(Put(m, Var("tmp"), y), Var(v), x)
    BY <1>5 DEF Returned
  <2>2. Returned(m, v) = n
    BY <1>1, <1>2, <2>1, PutsCommute
  <2>3. ~Refcounted(x) /\ ~IsRef(x)
    BY <1>5, Undefined
  <2>4. ~IsRef(y)
    BY <1>5, Undefined
  <2>5. Good(m, UNDEF, x)
    BY <2>3, Undefined, Uncounted
  <2>6. IsPlace(m, Var(v)) /\ Var(v)[1] = VarCell /\ m[VarCell].kind # "ref"
    BY <1>2, VarPlace, Cell DEF Shape, CellShape
  <2> HIDE DEF x
  <2>7. Good(l, UNDEF, z)
    BY <2>3, <2>5, <2>6, PutGood, Cell
  <2>8. Good(l, UNDEF, y)
    BY <2>7, Undefined, Uncounted
  <2> HIDE DEF y, z
  <2>9. \A c \in Cells : \A k \in DOMAIN m[c].at :
          l[c].at[k] = IF <<c, k>> = Var(v) THEN x ELSE m[c].at[k]
    BY <1>2, <2>6, PutView
  <2>10. Shape(l)
    BY <2>8 DEF Good
  <2> HIDE DEF l
  <2>11. IsPlace(l, Var("tmp")) /\ Var("tmp")[1] = VarCell /\ l[VarCell].kind # "ref"
         /\ Get(l, Var("tmp")) = l[VarCell].at["tmp"]
    BY <1>1, <2>10, VarPlace, Cell DEF Shape, CellShape
  <2>12. Good(n, UNDEF, Get(l, Var("tmp")))
    BY <2>8, <2>11, PutGood, Cell
  <2>13. \A c \in Cells : \A k \in DOMAIN l[c].at :
          n[c].at[k] = IF <<c, k>> = Var("tmp") THEN y ELSE l[c].at[k]
    BY <2>10, <2>11, PutView
  <2> HIDE DEF n
  <2>14. DOMAIN m[VarCell].at = Vars /\ DOMAIN l[VarCell].at = Vars
    BY <1>2, <2>10, Cell DEF Shape, CellShape
  <2>15. \A u \in Vars : /\ l[VarCell].at[u] = IF u = v THEN x ELSE m[VarCell].at[u]
                         /\ n[VarCell].at[u] = IF u = "tmp" THEN y ELSE l[VarCell].at[u]
    BY <2>9, <2>13, <2>14, Cell DEF Var
  <2>16. Get(l, Var("tmp")) = UNDEF
    BY <1>1, <2>11, <2>15
  <2>17. n[VarCell].at["tmp"] = y
    BY <1>1, <2>15
  <2>18. OtherTwo(m, n, v, "tmp")
    BY <2>15 DEF OtherTwo
  <2> QED
    BY <2>2, <2>4, <2>12, <2>16, <2>17, <2>18
<1> QED
  BY <1>4, <1>5

\* i_free_compiled_variables: the variables of the function are unset, and every cell
\* loses the holders it had among them.
LEMMA FreeCVsGood ==
  ASSUME NEW m, Good(m, UNDEF, UNDEF)
  PROVE  LET n == FreeCVs(m)
         IN  /\ Good(n, UNDEF, UNDEF)
             /\ \A v \in Vars : n[VarCell].at[v] = IF v \in CalleeVars THEN UNDEF
                                                   ELSE m[VarCell].at[v]
             /\ \E x : /\ Good(x, UNDEF, UNDEF) /\ n = Destroy(x)
                      /\ \A c \in Cells : x[c].kind = m[c].kind /\ (c # VarCell => x[c].at = m[c].at)
<1> DEFINE held(c) == {v \in CalleeVars : Refcounted(Get(m, Var(v))) /\ Get(m, Var(v))[2] = c}
           clear == [v \in Vars |-> IF v \in CalleeVars THEN UNDEF ELSE m[VarCell].at[v]]
           cleared == [m EXCEPT ![VarCell].at = clear]
           n == [c \in Cells |-> [cleared[c] EXCEPT !.rc = @ - Cardinality(held(c))]]
<1>0. Shape(m) /\ Sound(m)
  BY DEF Good
<1>1. FreeCVs(m) = Destroy(n)
  BY DEF FreeCVs
<1>2. CalleeVars \subseteq Vars /\ DOMAIN m[VarCell].at = Vars
  BY <1>0, Cell DEF Vars, Shape, CellShape
<1>3. \A v \in Vars : IsPlace(m, Var(v)) /\ Get(m, Var(v)) = m[VarCell].at[v]
  BY <1>0, VarPlace
<1>4. \A c : IsFiniteSet(held(c)) /\ Cardinality(held(c)) \in Nat
  BY VarsAssumption, FS_Subset, FS_CardinalityType
<1>5. \A c : c \in {VarCell, Literal} => held(c) = {}
  <2>1. \A v \in Vars : Points(m, Get(m, Var(v)))
    BY <1>0, <1>2, <1>3, Cell DEF Sound
  <2> QED
    BY <1>0, <1>2, <2>1, CountedCell
<1> HIDE DEF held
<1>6. /\ cleared[VarCell] = [m[VarCell] EXCEPT !.at = clear]
      /\ \A c \in Cells : c # VarCell => cleared[c] = m[c]
  BY <1>0, Cell DEF Shape
<1>7. \A c \in Cells : /\ DOMAIN cleared[c] = Fields /\ cleared[c].kind = m[c].kind
                       /\ cleared[c].rc = m[c].rc
                       /\ cleared[c].at = IF c = VarCell THEN clear ELSE m[c].at
  BY <1>0, <1>6 DEF Shape, CellShape, Fields
<1> HIDE DEF cleared
<1>8. DOMAIN n = Cells
      /\ \A c \in Cells : n[c] = [cleared[c] EXCEPT !.rc = @ - Cardinality(held(c))]
  OBVIOUS
<1>9. \A c \in Cells : /\ DOMAIN n[c] = Fields /\ n[c].kind = m[c].kind
                       /\ n[c].rc = m[c].rc - Cardinality(held(c))
                       /\ n[c].at = IF c = VarCell THEN clear ELSE m[c].at
  BY <1>7, <1>8 DEF Fields
<1>10. n[Literal] = m[Literal]
  <2>1. n[Literal] = [m[Literal] EXCEPT !.rc = @ - 0]
    BY <1>5, <1>6, <1>8, Cell, FS_EmptySet
  <2> QED
    BY <1>0, <2>1 DEF Shape
<1>11. DOMAIN n = Cells
  BY <1>8
<1> HIDE DEF n
<1>12. DOMAIN clear = Vars /\ \A v \in Vars : clear[v] = IF v \in CalleeVars THEN UNDEF
                                                         ELSE m[VarCell].at[v]
  OBVIOUS
<1> HIDE DEF clear
<1>13. Shape(n)
  <2>1. ASSUME NEW c \in Cells PROVE CellShape(c, n[c])
    <3>1. CellShape(c, m[c])
      BY <1>0 DEF Shape
    <3>2. n[c].rc \in Int
      BY <1>4, <1>9, <3>1 DEF CellShape
    <3> QED
      BY <1>9, <1>12, <3>1, <3>2 DEF CellShape
  <2> QED
    BY <1>0, <1>10, <1>11, <2>1 DEF Shape
<1>14. \A z : Points(m, z) => Points(n, z)
  BY <1>9 DEF Points
<1>15. Points(n, UNDEF)
  BY Undefined DEF Points
<1>16. Sound(n)
  <2> SUFFICES ASSUME NEW c \in Cells, NEW k \in DOMAIN n[c].at
               PROVE  /\ Points(n, n[c].at[k])
                      /\ c # VarCell => ~IsRef(n[c].at[k])
                      /\ n[c].kind = "ref" => n[c].at[k] # UNDEF
    BY DEF Sound
  <2>1. CASE c = VarCell
    <3>1. k \in Vars /\ n[c].kind # "ref"
      BY <1>9, <1>12, <1>13, <2>1, Cell DEF Shape, CellShape
    <3>2. Points(m, m[c].at[k])
      BY <1>0, <1>2, <2>1, <3>1 DEF Sound
    <3>3. n[c].at[k] \in {UNDEF, m[c].at[k]}
      BY <1>9, <1>12, <2>1, <3>1
    <3> QED
      BY <1>14, <1>15, <2>1, <3>1, <3>2, <3>3
  <2>2. CASE c # VarCell
    BY <1>0, <1>9, <1>14, <2>2 DEF Sound
  <2> QED
    BY <2>1, <2>2
<1>17. Balanced(n, UNDEF, UNDEF)
  <2> SUFFICES ASSUME NEW c \in Cells \ {VarCell, Literal}
               PROVE  n[c].rc = Cardinality(Pointers(n, Cells, c)) + One(UNDEF, c) + One(UNDEF, c)
    BY DEF Balanced
  <2> DEFINE A == Pointers(m, Cells, c)
             B == Pointers(n, Cells, c)
             C == A \ B
  <2>1. /\ \A p : p \in A <=> Holder(m, p, c) /\ p[1] \in Cells
        /\ IsFiniteSet(A) /\ Cardinality(A) \in Nat
    BY <1>0, PointersHeld
  <2>2. /\ \A p : p \in B <=> Holder(n, p, c) /\ p[1] \in Cells
        /\ IsFiniteSet(B) /\ Cardinality(B) \in Nat
    BY <1>13, PointersHeld
  <2>3. m[c].rc = Cardinality(A) + One(UNDEF, c) + One(UNDEF, c)
    BY DEF Good, Balanced
  <2>4. One(UNDEF, c) = 0
    BY Undefined DEF One
  <2>5. n[c].rc = m[c].rc - Cardinality(held(c))
    BY <1>9
  <2> HIDE DEF A, B
  <2>6. \A p : IsPlace(n, p) <=> IsPlace(m, p)
    BY <1>2, <1>9, <1>12 DEF IsPlace, Places
  <2>7. \A p : IsPlace(m, p) /\ p[1] # VarCell => Get(n, p) = Get(m, p)
    BY <1>9 DEF IsPlace, Places, Get
  <2>8. \A p : IsPlace(m, p) /\ p[1] = VarCell => p[2] \in Vars /\ p = Var(p[2])
    BY <1>2 DEF IsPlace, Places, Var
  <2>9. \A v \in Vars : Get(n, Var(v)) = IF v \in CalleeVars THEN UNDEF ELSE Get(m, Var(v))
    BY <1>3, <1>9, <1>12, Cell DEF Var, Get
  <2>10. \A p : Holder(n, p, c) => Holder(m, p, c)
    <3> SUFFICES ASSUME NEW p, IsPlace(n, p), Refcounted(Get(n, p)), Get(n, p)[2] = c
                 PROVE  IsPlace(m, p) /\ Refcounted(Get(m, p)) /\ Get(m, p)[2] = c
      BY DEF Holder
    <3>1. Get(n, p) = Get(m, p) \/ Get(n, p) = UNDEF
      BY <2>6, <2>7, <2>8, <2>9
    <3> QED
      BY <2>6, <3>1, Undefined
  <2>11. \A p : Holder(m, p, c) /\ ~Holder(n, p, c) => p[2] \in held(c) /\ p = Var(p[2])
    <3> SUFFICES ASSUME NEW p, Holder(m, p, c), ~Holder(n, p, c)
                 PROVE  p[2] \in held(c) /\ p = Var(p[2])
      OBVIOUS
    <3>1. p[1] = VarCell
      BY <2>6, <2>7 DEF Holder
    <3>2. p[2] \in Vars /\ p = Var(p[2])
      BY <2>8, <3>1 DEF Holder
    <3>3. p[2] \in CalleeVars
      <4>1. p[2] \notin CalleeVars => Get(n, p) = Get(m, p)
        BY <2>9, <3>2
      <4> QED
        BY <2>6, <4>1 DEF Holder
    <3> QED
      BY <3>2, <3>3 DEF held, Holder
  <2>12. \A v \in held(c) : Holder(m, Var(v), c) /\ ~Holder(n, Var(v), c)
    BY <1>2, <1>3, <2>9, Undefined DEF held, Holder
  <2>13. \A p : p \in C <=> Holder(m, p, c) /\ ~Holder(n, p, c)
    BY <2>1, <2>2 DEF Holder, IsPlace, Places
  <2> DEFINE f == [v \in held(c) |-> Var(v)]
  <2> HIDE DEF C
  <2>14. f \in [held(c) -> C]
    BY <2>12, <2>13
  <2>15. \A v, w \in held(c) : f[v] = f[w] => v = w
    BY DEF Var
  <2>16. \A p \in C : \E v \in held(c) : f[v] = p
    BY <2>11, <2>13
  <2>17. f \in Bijection(held(c), C)
    <3> HIDE DEF f
    <3> QED
      BY <2>14, <2>15, <2>16, Zenon DEF Bijection, Injection, Surjection, IsInjective
  <2>18. Cardinality(C) = Cardinality(held(c))
    BY <1>4, <2>17, FS_Bijection DEF ExistsBijection
  <2>19. C = A \ B /\ A \cap B = B
    BY <2>1, <2>2, <2>10 DEF C
  <2>20. Cardinality(C) = Cardinality(A) - Cardinality(B)
    BY <2>1, <2>19, FS_Difference
  <2>21. n[c].rc = Cardinality(B) + One(UNDEF, c) + One(UNDEF, c)
    BY <2>1, <2>2, <2>3, <2>4, <2>5, <2>18, <2>20
  <2> QED
    BY <2>21 DEF B
<1>18. Good(n, UNDEF, UNDEF)
  BY <1>13, <1>15, <1>16, <1>17 DEF Good
<1>19. Good(Destroy(n), UNDEF, UNDEF) /\ Kept(n, Destroy(n))
  BY <1>18, DestroyGood
<1>20. \A v \in Vars : Destroy(n)[VarCell].at[v] = IF v \in CalleeVars THEN UNDEF
                                                   ELSE m[VarCell].at[v]
  BY <1>9, <1>12, <1>19, Cell DEF Kept
<1>21. \A c \in Cells : n[c].kind = m[c].kind /\ (c # VarCell => n[c].at = m[c].at)
  BY <1>9
<1> QED
  BY <1>1, <1>18, <1>19, <1>20, <1>21

-------------------------------------------------------------------------------
(* The invariant.                                                          *)

LEMMA MemInvInit == Init => MemInv
<1> SUFFICES ASSUME Init PROVE MemInv
  OBVIOUS
<1>1. /\ DOMAIN mem = Cells
      /\ mem[VarCell] = [kind |-> "vars", rc |-> 1, at |-> [v \in Vars |-> UNDEF]]
      /\ mem[Literal] = [kind |-> "array", rc |-> 2, at |-> NoElements]
      /\ \A c \in Cells \ {VarCell, Literal} : mem[c] = FreeCell
  BY Cell DEF Init
<1>2. Shape(mem)
  <2>1. CellShape(VarCell, mem[VarCell])
    BY <1>1 DEF CellShape, Fields
  <2>2. CellShape(Literal, mem[Literal])
    BY <1>1, Cell DEF CellShape, Fields, NoElements
  <2>3. \A c \in Cells \ {VarCell, Literal} : CellShape(c, mem[c])
    BY <1>1 DEF CellShape, Fields, FreeCell
  <2> QED
    BY <1>1, <2>1, <2>2, <2>3 DEF Shape
<1>3. \A c \in Cells : \A k \in DOMAIN mem[c].at : mem[c].at[k] = UNDEF /\ mem[c].kind # "ref"
  BY <1>1 DEF NoElements, FreeCell
<1>4. Points(mem, UNDEF)
  BY Undefined DEF Points
<1>5. Sound(mem)
  BY <1>3, <1>4, Undefined DEF Sound
<1>6. Balanced(mem, UNDEF, UNDEF)
  <2> SUFFICES ASSUME NEW c \in Cells \ {VarCell, Literal}
               PROVE  mem[c].rc = Cardinality(Pointers(mem, Cells, c)) + One(UNDEF, c) + One(UNDEF, c)
    BY DEF Balanced
  <2>1. \A p : ~Holder(mem, p, c)
    BY <1>3, Undefined DEF Holder, IsPlace, Places, Get
  <2>2. Pointers(mem, Cells, c) = {}
    BY <1>2, <2>1, PointersHeld
  <2>3. One(UNDEF, c) = 0
    BY Undefined DEF One
  <2>4. mem[c].rc = 0
    BY <1>1 DEF FreeCell
  <2> QED
    BY <2>2, <2>3, <2>4, FS_EmptySet
<1>7. TempsInv(mem[VarCell].at)
  <2>1. \A v \in Vars : mem[VarCell].at[v] = UNDEF
    BY <1>1
  <2>2. frame = "main" /\ pos = 0
    BY DEF Init
  <2> QED
    BY <2>1, <2>2, Undefined DEF TempsInv, Vars
<1> QED
  BY <1>2, <1>4, <1>5, <1>6, <1>7 DEF MemInv, Good

\* The variables an opcode uses.
LEMMA Variables ==
  /\ CVs \subseteq Vars \ {"static", "tmp", "loop"}
  /\ {"static", "tmp", "loop", Param, Global} \subseteq Vars
  /\ MainVars \subseteq Vars /\ CalleeVars \subseteq Vars /\ MainVars \cap CalleeVars = {}
  /\ Param \in CalleeVars /\ Global \in MainVars
  /\ {"static", "tmp", "loop"} \cap (MainVars \cup CalleeVars) = {}
  /\ frame = "main" => CVs = MainVars
  /\ frame = "function" => CVs = CalleeVars
  /\ \A u, v : Var(u) = Var(v) <=> u = v
BY VarsAssumption DEF CVs, Vars, Var

\* An opcode that changes variables of its own frame and what they refer to.
LEMMA OwnVariables ==
  ASSUME MemInv, Good(mem', UNDEF, UNDEF), NEW v \in CVs, NEW w \in CVs, UNCHANGED frame, pos' \in Nat,
         \A u \in Vars \ {v, w} : mem'[VarCell].at[u] = mem[VarCell].at[u]
  PROVE  MemInv'
<1>1. TempsInv(mem[VarCell].at)
  BY DEF MemInv
<1>2. TempsInv(mem[VarCell].at)'
  BY <1>1, Variables DEF TempsInv
<1> QED
  BY <1>2 DEF MemInv

\* An opcode that uses the temporary, which is then unset or holds a value.
LEMMA TmpVariables ==
  ASSUME MemInv, Good(mem', UNDEF, UNDEF), frame = "main", NEW v \in CVs, UNCHANGED <<frame, pos>>,
         \A u \in Vars \ {v, "tmp"} : mem'[VarCell].at[u] = mem[VarCell].at[u],
         ~IsRef(mem'[VarCell].at["tmp"])
  PROVE  MemInv'
<1>1. TempsInv(mem[VarCell].at)
  BY DEF MemInv
<1>2. TempsInv(mem[VarCell].at)'
  BY <1>1, Variables DEF TempsInv
<1> QED
  BY <1>2 DEF MemInv

\* Facts of the invariant that the proofs of the opcodes use.
LEMMA MemFacts ==
  ASSUME MemInv
  PROVE  /\ Good(mem, UNDEF, UNDEF) /\ Shape(mem) /\ Sound(mem) /\ pos \in Nat
         /\ \A v \in Vars : /\ IsPlace(mem, Var(v)) /\ Var(v)[1] # Literal /\ Var(v)[1] = VarCell
                            /\ Get(mem, Var(v)) = mem[VarCell].at[v]
                            /\ IsPlace(mem, DEREF(mem, Var(v))) /\ DEREF(mem, Var(v))[1] # Literal
                            /\ \A u \in Vars : Var(u) = DEREF(mem, Var(v)) => u = v
                            /\ Points(mem, mem[VarCell].at[v])
<1>1. Good(mem, UNDEF, UNDEF) /\ Shape(mem) /\ Sound(mem) /\ pos \in Nat
  BY DEF MemInv, Good, TempsInv
<1>2. ASSUME NEW v \in Vars
      PROVE  /\ IsPlace(mem, Var(v)) /\ Var(v)[1] # Literal /\ Var(v)[1] = VarCell
             /\ Get(mem, Var(v)) = mem[VarCell].at[v]
             /\ IsPlace(mem, DEREF(mem, Var(v))) /\ DEREF(mem, Var(v))[1] # Literal
             /\ \A u \in Vars : Var(u) = DEREF(mem, Var(v)) => u = v
             /\ Points(mem, mem[VarCell].at[v])
  <2>1. /\ IsPlace(mem, Var(v)) /\ Var(v)[1] # Literal /\ Var(v)[1] = VarCell
        /\ Get(mem, Var(v)) = mem[VarCell].at[v]
    BY <1>1, VarPlace, Cell
  <2>2. /\ IsPlace(mem, DEREF(mem, Var(v))) /\ DEREF(mem, Var(v))[1] # Literal
        /\ DEREF(mem, Var(v)) = Var(v) \/ \A u \in Vars : Var(u) # DEREF(mem, Var(v))
    BY <1>1, <2>1, DerefPlace
  <2>3. Points(mem, mem[VarCell].at[v])
    <3>1. v \in DOMAIN mem[VarCell].at
      BY <1>1, Cell DEF Shape, CellShape
    <3> QED
      BY <1>1, <3>1, Cell DEF Sound
  <2>4. \A u \in Vars : Var(u) = DEREF(mem, Var(v)) => u = v
    BY <2>2, Variables
  <2> QED
    BY <2>1, <2>2, <2>3, <2>4
<1> QED
  BY <1>1, <1>2

\* There is room for a cell.
LEMMA RoomFor ==
  ASSUME MemInv, NEW n \in Nat \ {0}, Room(n)
  PROVE  Unused(mem) # {}
BY FS_EmptySet DEF Room

\* Without the temporary, its value is held.
LEMMA TmpTaken ==
  ASSUME MemInv
  PROVE  /\ Good(WithoutTmp, UNDEF, Tmp) /\ Shape(WithoutTmp) /\ Sound(WithoutTmp)
         /\ ~IsRef(Tmp) /\ Points(WithoutTmp, Tmp)
         /\ Unused(WithoutTmp) = Unused(mem)
         /\ WithoutTmp[VarCell].at["tmp"] = UNDEF
         /\ \A u \in Vars \ {"tmp"} : WithoutTmp[VarCell].at[u] = mem[VarCell].at[u]
<1>1. "tmp" \in Vars
  BY Variables
<1>2. /\ Good(mem, UNDEF, UNDEF) /\ Shape(mem) /\ IsPlace(mem, Var("tmp"))
      /\ Var("tmp")[1] = VarCell /\ Var("tmp")[1] # Literal /\ Tmp = mem[VarCell].at["tmp"]
  BY <1>1, MemFacts DEF Tmp
<1>3. mem[VarCell].kind # "ref" /\ DOMAIN mem[VarCell].at = Vars
  BY <1>2, Cell DEF Shape, CellShape
<1>4. Good(WithoutTmp, UNDEF, Tmp)
  BY <1>2, <1>3, PutGood DEF WithoutTmp, Tmp
<1>5. /\ \A c \in Cells : WithoutTmp[c].kind = mem[c].kind
      /\ \A c \in Cells : \A k \in DOMAIN mem[c].at :
           WithoutTmp[c].at[k] = IF <<c, k>> = Var("tmp") THEN UNDEF ELSE mem[c].at[k]
  BY <1>2, PutView DEF WithoutTmp
<1>6. Unused(WithoutTmp) = Unused(mem)
  BY <1>5 DEF Unused
<1>7. \A u \in Vars : WithoutTmp[VarCell].at[u] = IF u = "tmp" THEN UNDEF ELSE mem[VarCell].at[u]
  BY <1>3, <1>5, Cell DEF Var
<1>8. ~IsRef(Tmp)
  BY <1>2 DEF MemInv, TempsInv
<1> QED
  BY <1>1, <1>4, <1>6, <1>7, <1>8, Zenon DEF Good

-------------------------------------------------------------------------------
(* One lemma for each opcode.                                              *)

\* A variable of the frame is assigned a value that something else may hold.
LEMMA Assigned ==
  ASSUME MemInv, NEW v \in CVs, NEW z, Points(mem, z), ~IsRef(z), z # UNDEF,
         mem' = AssignTo(mem, Var(v), z, FALSE), UNCHANGED frame, pos' \in Nat
  PROVE  MemInv'
<1>1. v \in Vars
  BY Variables
<1>2. Good(mem, UNDEF, UNDEF) /\ IsPlace(mem, Var(v)) /\ Var(v)[1] # Literal
  BY <1>1, MemFacts
<1>3. Good(mem', UNDEF, UNDEF) /\ Others(mem, mem', Var(v))
  BY <1>2, AssignToGood
<1>4. \A u \in Vars \ {v} : mem'[VarCell].at[u] = mem[VarCell].at[u]
  BY <1>3, Variables DEF Others
<1> QED
  BY <1>3, <1>4, OwnVariables

LEMMA AssignInv == MemInv /\ ASSIGN => MemInv'
<1> SUFFICES ASSUME MemInv, ASSIGN PROVE MemInv'
  OBVIOUS
<1>1. UNCHANGED frame /\ pos' \in Nat
  BY MemFacts DEF ASSIGN
<1>2. PICK v \in CVs : \/ mem' = AssignTo(mem, Var(v), ARR(Literal), FALSE)
                       \/ \E n \in Longs : mem' = AssignTo(mem, Var(v), LONG(n), FALSE)
                       \/ \E w \in CVs : mem' = AssignTo(mem, Var(v), Read(mem, w), FALSE)
  BY Zenon DEF ASSIGN
<1>3. CASE mem' = AssignTo(mem, Var(v), ARR(Literal), FALSE)
  <2>1. Points(mem, ARR(Literal))
    BY MemFacts, Undefined, Cell DEF Points, Shape
  <2> QED
    BY <1>1, <1>3, <2>1, Undefined, Assigned
<1>4. ASSUME NEW n \in Longs, mem' = AssignTo(mem, Var(v), LONG(n), FALSE)
      PROVE  MemInv'
  <2>1. Points(mem, LONG(n))
    BY Undefined DEF Points
  <2> QED
    BY <1>1, <1>4, <2>1, Undefined, Assigned
<1>5. ASSUME NEW w \in CVs, mem' = AssignTo(mem, Var(v), Read(mem, w), FALSE)
      PROVE  MemInv'
  <2>1. Points(mem, Read(mem, w)) /\ ~IsRef(Read(mem, w)) /\ Read(mem, w) # UNDEF
    BY MemFacts, Variables, ReadGood
  <2> QED
    BY <1>1, <1>5, <2>1, Assigned
<1> QED
  BY <1>2, <1>3, <1>4, <1>5

LEMMA AssignTmpInv == MemInv /\ AssignTmp => MemInv'
<1> SUFFICES ASSUME MemInv, AssignTmp PROVE MemInv'
  OBVIOUS
<1>1. PICK v \in CVs : mem' = AssignTo(WithoutTmp, Var(v), Tmp, TRUE)
  BY DEF AssignTmp
<1>2. frame = "main" /\ Tmp # UNDEF /\ UNCHANGED <<frame, pos>>
  BY DEF AssignTmp, HasTmp
<1>3. v \in Vars /\ v # "tmp" /\ "tmp" \in Vars
  BY Variables
<1>4. /\ Good(WithoutTmp, UNDEF, Tmp) /\ Shape(WithoutTmp) /\ ~IsRef(Tmp) /\ Points(WithoutTmp, Tmp)
      /\ WithoutTmp[VarCell].at["tmp"] = UNDEF
      /\ \A u \in Vars \ {"tmp"} : WithoutTmp[VarCell].at[u] = mem[VarCell].at[u]
  BY TmpTaken
<1>5. IsPlace(WithoutTmp, Var(v)) /\ Var(v)[1] # Literal
  BY <1>3, <1>4, VarPlace, Cell
<1>6. Good(mem', UNDEF, UNDEF) /\ Others(WithoutTmp, mem', Var(v))
  BY <1>1, <1>2, <1>4, <1>5, AssignToGood
<1>7. \A u \in Vars \ {v, "tmp"} : mem'[VarCell].at[u] = mem[VarCell].at[u]
  BY <1>4, <1>6, Variables, Zenon DEF Others
<1>8. mem'[VarCell].at["tmp"] = UNDEF
  BY <1>3, <1>4, <1>6, Variables, Zenon DEF Others
<1> QED
  BY <1>2, <1>6, <1>7, <1>8, Undefined, TmpVariables

LEMMA AssignRefInv == MemInv /\ ASSIGN_REF => MemInv'
<1> SUFFICES ASSUME MemInv, ASSIGN_REF PROVE MemInv'
  OBVIOUS
<1>1. PICK v \in CVs, w \in CVs : mem' = AssignRefTo(mem, v, w)
  BY DEF ASSIGN_REF
<1>2. UNCHANGED <<frame, pos>> /\ Unused(mem) # {} /\ v \in Vars /\ w \in Vars
  BY RoomFor, Variables DEF ASSIGN_REF
<1>3. Good(mem, UNDEF, UNDEF) /\ pos \in Nat
  BY MemFacts
<1>4. CASE v = w /\ IsRef(Get(mem, Var(v)))
  <2>1. mem' = mem
    BY <1>1, <1>4 DEF AssignRefTo
  <2> QED
    BY <1>2, <1>3, <2>1, OwnVariables
<1>5. CASE ~(v = w /\ IsRef(Get(mem, Var(v))))
  <2>1. Good(mem', UNDEF, UNDEF) /\ OtherTwo(mem, mem', v, w)
    BY <1>1, <1>2, <1>3, <1>5, LinkGood DEF AssignRefTo
  <2> QED
    BY <1>2, <1>3, <2>1, OwnVariables DEF OtherTwo
<1> QED
  BY <1>4, <1>5

\* A variable of the memory is unset, and its value released.
LEMMA Unset ==
  ASSUME MemInv, NEW v \in Vars
  PROVE  LET n == Release(Put(mem, Var(v), UNDEF), Get(mem, Var(v)))
         IN  /\ Good(n, UNDEF, UNDEF) /\ Unused(mem) \subseteq Unused(n)
             /\ \A u \in Vars : n[VarCell].at[u] = IF u = v THEN UNDEF ELSE mem[VarCell].at[u]
<1>1. /\ Good(mem, UNDEF, UNDEF) /\ Shape(mem) /\ IsPlace(mem, Var(v))
      /\ Var(v)[1] # Literal /\ Var(v)[1] = VarCell
  BY MemFacts
<1>2. mem[VarCell].kind # "ref"
  BY <1>1, Cell DEF Shape, CellShape
<1> DEFINE n == Release(Put(mem, Var(v), UNDEF), Get(mem, Var(v)))
<1>3. /\ Good(n, UNDEF, UNDEF) /\ Others(mem, n, Var(v)) /\ Unused(mem) \subseteq Unused(n)
      /\ \A u \in Vars : Var(u) = Var(v) => n[VarCell].at[u] = UNDEF
  BY <1>1, <1>2, ReplaceGood
<1> HIDE DEF n
<1>4. \A u \in Vars : n[VarCell].at[u] = IF u = v THEN UNDEF ELSE mem[VarCell].at[u]
  BY <1>3, Variables DEF Others
<1> QED
  BY <1>3, <1>4 DEF n

LEMMA UnsetCVInv == MemInv /\ UNSET_CV => MemInv'
<1> SUFFICES ASSUME MemInv, UNSET_CV PROVE MemInv'
  OBVIOUS
<1>1. PICK v \in CVs : mem' = Release(Put(mem, Var(v), UNDEF), Get(mem, Var(v)))
  BY DEF UNSET_CV
<1>2. UNCHANGED <<frame, pos>> /\ v \in Vars /\ pos \in Nat
  BY Variables, MemFacts DEF UNSET_CV
<1>3. /\ Good(mem', UNDEF, UNDEF)
      /\ \A u \in Vars : mem'[VarCell].at[u] = IF u = v THEN UNDEF ELSE mem[VarCell].at[u]
  BY <1>1, <1>2, Unset
<1> QED
  BY <1>2, <1>3, OwnVariables

\* A value is stored in an element of what a variable of the frame refers to.
LEMMA Stored ==
  ASSUME MemInv, Unused(mem) # {}, NEW v \in CVs, NEW k \in Keys, NEW z, NEW owned \in BOOLEAN,
         Assignable(mem, DEREF(mem, Var(v))), ~IsRef(z), z # UNDEF,
         owned => ~Refcounted(z),
         ~owned => Points(ArrayAt(mem, DEREF(mem, Var(v))), z),
         mem' = StoreDim(mem, DEREF(mem, Var(v)), k, z, owned), UNCHANGED <<frame, pos>>
  PROVE  MemInv'
<1> DEFINE p == DEREF(mem, Var(v))
<1>1. v \in Vars
  BY Variables
<1>2. /\ Good(mem, UNDEF, UNDEF) /\ IsPlace(mem, p) /\ p[1] # Literal /\ pos \in Nat
      /\ \A u \in Vars : Var(u) = p => u = v
  BY <1>1, MemFacts
<1>3. owned => Good(mem, UNDEF, z)
  BY <1>2, Undefined, Uncounted
<1> HIDE DEF p
<1>4. Good(mem', UNDEF, UNDEF) /\ Others(mem, mem', p)
  <2>1. Good(mem, UNDEF, IF owned THEN z ELSE UNDEF)
    BY <1>2, <1>3
  <2>2. owned \/ Points(ArrayAt(mem, p), z)
    BY DEF p
  <2> QED
    BY <1>2, <2>1, <2>2, StoreDimGood DEF p
<1>5. \A u \in Vars \ {v} : mem'[VarCell].at[u] = mem[VarCell].at[u]
  BY <1>2, <1>4, Zenon DEF Others
<1> QED
  BY <1>2, <1>4, <1>5, OwnVariables

LEMMA AssignDimLongInv == MemInv /\ AssignDimLong => MemInv'
<1> SUFFICES ASSUME MemInv, AssignDimLong PROVE MemInv'
  OBVIOUS
<1>1. PICK v \in CVs, k \in Keys, n \in Longs :
        /\ Assignable(mem, DEREF(mem, Var(v)))
        /\ mem' = StoreDim(mem, DEREF(mem, Var(v)), k, LONG(n), TRUE)
  BY Zenon DEF AssignDimLong
<1>2. UNCHANGED <<frame, pos>> /\ Unused(mem) # {}
  BY RoomFor DEF AssignDimLong
<1> QED
  BY <1>1, <1>2, Undefined, Stored

LEMMA AssignDimInv == MemInv /\ ASSIGN_DIM => MemInv'
<1> SUFFICES ASSUME MemInv, ASSIGN_DIM PROVE MemInv'
  OBVIOUS
<1>1. PICK v \in CVs, w \in CVs, k \in Keys :
        LET p == DEREF(mem, Var(v))
            z == Read(ArrayAt(mem, p), w)
        IN  Assignable(mem, p) /\ mem' = StoreDim(mem, p, k, z, FALSE)
  BY Zenon DEF ASSIGN_DIM
<1>2. UNCHANGED <<frame, pos>> /\ Unused(mem) # {}
  BY RoomFor DEF ASSIGN_DIM
<1> DEFINE p == DEREF(mem, Var(v))
           own == ArrayAt(mem, p)
           z == Read(own, w)
<1>3. Good(mem, UNDEF, UNDEF) /\ IsPlace(mem, p) /\ p[1] # Literal /\ w \in Vars
  BY Variables, MemFacts
<1>4. Good(own, UNDEF, UNDEF)
  BY <1>1, <1>2, <1>3, ArrayAtGood
<1>5. Points(own, z) /\ ~IsRef(z) /\ z # UNDEF
  BY <1>3, <1>4, ReadGood DEF Good
<1> QED
  BY <1>1, <1>2, <1>5, Stored

LEMMA AssignDimTmpInv == MemInv /\ AssignDimTmp => MemInv'
<1> SUFFICES ASSUME MemInv, AssignDimTmp PROVE MemInv'
  OBVIOUS
<1> DEFINE p(v) == DEREF(WithoutTmp, Var(v))
<1>1. PICK v \in CVs, k \in Keys :
        \/ /\ Assignable(WithoutTmp, p(v))
           /\ mem' = StoreDim(WithoutTmp, p(v), k, Tmp, TRUE)
        \/ mem' = Release(WithoutTmp, Tmp)
  BY Zenon DEF AssignDimTmp
<1>2. frame = "main" /\ Tmp # UNDEF /\ UNCHANGED <<frame, pos>> /\ Unused(mem) # {}
  BY RoomFor DEF AssignDimTmp, HasTmp
<1>3. v \in Vars /\ v # "tmp" /\ "tmp" \in Vars
  BY Variables
<1>4. /\ Good(WithoutTmp, UNDEF, Tmp) /\ Shape(WithoutTmp) /\ Sound(WithoutTmp)
      /\ ~IsRef(Tmp) /\ Unused(WithoutTmp) = Unused(mem)
      /\ WithoutTmp[VarCell].at["tmp"] = UNDEF
      /\ \A u \in Vars \ {"tmp"} : WithoutTmp[VarCell].at[u] = mem[VarCell].at[u]
  BY TmpTaken
<1>5. CASE Assignable(WithoutTmp, p(v)) /\ mem' = StoreDim(WithoutTmp, p(v), k, Tmp, TRUE)
  <2>1. IsPlace(WithoutTmp, Var(v)) /\ Var(v)[1] # Literal
    BY <1>3, <1>4, VarPlace, Cell
  <2>2. /\ IsPlace(WithoutTmp, p(v)) /\ p(v)[1] # Literal
        /\ \A u \in Vars : Var(u) = p(v) => Var(u) = Var(v)
    BY <1>4, <2>1, DerefPlace
  <2> HIDE DEF p
  <2>3. Good(mem', UNDEF, UNDEF) /\ Others(WithoutTmp, mem', p(v))
    BY <1>2, <1>4, <1>5, <2>2, StoreDimGood
  <2>4. \A u \in Vars \ {v} : mem'[VarCell].at[u] = WithoutTmp[VarCell].at[u]
    BY <2>2, <2>3, Variables, Zenon DEF Others
  <2>5. mem'[VarCell].at["tmp"] = UNDEF
    BY <1>3, <1>4, <2>4
  <2>6. \A u \in Vars \ {v, "tmp"} : mem'[VarCell].at[u] = mem[VarCell].at[u]
    BY <1>4, <2>4
  <2> QED
    BY <1>2, <2>3, <2>5, <2>6, Undefined, TmpVariables
<1>6. CASE mem' = Release(WithoutTmp, Tmp)
  <2>1. Good(mem', UNDEF, UNDEF) /\ mem'[VarCell].at = WithoutTmp[VarCell].at
    BY <1>4, <1>6, ReleaseGood DEF Kept
  <2>2. mem'[VarCell].at["tmp"] = UNDEF
    BY <1>4, <2>1
  <2>3. \A u \in Vars \ {v, "tmp"} : mem'[VarCell].at[u] = mem[VarCell].at[u]
    BY <1>4, <2>1
  <2> QED
    BY <1>2, <2>1, <2>2, <2>3, Undefined, TmpVariables
<1> QED
  BY <1>1, <1>5, <1>6

\* With room for two cells there is room for another when an array has been made.
LEMMA RoomLeft ==
  ASSUME MemInv, Room(2), Unused(mem) # {}, NEW own, NEW p, OwnAt(mem, own, p)
  PROVE  Unused(own) # {}
<1>1. Unused(mem) \subseteq Cells /\ IsFiniteSet(Unused(mem))
  BY Cell, FS_Subset DEF Unused
<1>2. NewCell(mem) \in Unused(mem)
  BY MemFacts, NewCellFree
<1>3. Cardinality(Unused(mem) \ {NewCell(mem)}) = Cardinality(Unused(mem)) - 1
  BY <1>1, <1>2, FS_RemoveElement
<1>4. Cardinality(Unused(mem)) \in Nat /\ Cardinality(Unused(mem)) >= 2
  BY <1>1, FS_CardinalityType DEF Room
<1>5. Cardinality(Unused(mem) \ {NewCell(mem)}) # 0
  BY <1>3, <1>4
<1>6. Unused(mem) \ {NewCell(mem)} # {}
  BY <1>5, FS_EmptySet
<1> QED
  BY <1>6 DEF OwnAt

LEMMA AssignInnerDimInv == MemInv /\ AssignInnerDim => MemInv'
<1> SUFFICES ASSUME MemInv, AssignInnerDim PROVE MemInv'
  OBVIOUS
<1>1. PICK v \in CVs, k \in Keys, l \in Keys, n \in Longs :
        LET p == DEREF(mem, Var(v))
            own == ArrayAt(mem, p)
            inner == <<Get(own, p)[2], k>>
        IN  /\ Assignable(mem, p) /\ Assignable(own, inner)
            /\ mem' = StoreDim(own, inner, l, LONG(n), TRUE)
  BY Zenon DEF AssignInnerDim
<1>2. UNCHANGED <<frame, pos>> /\ Room(2) /\ Unused(mem) # {}
  BY RoomFor DEF AssignInnerDim
<1> DEFINE p == DEREF(mem, Var(v))
           own == ArrayAt(mem, p)
           inner == <<Get(own, p)[2], k>>
<1>3. /\ Good(mem, UNDEF, UNDEF) /\ Shape(mem) /\ IsPlace(mem, p) /\ p[1] # Literal /\ v \in Vars
      /\ pos \in Nat /\ \A u \in Vars : Var(u) = p => u = v
  BY Variables, MemFacts
<1>4. Good(own, UNDEF, UNDEF) /\ OwnAt(mem, own, p)
  BY <1>1, <1>2, <1>3, ArrayAtGood
<1>5. Unused(own) # {}
  BY <1>2, <1>3, <1>4, RoomLeft
<1>6. Assignable(own, inner) /\ mem' = StoreDim(own, inner, l, LONG(n), TRUE)
  BY <1>1
<1> HIDE DEF own, p
<1>7. inner[1] \in Cells \ {VarCell, Literal} /\ own[inner[1]].kind = "array"
  BY <1>4 DEF OwnAt
<1>8. IsPlace(own, inner)
  <2>1. Shape(own)
    BY <1>4 DEF Good
  <2>2. k \in DOMAIN own[inner[1]].at
    BY <1>7, <2>1 DEF Shape, CellShape
  <2> QED
    BY <1>7, <2>1, <2>2, PlaceOf
<1> HIDE DEF inner
<1>9. Good(own, UNDEF, LONG(n))
  BY <1>4, Undefined, Uncounted
<1>10. Good(mem', UNDEF, UNDEF) /\ Others(own, mem', inner)
  BY <1>5, <1>6, <1>7, <1>8, <1>9, Undefined, StoreDimGood
<1>11. \A u \in Vars : Var(u) # inner
  BY <1>7 DEF Var
<1>12. \A u \in Vars \ {v} : mem'[VarCell].at[u] = mem[VarCell].at[u]
  BY <1>3, <1>4, <1>10, <1>11, Zenon DEF Others, OwnAt
<1> QED
  BY <1>2, <1>3, <1>10, <1>12, OwnVariables

LEMMA FetchRInv == MemInv /\ FETCH_R => MemInv'
<1> SUFFICES ASSUME MemInv, FETCH_R PROVE MemInv'
  OBVIOUS
<1>1. PICK w \in CVs : mem' = CopyTo(mem, "tmp", w)
  BY DEF FETCH_R
<1>2. frame = "main" /\ Get(mem, Var("tmp")) = UNDEF /\ UNCHANGED <<frame, pos>>
  BY DEF FETCH_R, NoTmp, Tmp
<1>3. w \in Vars /\ "tmp" \in Vars
  BY Variables
<1>4. Good(mem, UNDEF, UNDEF) /\ Shape(mem) /\ Sound(mem)
  BY MemFacts
<1>5. /\ Good(mem', UNDEF, UNDEF) /\ Others(mem, mem', Var("tmp"))
      /\ mem'[VarCell].at["tmp"] = Read(mem, w)
  BY <1>1, <1>2, <1>3, <1>4, Undefined, CopyToGood
<1>6. \A u \in Vars \ {w, "tmp"} : mem'[VarCell].at[u] = mem[VarCell].at[u]
  BY <1>5, Variables, Zenon DEF Others
<1>7. ~IsRef(mem'[VarCell].at["tmp"])
  BY <1>3, <1>4, <1>5, ReadGood
<1> QED
  BY <1>2, <1>5, <1>6, <1>7, TmpVariables

LEMMA FreeInv == MemInv /\ FREE => MemInv'
<1> SUFFICES ASSUME MemInv, FREE PROVE MemInv'
  OBVIOUS
<1>1. mem' = Release(WithoutTmp, Tmp) /\ frame = "main" /\ UNCHANGED <<frame, pos>>
  BY DEF FREE, HasTmp
<1>2. /\ Good(WithoutTmp, UNDEF, Tmp) /\ WithoutTmp[VarCell].at["tmp"] = UNDEF
      /\ \A u \in Vars \ {"tmp"} : WithoutTmp[VarCell].at[u] = mem[VarCell].at[u]
  BY TmpTaken
<1>3. Good(mem', UNDEF, UNDEF) /\ mem'[VarCell].at = WithoutTmp[VarCell].at
  BY <1>1, <1>2, ReleaseGood DEF Kept
<1>4. CVs # {}
  BY <1>1, VarsAssumption DEF CVs
<1>5. PICK v \in CVs : TRUE
  BY <1>4
<1>6. \A u \in Vars \ {v, "tmp"} : mem'[VarCell].at[u] = mem[VarCell].at[u]
  BY <1>2, <1>3
<1>7. ~IsRef(mem'[VarCell].at["tmp"])
  BY <1>2, <1>3, Undefined
<1> QED
  BY <1>1, <1>3, <1>6, <1>7, TmpVariables

\* The main script calls the function: its parameter gets a value.
LEMMA Called ==
  ASSUME MemInv, NoTmp, Good(mem', UNDEF, UNDEF), NEW w \in CVs,
         \A u \in Vars \ {w, Param} : mem'[VarCell].at[u] = mem[VarCell].at[u],
         frame' = "function", UNCHANGED pos
  PROVE  MemInv'
<1>1. TempsInv(mem[VarCell].at) /\ mem[VarCell].at["tmp"] = UNDEF /\ frame = "main"
  BY MemFacts, Variables DEF MemInv, NoTmp, Tmp
<1>2. {"tmp", "loop"} \subseteq Vars \ {w, Param}
  BY Variables
<1>3. TempsInv(mem[VarCell].at)'
  BY <1>1, <1>2, Undefined DEF TempsInv
<1> QED
  BY <1>3 DEF MemInv

LEMMA SendVarInv == MemInv /\ SEND_VAR => MemInv'
<1> SUFFICES ASSUME MemInv, SEND_VAR PROVE MemInv'
  OBVIOUS
<1>1. PICK w \in CVs : mem' = CopyTo(mem, Param, w)
  BY DEF SEND_VAR
<1>2. NoTmp /\ frame = "main" /\ frame' = "function" /\ UNCHANGED pos
  BY DEF SEND_VAR, NoTmp
<1>3. w \in Vars /\ Param \in Vars
  BY Variables
<1>4. Good(mem, UNDEF, UNDEF) /\ Get(mem, Var(Param)) = UNDEF
  BY <1>2, <1>3, MemFacts, Variables DEF MemInv, TempsInv
<1>5. Good(mem', UNDEF, UNDEF) /\ Others(mem, mem', Var(Param))
  BY <1>1, <1>3, <1>4, Undefined, CopyToGood
<1>6. \A u \in Vars \ {w, Param} : mem'[VarCell].at[u] = mem[VarCell].at[u]
  BY <1>5, Variables, Zenon DEF Others
<1> QED
  BY <1>2, <1>5, <1>6, Called

LEMMA SendRefInv == MemInv /\ SEND_REF => MemInv'
<1> SUFFICES ASSUME MemInv, SEND_REF PROVE MemInv'
  OBVIOUS
<1>1. PICK w \in CVs : LET made == MAKE_REF(mem, Var(w))
                           ref == Get(made, Var(w))
                       IN  mem' = Put(AddRef(made, ref), Var(Param), ref)
  BY DEF SEND_REF
<1>2. NoTmp /\ frame = "main" /\ frame' = "function" /\ UNCHANGED pos /\ Unused(mem) # {}
  BY RoomFor DEF SEND_REF, NoTmp
<1>3. w \in Vars /\ Param \in Vars /\ w # Param
  BY <1>2, Variables
<1>4. Good(mem, UNDEF, UNDEF) /\ mem[VarCell].at[Param] = UNDEF
  BY <1>2, <1>3, MemFacts, Variables DEF MemInv, TempsInv
<1> DEFINE made == MAKE_REF(mem, Var(w))
           ref == Get(made, Var(w))
<1>5. /\ Good(made, UNDEF, UNDEF) /\ IsRef(ref)
      /\ \A u \in Vars \ {w} : made[VarCell].at[u] = mem[VarCell].at[u]
  BY <1>2, <1>3, <1>4, MakeRefGood
<1>6. Good(mem', UNDEF, Get(made, Var(Param))) /\ Others(made, mem', Var(Param))
  BY <1>1, <1>3, <1>5, LinkPut
<1> HIDE DEF made, ref
<1>7. Get(made, Var(Param)) = UNDEF
  BY <1>3, <1>4, <1>5, VarPlace DEF Good
<1>8. Good(mem', UNDEF, UNDEF)
  BY <1>6, <1>7
<1>9. \A u \in Vars \ {w, Param} : mem'[VarCell].at[u] = mem[VarCell].at[u]
  BY <1>5, <1>6, Variables, Zenon DEF Others
<1> QED
  BY <1>2, <1>8, <1>9, Called

\* The function links a variable of its own to one that it does not own.
LEMMA Bound ==
  ASSUME MemInv, frame = "function", Good(mem', UNDEF, UNDEF), NEW v \in CVs,
         NEW w \in {Global, "static"},
         \A u \in Vars \ {v, w} : mem'[VarCell].at[u] = mem[VarCell].at[u],
         UNCHANGED <<frame, pos>>
  PROVE  MemInv'
<1>1. TempsInv(mem[VarCell].at)
  BY DEF MemInv
<1>2. {"tmp", "loop"} \subseteq Vars \ {v, w}
  BY Variables
<1>3. TempsInv(mem[VarCell].at)'
  BY <1>1, <1>2 DEF TempsInv
<1> QED
  BY <1>3 DEF MemInv

LEMMA BindGlobalInv == MemInv /\ BIND_GLOBAL => MemInv'
<1> SUFFICES ASSUME MemInv, BIND_GLOBAL PROVE MemInv'
  OBVIOUS
<1>1. PICK v \in CVs :
        LET made == MAKE_REF(mem, Var(Global))
            ref == Get(made, Var(Global))
        IN  mem' = Release(Put(AddRef(made, ref), Var(v), ref), Get(made, Var(v)))
  BY DEF BIND_GLOBAL
<1>2. frame = "function" /\ UNCHANGED <<frame, pos>> /\ Unused(mem) # {}
  BY RoomFor DEF BIND_GLOBAL
<1>3. v \in Vars /\ Global \in Vars
  BY Variables
<1>4. Good(mem, UNDEF, UNDEF)
  BY MemFacts
<1>5. Good(mem', UNDEF, UNDEF) /\ OtherTwo(mem, mem', v, Global)
  BY <1>1, <1>2, <1>3, <1>4, LinkGood
<1> QED
  BY <1>2, <1>5, Bound DEF OtherTwo

LEMMA BindStaticInv == MemInv /\ BIND_STATIC => MemInv'
<1> SUFFICES ASSUME MemInv, BIND_STATIC PROVE MemInv'
  OBVIOUS
<1>1. PICK v \in CVs :
        LET freed == Release(Put(mem, Var(v), UNDEF), Get(mem, Var(v)))
            made == MAKE_REF(freed, Var("static"))
            ref == Get(made, Var("static"))
        IN  mem' = Put(AddRef(made, ref), Var(v), ref)
  BY DEF BIND_STATIC
<1>2. frame = "function" /\ UNCHANGED <<frame, pos>> /\ Unused(mem) # {}
  BY RoomFor DEF BIND_STATIC
<1>3. v \in Vars /\ "static" \in Vars /\ v # "static"
  BY Variables
<1> DEFINE freed == Release(Put(mem, Var(v), UNDEF), Get(mem, Var(v)))
           made == MAKE_REF(freed, Var("static"))
           ref == Get(made, Var("static"))
<1>4. /\ Good(freed, UNDEF, UNDEF) /\ Unused(mem) \subseteq Unused(freed)
      /\ \A u \in Vars : freed[VarCell].at[u] = IF u = v THEN UNDEF ELSE mem[VarCell].at[u]
  BY <1>3, Unset
<1>5. mem' = Put(AddRef(made, ref), Var(v), ref)
  BY <1>1
<1> HIDE DEF freed
<1>6. Unused(freed) # {}
  BY <1>2, <1>4
<1>7. /\ Good(made, UNDEF, UNDEF) /\ IsRef(ref)
      /\ \A u \in Vars \ {"static"} : made[VarCell].at[u] = freed[VarCell].at[u]
  BY <1>3, <1>4, <1>6, MakeRefGood
<1>8. Good(mem', UNDEF, Get(made, Var(v))) /\ Others(made, mem', Var(v))
  BY <1>3, <1>5, <1>7, LinkPut
<1> HIDE DEF made, ref
<1>9. Get(made, Var(v)) = UNDEF
  BY <1>3, <1>4, <1>7, VarPlace DEF Good
<1>10. Good(mem', UNDEF, UNDEF)
  BY <1>8, <1>9
<1>11. \A u \in Vars \ {v, "static"} : mem'[VarCell].at[u] = mem[VarCell].at[u]
  <2>1. \A u \in Vars \ {v} : mem'[VarCell].at[u] = made[VarCell].at[u]
    BY <1>8, Variables, Zenon DEF Others
  <2>2. \A u \in Vars \ {v, "static"} : made[VarCell].at[u] = mem[VarCell].at[u]
    BY <1>4, <1>7
  <2> QED
    BY <2>1, <2>2
<1> QED
  BY <1>2, <1>10, <1>11, Bound

LEMMA ReturnInv == MemInv /\ RETURN => MemInv'
<1> SUFFICES ASSUME MemInv, RETURN PROVE MemInv'
  OBVIOUS
<1>1. TempsInv(mem[VarCell].at) /\ Good(mem, UNDEF, UNDEF) /\ pos \in Nat
  BY MemFacts DEF MemInv
<1>2. frame = "function" /\ frame' = "main" /\ UNCHANGED pos
  BY DEF RETURN
<1>3. \E m : /\ mem' = FreeCVs(m) /\ Good(m, UNDEF, UNDEF)
             /\ \A u \in Vars \ (CalleeVars \cup {"tmp"}) : m[VarCell].at[u] = mem[VarCell].at[u]
             /\ ~IsRef(m[VarCell].at["tmp"])
  <2>1. CASE mem' = FreeCVs(mem)
    BY <1>1, <2>1, Zenon DEF TempsInv
  <2>2. ASSUME NEW v \in CalleeVars, mem' = FreeCVs(Returned(mem, v))
        PROVE  \E m : /\ mem' = FreeCVs(m) /\ Good(m, UNDEF, UNDEF)
                      /\ \A u \in Vars \ (CalleeVars \cup {"tmp"}) :
                           m[VarCell].at[u] = mem[VarCell].at[u]
                      /\ ~IsRef(m[VarCell].at["tmp"])
    <3>1. v \in Vars \ {"tmp"} /\ mem[VarCell].at["tmp"] = UNDEF
      BY <1>1, <1>2, Variables DEF TempsInv
    <3> DEFINE m == Returned(mem, v)
    <3>2. /\ Good(m, UNDEF, UNDEF) /\ OtherTwo(mem, m, v, "tmp")
          /\ ~IsRef(m[VarCell].at["tmp"])
      BY <1>1, <3>1, ReturnedGood
    <3> HIDE DEF m
    <3>3. \A u \in Vars \ (CalleeVars \cup {"tmp"}) : m[VarCell].at[u] = mem[VarCell].at[u]
      BY <3>2 DEF OtherTwo
    <3>4. mem' = FreeCVs(m)
      BY <2>2 DEF m
    <3> QED
      BY <3>2, <3>3, <3>4, Zenon
  <2> QED
    BY <2>1, <2>2, Zenon DEF RETURN
<1>4. PICK m : /\ mem' = FreeCVs(m) /\ Good(m, UNDEF, UNDEF)
               /\ \A u \in Vars \ (CalleeVars \cup {"tmp"}) : m[VarCell].at[u] = mem[VarCell].at[u]
               /\ ~IsRef(m[VarCell].at["tmp"])
  BY <1>3, Zenon
<1>5. /\ Good(mem', UNDEF, UNDEF)
      /\ \A u \in Vars : mem'[VarCell].at[u] = IF u \in CalleeVars THEN UNDEF
                                               ELSE m[VarCell].at[u]
  BY <1>4, FreeCVsGood
<1>6. {"tmp", "loop"} \subseteq Vars \ CalleeVars /\ CalleeVars \subseteq Vars
  BY Variables
<1>7. mem'[VarCell].at["loop"] = mem[VarCell].at["loop"] /\ ~IsRef(mem'[VarCell].at["tmp"])
  BY <1>4, <1>5, <1>6
<1>8. TempsInv(mem[VarCell].at)'
  BY <1>1, <1>2, <1>5, <1>6, <1>7 DEF TempsInv
<1> QED
  BY <1>5, <1>8 DEF MemInv

\* The variable of the foreach loop changes.
LEMMA LoopVariable ==
  ASSUME MemInv, Good(mem', UNDEF, UNDEF), frame = "main", UNCHANGED frame, pos' \in Nat,
         \A u \in Vars \ {"loop"} : mem'[VarCell].at[u] = mem[VarCell].at[u],
         mem'[VarCell].at["loop"] = UNDEF \/ IsArr(mem'[VarCell].at["loop"])
  PROVE  MemInv'
<1>1. TempsInv(mem[VarCell].at)
  BY DEF MemInv
<1>2. "tmp" \in Vars \ {"loop"} /\ CalleeVars \subseteq Vars \ {"loop"}
  BY Variables
<1>3. TempsInv(mem[VarCell].at)'
  BY <1>1, <1>2 DEF TempsInv
<1> QED
  BY <1>3 DEF MemInv

LEMMA FeResetInv == MemInv /\ FE_RESET_R => MemInv'
<1> SUFFICES ASSUME MemInv, FE_RESET_R PROVE MemInv'
  OBVIOUS
<1>1. PICK w \in CVs : IsArr(Read(mem, w)) /\ mem' = CopyTo(mem, "loop", w)
  BY DEF FE_RESET_R
<1>2. frame = "main" /\ Get(mem, Var("loop")) = UNDEF /\ UNCHANGED frame /\ pos' = 0
  BY DEF FE_RESET_R, Loop
<1>3. w \in Vars /\ "loop" \in Vars
  BY Variables
<1>4. Good(mem, UNDEF, UNDEF)
  BY MemFacts
<1>5. /\ Good(mem', UNDEF, UNDEF) /\ Others(mem, mem', Var("loop"))
      /\ mem'[VarCell].at["loop"] = Read(mem, w)
  BY <1>1, <1>2, <1>3, <1>4, Undefined, CopyToGood
<1>6. \A u \in Vars \ {"loop"} : mem'[VarCell].at[u] = mem[VarCell].at[u]
  BY <1>5, Variables, Zenon DEF Others
<1> QED
  BY <1>1, <1>2, <1>5, <1>6, LoopVariable

\* An element of the array that a foreach runs over.
LEMMA LoopElement ==
  ASSUME MemInv, Loop # UNDEF, NEW k \in pos + 1 .. NumKeys
  PROVE  LET z == Get(mem, <<Loop[2], k>>) IN k \in Nat /\ Points(mem, z) /\ ~IsRef(z)
<1>1. /\ Shape(mem) /\ Sound(mem) /\ Loop = mem[VarCell].at["loop"]
      /\ Points(mem, Loop) /\ pos \in Nat
  BY MemFacts, Variables DEF Loop
<1>2. k \in Nat /\ k \in Keys
  BY <1>1, BoundsAssumption DEF Keys
<1> DEFINE z == Get(mem, <<Loop[2], k>>)
           c == Loop[2]
<1>3. c \in Cells /\ mem[c].kind = "array"
  BY <1>1 DEF MemInv, TempsInv, Points
<1>4. k \in DOMAIN mem[c].at /\ c # VarCell
  BY <1>1, <1>2, <1>3 DEF Shape, CellShape
<1>5. z = mem[c].at[k]
  BY DEF Get
<1>6. Points(mem, z) /\ ~IsRef(z)
  BY <1>1, <1>3, <1>4, <1>5 DEF Sound
<1> QED
  BY <1>2, <1>6

LEMMA FeFetchInv == MemInv /\ FE_FETCH_R => MemInv'
<1> SUFFICES ASSUME MemInv, FE_FETCH_R PROVE MemInv'
  OBVIOUS
<1>1. PICK v \in CVs, k \in pos + 1 .. NumKeys :
        LET z == Get(mem, <<Loop[2], k>>)
        IN  z # UNDEF /\ mem' = AssignTo(mem, Var(v), z, FALSE) /\ pos' = k
  BY Zenon DEF FE_FETCH_R
<1>2. Loop # UNDEF /\ UNCHANGED frame
  BY DEF FE_FETCH_R
<1>3. LET z == Get(mem, <<Loop[2], k>>) IN k \in Nat /\ Points(mem, z) /\ ~IsRef(z)
  BY <1>2, LoopElement
<1> QED
  BY <1>1, <1>2, <1>3, Assigned

LEMMA FeFreeInv == MemInv /\ FE_FREE => MemInv'
<1> SUFFICES ASSUME MemInv, FE_FREE PROVE MemInv'
  OBVIOUS
<1>1. /\ frame = "main" /\ UNCHANGED frame /\ pos' = 0
      /\ mem' = Release(Put(mem, Var("loop"), UNDEF), Get(mem, Var("loop")))
  BY DEF FE_FREE, Loop
<1>2. "loop" \in Vars
  BY Variables
<1>3. /\ Good(mem', UNDEF, UNDEF)
      /\ \A u \in Vars : mem'[VarCell].at[u] = IF u = "loop" THEN UNDEF ELSE mem[VarCell].at[u]
  BY <1>1, <1>2, Unset
<1> QED
  BY <1>1, <1>2, <1>3, LoopVariable

-------------------------------------------------------------------------------
(* The theorems.                                                           *)

LEMMA MemInvNext == MemInv /\ [Next]_vars => MemInv'
<1> SUFFICES ASSUME MemInv, [Next]_vars PROVE MemInv'
  OBVIOUS
<1>1. CASE UNCHANGED vars
  BY <1>1 DEF vars, MemInv, TempsInv
<1>2. CASE Next
  BY <1>2, AssignInv, AssignTmpInv, AssignRefInv, UnsetCVInv, AssignDimLongInv, AssignDimInv,
     AssignDimTmpInv, AssignInnerDimInv, FetchRInv, FreeInv, SendVarInv, SendRefInv,
     BindGlobalInv, BindStaticInv, ReturnInv, FeResetInv, FeFetchInv, FeFreeInv, Zenon DEF Next
<1> QED
  BY <1>1, <1>2

\* The memory is sound after any opcodes: every cell has the shape of its kind, every
\* zval points to a cell of its type, and every count is that of its holders.
THEOREM MemInvariant == Spec => []MemInv
BY MemInvInit, MemInvNext, PTL DEF Spec

\* The counts that GC_ADDREF and GC_DELREF keep are the numbers of zvals that point to
\* the cells, whatever is assigned, passed, returned, bound or freed.
THEOREM CountsExact == Spec => []RefcountExact
<1>1. MemInv => RefcountExact
  <2> SUFFICES ASSUME MemInv, NEW c \in Cells \ {VarCell, Literal}
               PROVE  mem[c].rc = Cardinality(Pointers(mem, Cells, c))
    BY DEF RefcountExact
  <2>1. Shape(mem) /\ mem[c].rc = Cardinality(Pointers(mem, Cells, c)) + One(UNDEF, c) + One(UNDEF, c)
    BY DEF MemInv, Good, Balanced
  <2>2. One(UNDEF, c) = 0 /\ Cardinality(Pointers(mem, Cells, c)) \in Nat
    BY <2>1, PointersHeld, Undefined DEF One
  <2> QED
    BY <2>1, <2>2
<1> QED
  BY <1>1, MemInvariant, PTL

\* A reference never holds a reference or nothing, an array never holds a reference.
THEOREM ReferencesFlat == Spec => []Flat
<1>1. MemInv => Flat
  BY Cell DEF MemInv, Good, Shape, CellShape, Sound, Flat, Live
<1> QED
  BY <1>1, MemInvariant, PTL

\* The empty array that all requests and threads share is never written.
THEOREM LiteralUntouched == Spec => []LiteralKept
<1>1. MemInv => LiteralKept
  BY DEF MemInv, Good, Shape, LiteralKept
<1> QED
  BY <1>1, MemInvariant, PTL

-------------------------------------------------------------------------------
(* What is freed: links between arrays, and cells that nobody holds.       *)

\* An element of the array d is counted at c.
Leads(m, d, c) == m[d].kind = "array" /\ \E p : p[1] = d /\ Holder(m, p, c)

\* No array contains the cell.
Apart(m, c) == \A d \in Cells : ~Leads(m, d, c)

\* No array contains itself: of any cells there is one that none of them contains.
Founded(m) ==
  \A S \in SUBSET Cells : S # {} => \E c \in S : \A d \in S : ~Leads(m, d, c)

\* A step adds no link between arrays and leaves no cell without a holder.
Fewer(m, n) == \A d, c \in Cells : Leads(n, d, c) => Leads(m, d, c)
Calm(m, n) == Fewer(m, n) /\ (Dead(m) = {} => Dead(n) = {})

LEMMA CalmBoth ==
  ASSUME NEW l, NEW m, NEW n, Calm(l, m), Calm(m, n)
  PROVE  Calm(l, n)
BY DEF Calm, Fewer

LEMMA FoundedFewer ==
  ASSUME NEW m, NEW n, Founded(m), Fewer(m, n)
  PROVE  Founded(n)
BY DEF Founded, Fewer

\* Links are added to an array that none contains.
LEMMA FoundedSource ==
  ASSUME NEW m, NEW n, Founded(m), NEW a \in Cells,
         \A d, c \in Cells : Leads(n, d, c) => Leads(m, d, c) \/ d = a,
         Apart(n, a)
  PROVE  Founded(n)
<1> SUFFICES ASSUME NEW S \in SUBSET Cells, S # {}
             PROVE  \E c \in S : \A d \in S : ~Leads(n, d, c)
  BY DEF Founded
<1>1. CASE a \in S
  BY <1>1 DEF Apart
<1>2. CASE a \notin S
  <2>1. PICK c \in S : \A d \in S : ~Leads(m, d, c)
    BY DEF Founded
  <2> QED
    BY <1>2, <2>1
<1> QED
  BY <1>1, <1>2

LEMMA CountsFewer ==
  ASSUME NEW m, Shape(m), NEW n, SameButCounts(m, n)
  PROVE  Fewer(m, n)
<1>1. \A p, c : Holder(n, p, c) => Holder(m, p, c)
  BY Recounted, Zenon DEF Holder
<1>2. \A d \in Cells : n[d].kind = m[d].kind
  BY DEF SameButCounts
<1> QED
  BY <1>1, <1>2, Zenon DEF Fewer, Leads

LEMMA PutCalm ==
  ASSUME NEW m, Shape(m), NEW p, IsPlace(m, p), NEW z,
         m[p[1]].kind # "array" \/ ~Refcounted(z)
  PROVE  Calm(m, Put(m, p, z))
<1> DEFINE n == Put(m, p, z)
<1>1. /\ \A c \in Cells : /\ n[c].kind = m[c].kind /\ n[c].rc = m[c].rc
                          /\ DOMAIN n[c].at = DOMAIN m[c].at
      /\ \A c \in Cells : \A k \in DOMAIN m[c].at :
           n[c].at[k] = IF <<c, k>> = p THEN z ELSE m[c].at[k]
  BY PutView
<1> HIDE DEF n
<1>2. \A q : IsPlace(n, q) => q = <<q[1], q[2]>> /\ q[1] \in Cells /\ IsPlace(m, q)
  BY <1>1 DEF IsPlace, Places
<1>3. \A q : IsPlace(n, q) => Get(n, q) = IF q = p THEN z ELSE Get(m, q)
  BY <1>1, <1>2 DEF IsPlace, Get
<1>4. ASSUME NEW d \in Cells, NEW c \in Cells, Leads(n, d, c)
      PROVE  Leads(m, d, c)
  <2>1. PICK q : q[1] = d /\ Holder(n, q, c)
    BY <1>4 DEF Leads
  <2>2. n[d].kind = "array" /\ m[d].kind = "array"
    BY <1>1, <1>4 DEF Leads
  <2>3. q # p
    BY <1>3, <2>1, <2>2 DEF Holder
  <2>4. Holder(m, q, c)
    BY <1>2, <1>3, <2>1, <2>3 DEF Holder
  <2> QED
    BY <2>1, <2>2, <2>4 DEF Leads
<1>5. Dead(n) = Dead(m)
  BY <1>1 DEF Dead
<1> QED
  BY <1>4, <1>5 DEF Calm, Fewer, n

\* In a sound memory no cell of an array or reference has less than no holder.
LEMMA CountsNat ==
  ASSUME NEW m, NEW y, NEW z, Good(m, y, z)
  PROVE  /\ \A c \in Cells \ {VarCell} : m[c].rc \in Nat
         /\ \A p : \A c \in Cells : Holder(m, p, c) => m[c].rc > 0
         /\ \A c \in Cells : One(y, c) = 1 \/ One(z, c) = 1 => m[c].rc > 0
<1>0. Shape(m) /\ Sound(m) /\ Points(m, y) /\ Points(m, z)
  BY DEF Good
<1>1. ASSUME NEW c \in Cells \ {VarCell, Literal}
      PROVE  /\ m[c].rc = Cardinality(Pointers(m, Cells, c)) + One(y, c) + One(z, c)
             /\ Cardinality(Pointers(m, Cells, c)) \in Nat
             /\ One(y, c) \in 0 .. 1 /\ One(z, c) \in 0 .. 1
             /\ \A p : Holder(m, p, c) => Cardinality(Pointers(m, Cells, c)) # 0
  <2>1. \A p : Holder(m, p, c) => p[1] \in Cells
    BY DEF Holder, IsPlace, Places
  <2> QED
    BY <1>0, <2>1, OneType, PointersHeld, NoneWithout DEF Good, Balanced
<1>2. m[Literal].rc = 2
  BY <1>0 DEF Shape
<1>3. \A p : ~Holder(m, p, VarCell)
  <2>1. Pointers(m, Cells, VarCell) = {}
    BY <1>0, PlainCells
  <2>2. \A p : Holder(m, p, VarCell) => p[1] \in Cells
    BY DEF Holder, IsPlace, Places
  <2> QED
    BY <1>0, <2>1, <2>2, PointersHeld
<1>4. One(y, VarCell) = 0 /\ One(z, VarCell) = 0
  BY <1>0, CountedCell DEF One
<1>5. \A c \in Cells \ {VarCell} : m[c].rc \in Nat
  BY <1>1, <1>2
<1>6. ASSUME NEW p, NEW c \in Cells, Holder(m, p, c)
      PROVE  m[c].rc > 0
  BY <1>1, <1>2, <1>3, <1>6
<1>7. ASSUME NEW c \in Cells, One(y, c) = 1 \/ One(z, c) = 1
      PROVE  m[c].rc > 0
  BY <1>1, <1>2, <1>4, <1>7
<1> QED
  BY <1>5, <1>6, <1>7

LEMMA AddRefCalm ==
  ASSUME NEW m, NEW z, Good(m, UNDEF, UNDEF), Points(m, z)
  PROVE  Calm(m, AddRef(m, z))
<1> DEFINE n == AddRef(m, z)
<1>0. Shape(m)
  BY DEF Good
<1>1. Good(n, UNDEF, z) /\ SameButCounts(m, n)
  BY AddRefGood
<1>2. Fewer(m, n)
  BY <1>0, <1>1, CountsFewer
<1>3. CASE ~Refcounted(z)
  <2>1. n = m
    BY <1>3 DEF AddRef
  <2> QED
    BY <1>2, <2>1 DEF Calm
<1>4. CASE Refcounted(z)
  <2>1. z[2] \in Cells /\ n[z[2]].rc > 0
    BY <1>0, <1>1, <1>4, CountedCell, CountsNat DEF One
  <2>2. \A c \in Cells \ {z[2]} : n[c].rc = m[c].rc
    BY <1>0, <1>4, CountedCell DEF AddRef, Shape
  <2>3. \A c \in Cells : n[c].kind = m[c].kind
    BY <1>1 DEF SameButCounts
  <2> HIDE DEF n
  <2>4. Dead(m) = {} => Dead(n) = {}
    BY <2>1, <2>2, <2>3 DEF Dead
  <2> QED
    BY <1>2, <2>4 DEF Calm, n
<1> QED
  BY <1>3, <1>4

\* The arrays and references in use.
Living(m) == {c \in Cells : m[c].kind \in {"array", "ref"}}

LEMMA DestroyDeadView ==
  ASSUME NEW m, Good(m, UNDEF, UNDEF)
  PROVE  LET n == DestroyDead(m)
         IN  /\ Good(n, UNDEF, UNDEF) /\ Fewer(m, n)
             /\ Living(n) = Living(m) \ Dead(m)
             /\ Dead(m) = {} => Dead(n) = {}
<1> DEFINE n == DestroyDead(m)
           dead == Dead(m)
<1>0. Shape(m) /\ Good(n, UNDEF, UNDEF)
  BY DestroyDeadGood DEF Good
<1>1. dead \subseteq Cells
  BY DEF Dead
<1>2. /\ \A c \in dead : n[c] = FreeCell
      /\ \A c \in Cells \ dead :
           n[c] = [m[c] EXCEPT !.rc = @ - Cardinality(Pointers(m, dead, c))]
  BY <1>1 DEF DestroyDead
<1> HIDE DEF n
<1>3. \A c \in dead : n[c].kind = "free" /\ n[c].at = [k \in {} |-> UNDEF]
  BY <1>2 DEF FreeCell
<1>4. \A c \in Cells \ dead : /\ n[c].kind = m[c].kind /\ n[c].at = m[c].at
                              /\ n[c].rc = m[c].rc - Cardinality(Pointers(m, dead, c))
  BY <1>0, <1>2 DEF Shape, CellShape, Fields
<1>5. ASSUME NEW d \in Cells, NEW c \in Cells, Leads(n, d, c)
      PROVE  Leads(m, d, c)
  <2>1. PICK p : p[1] = d /\ Holder(n, p, c)
    BY <1>5 DEF Leads
  <2>2. d \notin dead
    BY <1>3, <1>5 DEF Leads
  <2>3. Holder(m, p, c)
    BY <1>4, <2>1, <2>2 DEF Holder, IsPlace, Get
  <2> QED
    BY <1>4, <1>5, <2>1, <2>2, <2>3 DEF Leads
<1>6. Living(n) = Living(m) \ dead
  BY <1>1, <1>3, <1>4 DEF Living
<1>7. ASSUME dead = {} PROVE Dead(n) = {}
  <2>1. \A c : Pointers(m, dead, c) = {}
    <3>1. {} \in SUBSET Cells
      OBVIOUS
    <3> QED
      BY <1>0, <1>7, <3>1, PointersHeld
  <2>2. \A c \in Cells : m[c].rc \in Int
    BY <1>0 DEF Shape, CellShape
  <2> HIDE DEF dead
  <2>3. \A c \in Cells : n[c].rc = m[c].rc /\ n[c].kind = m[c].kind
    BY <1>4, <1>7, <2>1, <2>2, FS_EmptySet
  <2>4. Dead(n) = Dead(m)
    BY <2>3 DEF Dead
  <2> QED
    BY <1>7, <2>4 DEF dead
<1> HIDE DEF dead
<1> QED
  BY <1>0, <1>5, <1>6, <1>7 DEF n, dead, Fewer

\* There are as many rounds as cells, and a round that finds a dead cell frees one.
LEMMA DestroyCalm ==
  ASSUME NEW m, Good(m, UNDEF, UNDEF)
  PROVE  Fewer(m, Destroy(m)) /\ Dead(Destroy(m)) = {}
<1>1. PICK f : /\ f[0] = m
               /\ \A n \in 1 .. MaxCells : f[n] = DestroyDead(f[n - 1])
               /\ Destroy(m) = f[MaxCells]
  BY DestroyIterates
<1>0. IsFiniteSet(Cells) /\ Cardinality(Cells) = MaxCells
  BY BoundsAssumption, FS_Interval DEF Cells
<1>2. \A l : /\ IsFiniteSet(Living(l)) /\ Cardinality(Living(l)) \in Nat
             /\ Cardinality(Living(l)) <= MaxCells
  BY <1>0, FS_Subset, FS_CardinalityType DEF Living
<1>3. \A l : Dead(l) \subseteq Living(l)
  BY DEF Dead, Living
<1> DEFINE Fine(n) == /\ Good(f[n], UNDEF, UNDEF) /\ Fewer(m, f[n])
                      /\ Dead(f[n]) = {} \/ Cardinality(Living(f[n])) + n <= MaxCells
           Bad == {n \in 0 .. MaxCells : ~Fine(n)}
<1>4. Bad = {}
  <2> SUFFICES ASSUME Bad # {} PROVE FALSE
    OBVIOUS
  <2>0. Bad \subseteq Nat
    BY BoundsAssumption
  <2>1. PICK n \in Bad : \A i \in Bad : n <= i
    <3> HIDE DEF Bad
    <3> QED BY <2>0, Least
  <2>2. Fine(0)
    <3>1. Cardinality(Living(m)) + 0 <= MaxCells
      BY <1>2, BoundsAssumption
    <3>2. Fewer(m, m)
      BY DEF Fewer
    <3> QED
      BY <1>1, <3>1, <3>2
  <2>3. n \in 1 .. MaxCells
    <3> HIDE DEF Fine
    <3> QED BY <2>1, <2>2
  <2>4. n - 1 \in 0 .. MaxCells /\ n - 1 \notin Bad
    <3>1. n - 1 \in 0 .. MaxCells /\ ~(n <= n - 1)
      BY <2>3, BoundsAssumption
    <3> HIDE DEF Bad
    <3> QED BY <2>1, <3>1
  <2>5. Fine(n - 1)
    BY <2>4
  <2>6. f[n] = DestroyDead(f[n - 1])
    BY <1>1, <2>3
  <2> DEFINE g == f[n - 1]
             h == f[n]
  <2>7. /\ Good(h, UNDEF, UNDEF) /\ Fewer(g, h)
        /\ Living(h) = Living(g) \ Dead(g)
        /\ Dead(g) = {} => Dead(h) = {}
    BY <2>5, <2>6, DestroyDeadView
  <2>8. Fewer(m, h)
    BY <2>5, <2>7 DEF Fewer
  <2>9. Dead(h) = {} \/ Cardinality(Living(h)) + n <= MaxCells
    <3>1. CASE Dead(g) = {}
      BY <2>7, <3>1
    <3>2. CASE Dead(g) # {}
      <4>1. PICK c : c \in Dead(g)
        BY <3>2
      <4>2. Living(h) \subseteq Living(g) \ {c} /\ c \in Living(g)
        BY <1>3, <2>7, <4>1
      <4>3. /\ Cardinality(Living(g) \ {c}) = Cardinality(Living(g)) - 1
            /\ IsFiniteSet(Living(g) \ {c})
        BY <1>2, <4>2, FS_RemoveElement
      <4>4. Cardinality(Living(h)) <= Cardinality(Living(g)) - 1
        BY <4>2, <4>3, FS_Subset
      <4>5. Cardinality(Living(g)) + (n - 1) <= MaxCells
        BY <2>5, <3>2
      <4> HIDE DEF g, h
      <4>6. Cardinality(Living(g)) \in Nat /\ Cardinality(Living(h)) \in Nat
        BY <1>2
      <4> QED
        BY <2>3, <4>4, <4>5, <4>6, BoundsAssumption
    <3> QED
      BY <3>1, <3>2
  <2>10. Fine(n)
    BY <2>7, <2>8, <2>9
  <2> QED
    BY <2>1, <2>10
<1>5. MaxCells \in 0 .. MaxCells
  BY BoundsAssumption
<1>6. Fine(MaxCells)
  BY <1>4, <1>5
<1> DEFINE last == f[MaxCells]
<1>7. Dead(last) = {}
  <2>1. CASE Cardinality(Living(last)) + MaxCells <= MaxCells
    <3>1. Cardinality(Living(last)) = 0
      <4> HIDE DEF last
      <4> QED
        BY <1>2, <2>1, BoundsAssumption
    <3>2. Living(last) = {}
      BY <1>2, <3>1, FS_EmptySet
    <3> QED
      BY <1>3, <3>2
  <2> QED
    BY <1>6, <2>1
<1> QED
  BY <1>1, <1>6, <1>7

LEMMA ReleaseCalm ==
  ASSUME NEW m, NEW z, Good(m, UNDEF, z)
  PROVE  Calm(m, Release(m, z))
<1>0. Shape(m) /\ Points(m, z)
  BY DEF Good
<1> DEFINE less == Drop(m, z)
<1>1. Good(less, UNDEF, UNDEF) /\ SameButCounts(m, less)
  BY DropGood
<1>2. Fewer(m, less)
  BY <1>0, <1>1, CountsFewer
<1>3. CASE ~Refcounted(z)
  <2>1. Release(m, z) = m
    BY <1>3 DEF Release
  <2> QED
    BY <2>1 DEF Calm, Fewer
<1>4. CASE Refcounted(z)
  <2>1. Release(m, z) = IF less[z[2]].rc = 0 THEN Destroy(less) ELSE less
    BY <1>4 DEF Release, Drop
  <2>2. \A c \in Cells \ {z[2]} : less[c].rc = m[c].rc
    BY <1>0, <1>4, CountedCell DEF Drop, Shape
  <2>3. \A c \in Cells : less[c].kind = m[c].kind
    BY <1>1 DEF SameButCounts
  <2> HIDE DEF less
  <2>4. CASE less[z[2]].rc = 0
    BY <1>1, <1>2, <2>1, <2>4, DestroyCalm DEF Calm, Fewer
  <2>5. CASE less[z[2]].rc # 0
    <3>1. Dead(m) = {} => Dead(less) = {}
      BY <2>2, <2>3, <2>5 DEF Dead
    <3> QED
      BY <1>2, <2>1, <2>5, <3>1 DEF Calm
  <2> QED
    BY <2>4, <2>5
<1> QED
  BY <1>3, <1>4


LEMMA AddCellCalm ==
  ASSUME NEW m, Shape(m), Unused(m) # {}, NEW x, IsNewCell(x),
         x.kind = "ref" \/ \A k \in DOMAIN x.at : ~Refcounted(x.at[k])
  PROVE  Calm(m, AddCell(m, x))
<1> DEFINE n == AddCell(m, x)
           a == NewCell(m)
<1>1. /\ Shape(n) /\ n[a] = x
      /\ \A d \in Cells : d # a => n[d] = m[d]
  BY AddCellView
<1> HIDE DEF n, a
<1>2. ASSUME NEW d \in Cells, NEW c \in Cells, Leads(n, d, c)
      PROVE  Leads(m, d, c)
  <2>1. PICK p : p[1] = d /\ Holder(n, p, c)
    BY <1>2 DEF Leads
  <2>2. d # a
    BY <1>1, <1>2, <2>1 DEF Leads, Holder, IsPlace, Get
  <2>3. Holder(m, p, c)
    BY <1>1, <2>1, <2>2 DEF Holder, IsPlace, Get
  <2> QED
    BY <1>1, <1>2, <2>1, <2>2, <2>3 DEF Leads
<1>3. Dead(m) = {} => Dead(n) = {}
  BY <1>1 DEF Dead, IsNewCell
<1> QED
  BY <1>2, <1>3 DEF n, Calm, Fewer

LEMMA MakeRefCalm ==
  ASSUME NEW m, Good(m, UNDEF, UNDEF), NEW v \in Vars, Unused(m) # {}
  PROVE  Calm(m, MAKE_REF(m, Var(v)))
<1> DEFINE p == Var(v)
           z == IF Get(m, p) = UNDEF THEN NULL ELSE Get(m, p)
           x == [kind |-> "ref", rc |-> 1, at |-> [i \in {REFVAL} |-> z]]
           l == AddCell(m, x)
<1>0. Shape(m)
  BY DEF Good
<1>1. CASE IsRef(Get(m, p))
  BY <1>1 DEF MAKE_REF, Calm, Fewer
<1>2. CASE ~IsRef(Get(m, p))
  <2>1. MAKE_REF(m, p) = Put(l, p, REF(NewCell(m)))
    BY <1>2 DEF MAKE_REF, AddCell
  <2>2. IsNewCell(x) /\ x.kind = "ref"
    BY DEF IsNewCell, Fields
  <2> HIDE DEF x
  <2>3. Calm(m, l)
    BY <1>0, <2>2, AddCellCalm
  <2>4. Shape(l) /\ IsPlace(l, p) /\ p[1] = VarCell
    BY <1>0, <2>2, AddCellView, VarPlace
  <2> HIDE DEF l
  <2>5. l[VarCell].kind # "array"
    BY <2>4, Cell DEF Shape, CellShape
  <2>6. Calm(l, Put(l, p, REF(NewCell(m))))
    BY <2>4, <2>5, PutCalm
  <2> QED
    BY <2>1, <2>3, <2>6, CalmBoth
<1> QED
  BY <1>1, <1>2

\* A copy contains what the array contains, and nothing contains the copy.
LEMMA DupLinks ==
  ASSUME NEW m, NEW y, Good(m, UNDEF, y), Unused(m) # {},
         NEW c \in Cells, m[c].kind = "array"
  PROVE  LET n == Dup(m, c)
             a == NewCell(m)
         IN  /\ \A d, e \in Cells : Leads(n, d, e) => Leads(m, d, e) \/ (d = a /\ Leads(m, c, e))
             /\ Apart(n, a)
             /\ Dead(m) = {} => Dead(n) = {}
             /\ n[a].rc = 1 /\ \A d \in Cells \ {a} : n[d].rc >= m[d].rc
<1> DEFINE n == Dup(m, c)
           a == NewCell(m)
<1>0. Shape(m) /\ Sound(m)
  BY DEF Good
<1>1. a \in Cells \ {VarCell, Literal} /\ a \in Unused(m) /\ m[a].kind = "free"
  BY <1>0, NewCellFree
<1>2. /\ n[a] = ArrayCell(m[c].at)
      /\ \A d \in Cells \ {a} :
           n[d] = [m[d] EXCEPT !.rc = @ + Cardinality(Pointers(m, {c}, d))]
  BY <1>1 DEF Dup
<1> HIDE DEF n, a
<1>3. n[a].at = m[c].at /\ n[a].rc = 1
  BY <1>2 DEF ArrayCell
<1>4. \A d \in Cells \ {a} : /\ n[d].kind = m[d].kind /\ n[d].at = m[d].at
                             /\ n[d].rc = m[d].rc + Cardinality(Pointers(m, {c}, d))
  BY <1>0, <1>2 DEF Shape, CellShape, Fields
<1>5. ASSUME NEW d \in Cells, NEW e, Leads(n, d, e)
      PROVE  Leads(m, d, e) \/ (d = a /\ Leads(m, c, e))
  <2>1. PICK p : p[1] = d /\ Holder(n, p, e)
    BY <1>5 DEF Leads
  <2>2. CASE d # a
    <3>1. Holder(m, p, e)
      BY <1>4, <2>1, <2>2 DEF Holder, IsPlace, Get
    <3> QED
      BY <1>4, <1>5, <2>1, <2>2, <3>1 DEF Leads
  <2>3. CASE d = a
    <3> DEFINE q == <<c, p[2]>>
    <3>1. p[2] \in DOMAIN m[c].at /\ Refcounted(m[c].at[p[2]]) /\ m[c].at[p[2]][2] = e
      BY <1>3, <2>1, <2>3 DEF Holder, IsPlace, Get
    <3>2. IsPlace(m, q) /\ Get(m, q) = m[c].at[p[2]] /\ q[1] = c
      BY <1>0, <3>1, PlaceOf DEF Get
    <3> HIDE DEF q
    <3>3. Holder(m, q, e)
      BY <3>1, <3>2 DEF Holder
    <3> QED
      BY <2>3, <3>2, <3>3 DEF Leads
  <2> QED
    BY <2>2, <2>3
<1>6. \A d : ~Leads(m, d, a)
  BY <1>0, <1>1, FreeCellUnknown DEF Leads
<1>7. Apart(n, a)
  BY <1>5, <1>6 DEF Apart
<1>8. \A d : Cardinality(Pointers(m, {c}, d)) \in Nat
  <2>1. {c} \in SUBSET Cells
    OBVIOUS
  <2> QED
    BY <1>0, <2>1, PointersHeld
<1>9. \A d \in Cells \ {a} : n[d].rc >= m[d].rc
  <2>1. \A d \in Cells : m[d].rc \in Int
    BY <1>0 DEF Shape, CellShape
  <2>2. \A i \in Int, j \in Nat : i + j >= i
    OBVIOUS
  <2> QED
    BY <1>4, <1>8, <2>1, <2>2
<1>10. ASSUME Dead(m) = {} PROVE Dead(n) = {}
  <2>1. \A d \in Cells \ {VarCell} : m[d].rc \in Nat
    BY CountsNat
  <2>3. m[VarCell].kind = "vars"
    BY <1>0, Cell DEF Shape, CellShape
  <2> SUFFICES ASSUME NEW d \in Cells, n[d].kind \in {"array", "ref"}, n[d].rc = 0
               PROVE  FALSE
    BY DEF Dead
  <2>4. d # a
    BY <1>3
  <2>5. m[d].kind \in {"array", "ref"} /\ d # VarCell
    BY <1>4, <2>3, <2>4
  <2>6. m[d].rc # 0
    BY <1>10, <2>5 DEF Dead
  <2>7. m[d].rc \in Nat /\ m[d].rc + Cardinality(Pointers(m, {c}, d)) = 0
    BY <1>4, <2>1, <2>4, <2>5
  <2> QED
    BY <1>8, <2>6, <2>7
<1> QED
  BY <1>3, <1>5, <1>7, <1>9, <1>10 DEF n, a

\* A value is put to an array that none contains and that is not the value.
LEMMA PutFounded ==
  ASSUME NEW m, Shape(m), NEW p, IsPlace(m, p), NEW z, Founded(m),
         m[p[1]].kind = "array" =>
           /\ Apart(m, p[1])
           /\ ~(Refcounted(z) /\ z[2] = p[1])
  PROVE  Founded(Put(m, p, z))
<1> DEFINE n == Put(m, p, z)
<1>1. CASE m[p[1]].kind # "array"
  BY <1>1, PutCalm, FoundedFewer DEF Calm
<1>2. CASE m[p[1]].kind = "array"
  <2>1. /\ \A c \in Cells : n[c].kind = m[c].kind /\ DOMAIN n[c].at = DOMAIN m[c].at
        /\ \A c \in Cells : \A k \in DOMAIN m[c].at :
             n[c].at[k] = IF <<c, k>> = p THEN z ELSE m[c].at[k]
    BY PutView
  <2> HIDE DEF n
  <2>2. \A q : IsPlace(n, q) => q = <<q[1], q[2]>> /\ q[1] \in Cells /\ IsPlace(m, q)
    BY <2>1 DEF IsPlace, Places
  <2>3. \A q : IsPlace(n, q) => Get(n, q) = IF q = p THEN z ELSE Get(m, q)
    BY <2>1, <2>2 DEF IsPlace, Get
  <2>4. ASSUME NEW d \in Cells, NEW c \in Cells, Leads(n, d, c)
        PROVE  Leads(m, d, c) \/ (d = p[1] /\ Refcounted(z) /\ z[2] = c)
    <3>1. PICK q : q[1] = d /\ Holder(n, q, c)
      BY <2>4 DEF Leads
    <3>2. CASE q = p
      BY <2>3, <3>1, <3>2 DEF Holder
    <3>3. CASE q # p
      <4>1. Holder(m, q, c)
        BY <2>2, <2>3, <3>1, <3>3 DEF Holder
      <4> QED
        BY <2>1, <2>4, <3>1, <4>1 DEF Leads
    <3> QED
      BY <3>2, <3>3
  <2>5. p[1] \in Cells
    BY DEF IsPlace, Places
  <2>6. Apart(n, p[1])
    BY <1>2, <2>4, <2>5 DEF Apart
  <2>7. Founded(n)
    BY <2>4, <2>5, <2>6, FoundedSource
  <2> QED
    BY <2>7 DEF n
<1> QED
  BY <1>1, <1>2


LEMMA PutDead ==
  ASSUME NEW m, Shape(m), NEW p, IsPlace(m, p), NEW z
  PROVE  Dead(Put(m, p, z)) = Dead(m)
BY PutView DEF Dead

LEMMA SeparateTidy ==
  ASSUME NEW m, NEW y, Good(m, UNDEF, y), Unused(m) # {},
         NEW p, IsPlace(m, p), p[1] # Literal, IsArr(Get(m, p)),
         m[p[1]].kind = "array" => Apart(m, p[1])
  PROVE  LET own == SEPARATE_ARRAY(m, p)
         IN  /\ Founded(m) => Founded(own)
             /\ Dead(m) = {} => Dead(own) = {}
             /\ own[Get(own, p)[2]].rc = 1 /\ own[p[1]].kind = m[p[1]].kind
<1> DEFINE c == Get(m, p)[2]
           a == NewCell(m)
           n == Dup(m, c)
           dup == Put(n, p, ARR(a))
<1>0. Shape(m) /\ Sound(m)
  BY DEF Good
<1>1. Points(m, Get(m, p)) /\ p[1] \in Cells
  BY <1>0 DEF IsPlace, Places, Sound, Get
<1>2. c \in Cells /\ m[c].kind = "array" /\ c # VarCell
  BY <1>0, <1>1 DEF Points, Shape, CellShape
<1>3. CASE m[c].rc <= 1
  <2>1. SEPARATE_ARRAY(m, p) = m
    BY <1>3 DEF SEPARATE_ARRAY
  <2>2. c # Literal
    BY <1>0, <1>3 DEF Shape
  <2>3. Holder(m, p, c)
    BY <2>2 DEF Holder, Refcounted
  <2>4. m[c].rc > 0 /\ m[c].rc \in Nat
    BY <1>2, <2>3, CountsNat
  <2>5. m[c].rc = 1
    BY <1>3, <2>4
  <2> QED
    BY <2>1, <2>5
<1>4. CASE ~(m[c].rc <= 1)
  <2>1. a \in Cells \ {VarCell, Literal} /\ a \in Unused(m) /\ m[a].kind = "free"
    BY <1>0, NewCellFree
  <2>2. /\ Good(n, y, ARR(a)) /\ IsPlace(n, p) /\ Get(n, p) = Get(m, p)
        /\ \A d \in Cells : d # a => n[d].kind = m[d].kind /\ n[d].at = m[d].at
    BY <1>2, DupGood
  <2>3. /\ \A d, e \in Cells : Leads(n, d, e) => Leads(m, d, e) \/ (d = a /\ Leads(m, c, e))
        /\ Apart(n, a)
        /\ Dead(m) = {} => Dead(n) = {}
        /\ n[a].rc = 1 /\ n[c].rc >= m[c].rc
    BY <1>2, <2>1, DupLinks
  <2>4. SEPARATE_ARRAY(m, p) = Drop(dup, Get(m, p))
    <3>1. SEPARATE_ARRAY(m, p) = IF c = Literal THEN dup ELSE [dup EXCEPT ![c].rc = @ - 1]
      BY <1>4 DEF SEPARATE_ARRAY
    <3>2. Refcounted(Get(m, p)) <=> c # Literal
      BY DEF Refcounted, IsArr, IsRef
    <3> HIDE DEF dup
    <3> QED
      BY <3>1, <3>2 DEF Drop
  <2>5. p[1] # a /\ c # a
    BY <1>0, <1>2, <2>1, FreeCellUnknown
  <2>6. Good(dup, y, Get(m, p))
    <3>1. ~IsRef(ARR(a)) /\ ARR(a) # UNDEF
      BY Undefined
    <3> HIDE DEF n
    <3> QED
      BY <2>2, <3>1, PutGood
  <2> DEFINE own == Drop(dup, Get(m, p))
  <2> HIDE DEF n
  <2>7. Shape(n)
    BY <2>2 DEF Good
  <2>8. Founded(m) => Founded(n)
    BY <2>1, <2>3, FoundedSource
  <2>9. Founded(n) => Founded(dup)
    <3>1. ASSUME n[p[1]].kind = "array"
          PROVE  Apart(n, p[1]) /\ ~(Refcounted(ARR(a)) /\ ARR(a)[2] = p[1])
      <4>1. Apart(m, p[1])
        BY <1>1, <2>2, <2>5, <3>1
      <4>2. Apart(n, p[1])
        BY <1>1, <1>2, <2>3, <4>1 DEF Apart
      <4> QED
        BY <2>5, <4>2, Undefined
    <3> QED
      BY <2>2, <2>7, <3>1, PutFounded
  <2>10. Dead(dup) = Dead(n) /\ Get(dup, p) = ARR(a)
         /\ \A d \in Cells : dup[d].rc = n[d].rc /\ dup[d].kind = n[d].kind
    BY <2>2, <2>7, PutDead, PutView
  <2> HIDE DEF dup
  <2>11. Good(own, y, UNDEF) /\ SameButCounts(dup, own)
    BY <2>6, DropGood
  <2>12. Shape(dup)
    BY <2>6 DEF Good
  <2>13. Founded(dup) => Founded(own)
    BY <2>11, <2>12, CountsFewer, FoundedFewer
  <2>14. IsPlace(dup, p)
    BY <2>2, <2>7, PutView DEF dup, IsPlace, Places
  <2>15. Get(own, p) = ARR(a)
    BY <2>10, <2>11, <2>12, <2>14, Recounted
  <2>16. /\ \A d \in Cells \ {c} : own[d].rc = dup[d].rc
         /\ c # Literal => own[c].rc = dup[c].rc - 1
         /\ c = Literal => own[c].rc = dup[c].rc
    <3>1. Refcounted(Get(m, p)) <=> c # Literal
      BY DEF Refcounted, IsArr, IsRef
    <3>2. own = IF c = Literal THEN dup ELSE [dup EXCEPT ![c].rc = @ - 1]
      BY <3>1 DEF Drop
    <3> HIDE DEF own
    <3> QED
      BY <1>2, <2>12, <3>2 DEF Shape, CellShape
  <2> HIDE DEF own
  <2>17. Dead(dup) = {} => Dead(own) = {}
    <3>1. m[c].rc \in Nat /\ n[c].rc \in Int
      BY <1>0, <1>2, <2>7, CountsNat DEF Shape, CellShape
    <3>2. own[c].rc # 0
      <4>1. dup[c].rc > 1 /\ dup[c].rc \in Int
        BY <1>2, <1>4, <2>3, <2>10, <3>1
      <4> QED
        BY <1>2, <2>16, <4>1
    <3>3. \A d \in Cells : own[d].kind = dup[d].kind
      BY <2>11 DEF SameButCounts
    <3> QED
      BY <2>16, <3>2, <3>3 DEF Dead
  <2>18. own[a].rc = 1
    BY <2>1, <2>3, <2>5, <2>10, <2>16
  <2>19. Get(own, p)[2] = a
    BY <2>15, Undefined
  <2>20. own[p[1]].kind = m[p[1]].kind
    BY <1>1, <2>2, <2>5, <2>10, <2>11 DEF SameButCounts
  <2> QED
    BY <2>3, <2>4, <2>8, <2>9, <2>10, <2>13, <2>17, <2>18, <2>19, <2>20 DEF own
<1> QED
  BY <1>3, <1>4

LEMMA ArrayAtTidy ==
  ASSUME NEW m, NEW y, Good(m, UNDEF, y), Unused(m) # {},
         NEW p, IsPlace(m, p), p[1] # Literal, Assignable(m, p),
         m[p[1]].kind = "array" => Apart(m, p[1])
  PROVE  LET own == ArrayAt(m, p)
         IN  /\ Founded(m) => Founded(own)
             /\ Dead(m) = {} => Dead(own) = {}
             /\ own[Get(own, p)[2]].rc = 1 /\ own[p[1]].kind = m[p[1]].kind
<1>1. CASE IsArr(Get(m, p))
  BY <1>1, SeparateTidy DEF ArrayAt
<1>2. CASE ~IsArr(Get(m, p))
  <2> DEFINE x == ArrayCell(NoElements)
             n == AddCell(m, x)
             a == NewCell(m)
             o == Put(n, p, ARR(a))
  <2>0. Shape(m) /\ p[1] \in Cells
    BY DEF Good, IsPlace, Places
  <2>1. ArrayAt(m, p) = o
    BY <1>2 DEF ArrayAt, AddCell
  <2>2. IsNewCell(x) /\ x.rc = 1 /\ \A k \in DOMAIN x.at : ~Refcounted(x.at[k])
    BY Undefined DEF ArrayCell, NoElements, IsNewCell, Fields
  <2> HIDE DEF x
  <2>3. /\ Shape(n) /\ n[a] = x /\ IsPlace(n, p)
        /\ \A d \in Cells : d # a => n[d] = m[d]
    BY <2>0, <2>2, AddCellView
  <2>4. Calm(m, n)
    BY <2>0, <2>2, AddCellCalm
  <2>5. p[1] # a /\ a \in Cells
    BY <2>0, NewCellFree, FreeCellUnknown DEF Good
  <2> HIDE DEF n
  <2>6. Founded(m) => Founded(n)
    BY <2>4, FoundedFewer DEF Calm
  <2>7. Founded(n) => Founded(o)
    <3>1. ASSUME n[p[1]].kind = "array"
          PROVE  Apart(n, p[1]) /\ ~(Refcounted(ARR(a)) /\ ARR(a)[2] = p[1])
      BY <2>0, <2>3, <2>4, <2>5, <3>1, Undefined DEF Apart, Calm, Fewer
    <3> QED
      BY <2>3, <3>1, PutFounded
  <2>8. /\ Dead(o) = Dead(n) /\ Get(o, p) = ARR(a)
        /\ \A d \in Cells : o[d].rc = n[d].rc /\ o[d].kind = n[d].kind
    BY <2>3, PutDead, PutView
  <2> HIDE DEF o
  <2>9. o[Get(o, p)[2]].rc = 1
    BY <2>2, <2>3, <2>5, <2>8, Undefined
  <2>10. o[p[1]].kind = m[p[1]].kind
    BY <2>0, <2>3, <2>5, <2>8
  <2> QED
    BY <2>1, <2>4, <2>6, <2>7, <2>8, <2>9, <2>10 DEF Calm
<1> QED
  BY <1>1, <1>2

\* An array with one holder, which is the place p.
LEMMA HeldAtOne ==
  ASSUME NEW m, NEW y, Good(m, UNDEF, y), NEW p, NEW c \in Cells \ {VarCell, Literal},
         Holder(m, p, c), m[c].rc = 1
  PROVE  (\A q : Holder(m, q, c) => q = p) /\ One(y, c) = 0
<1> DEFINE A == Pointers(m, Cells, c)
<1>1. /\ \A q : q \in A <=> Holder(m, q, c) /\ q[1] \in Cells
      /\ IsFiniteSet(A) /\ Cardinality(A) \in Nat
  BY PointersHeld DEF Good
<1>2. \A q : Holder(m, q, c) => q \in A
  BY <1>1 DEF Holder, IsPlace, Places
<1>3. 1 = Cardinality(A) + One(UNDEF, c) + One(y, c)
  BY DEF Good, Balanced
<1> HIDE DEF A
<1>4. Cardinality(A) # 0
  BY <1>1, <1>2, FS_EmptySet
<1>5. Cardinality(A) = 1 /\ One(y, c) = 0
  BY <1>1, <1>3, <1>4, OneType
<1>6. \E x : A = {x}
  BY <1>1, <1>5, FS_Singleton
<1> QED
  BY <1>2, <1>5, <1>6

\* The array that is written is in no array, and is not the value that is held.
LEMMA OwnApart ==
  ASSUME NEW m, NEW y, Good(m, UNDEF, y), Unused(m) # {},
         NEW p, IsPlace(m, p), p[1] # Literal, m[p[1]].kind # "array", Assignable(m, p)
  PROVE  LET own == ArrayAt(m, p)
             a == Get(own, p)[2]
         IN  Apart(own, a) /\ One(y, a) = 0
<1> DEFINE own == ArrayAt(m, p)
           a == Get(own, p)[2]
<1>1. own[a].rc = 1 /\ own[p[1]].kind # "array"
  BY ArrayAtTidy
<1>2. Good(own, UNDEF, y) /\ OwnAt(m, own, p)
  BY ArrayAtGood
<1> HIDE DEF own
<1>3. a \in Cells \ {VarCell, Literal} /\ Holder(own, p, a)
  BY <1>2 DEF OwnAt, Holder, Refcounted
<1> HIDE DEF a
<1>4. (\A q : Holder(own, q, a) => q = p) /\ One(y, a) = 0
  BY <1>1, <1>2, <1>3, HeldAtOne
<1>5. Apart(own, a)
  BY <1>1, <1>4 DEF Apart, Leads
<1> QED
  BY <1>4, <1>5 DEF own, a


-------------------------------------------------------------------------------
(* The operations leave nothing behind.                                    *)

Tidy(m) == Founded(m) /\ Dead(m) = {}

LEMMA CalmTidy ==
  ASSUME NEW m, NEW n, Tidy(m), Calm(m, n)
  PROVE  Tidy(n)
BY FoundedFewer DEF Calm, Tidy

\* A place that is no element changes hands, and what it held is released.
LEMMA ReplaceCalm ==
  ASSUME NEW m, NEW z, Good(m, UNDEF, z), NEW v \in Vars
  PROVE  Calm(m, Release(Put(m, Var(v), z), Get(m, Var(v))))
<1> DEFINE l == Put(m, Var(v), z)
<1>1. Shape(m) /\ IsPlace(m, Var(v)) /\ Var(v)[1] = VarCell
  BY VarPlace DEF Good
<1>2. m[VarCell].kind = "vars"
  BY <1>1, Cell DEF Shape, CellShape
<1>3. Good(l, UNDEF, Get(m, Var(v)))
  BY <1>1, <1>2, Cell, PutGood
<1>4. Calm(m, l)
  BY <1>1, <1>2, PutCalm
<1> HIDE DEF l
<1>5. Calm(l, Release(l, Get(m, Var(v))))
  BY <1>3, ReleaseCalm
<1> QED
  BY <1>4, <1>5, CalmBoth DEF l

\* zend_assign_to_variable, of a counted value to an element only where the array is
\* in no array and not the value.
LEMMA AssignToTidy ==
  ASSUME NEW m, NEW p, NEW z, NEW owned \in BOOLEAN,
         Good(m, UNDEF, IF owned THEN z ELSE UNDEF),
         Points(m, z), ~IsRef(z), z # UNDEF, IsPlace(m, p), p[1] # Literal,
         LET c == DEREF(m, p)[1]
         IN  m[c].kind = "array" /\ Refcounted(z) => Apart(m, c) /\ z[2] # c,
         Tidy(m)
  PROVE  Tidy(AssignTo(m, p, z, owned))
<1> DEFINE q == DEREF(m, p)
           l == IF owned THEN m ELSE AddRef(m, z)
           n == Put(l, q, z)
<1>1. AssignTo(m, p, z, owned) = Release(n, Get(m, q))
  BY DEF AssignTo
<1>2. Shape(m) /\ Sound(m)
  BY DEF Good
<1>3. IsPlace(m, q) /\ q[1] # Literal
  BY <1>2, DerefPlace
<1>4. m[q[1]].kind = "array" /\ Refcounted(z) => Apart(m, q[1]) /\ z[2] # q[1]
  OBVIOUS
<1>5. Good(l, UNDEF, z) /\ SameButCounts(m, l) /\ Calm(m, l)
  <2>1. CASE owned
    BY <1>2, <2>1 DEF SameButCounts, Shape, CellShape, Calm, Fewer
  <2>2. CASE ~owned
    BY <2>2, AddRefGood, AddRefCalm
  <2> QED
    BY <2>1, <2>2
<1> HIDE DEF q, l
<1>6. IsPlace(l, q) /\ Get(l, q) = Get(m, q) /\ Shape(l) /\ q[1] \in Cells
  BY <1>2, <1>3, <1>5, Recounted DEF IsPlace, Places
<1>7. l[q[1]].kind = m[q[1]].kind
  BY <1>5, <1>6 DEF SameButCounts
<1>8. Tidy(l)
  BY <1>5, CalmTidy
<1>9. Tidy(n)
  <2>1. CASE l[q[1]].kind = "array" /\ Refcounted(z)
    <3>1. Apart(l, q[1]) /\ z[2] # q[1]
      BY <1>4, <1>5, <1>6, <1>7, <2>1, Zenon DEF Apart, Calm, Fewer
    <3>2. Founded(n)
      BY <1>6, <1>8, <3>1, PutFounded DEF Tidy
    <3> QED
      BY <1>6, <1>8, <3>2, PutDead DEF Tidy
  <2>2. CASE ~(l[q[1]].kind = "array" /\ Refcounted(z))
    BY <1>6, <1>8, <2>2, PutCalm, CalmTidy
  <2> QED
    BY <2>1, <2>2
<1>10. Good(n, UNDEF, Get(m, q))
  BY <1>3, <1>5, <1>6, PutGood
<1> HIDE DEF n
<1> QED
  BY <1>1, <1>9, <1>10, ReleaseCalm, CalmTidy

\* The array that is stored in is separated first: it is then in no array.
LEMMA StoreDimTidy ==
  ASSUME NEW m, NEW p, NEW k \in Keys, NEW z, NEW owned \in BOOLEAN, Unused(m) # {},
         Good(m, UNDEF, IF owned THEN z ELSE UNDEF), ~IsRef(z), z # UNDEF,
         IsPlace(m, p), p[1] # Literal, Assignable(m, p),
         owned \/ Points(ArrayAt(m, p), z),
         m[p[1]].kind = "array" => Apart(m, p[1]) /\ ~Refcounted(z),
         owned \/ ~(IsArr(z) /\ z[2] = Get(ArrayAt(m, p), p)[2]),
         Tidy(m)
  PROVE  Tidy(StoreDim(m, p, k, z, owned))
<1> DEFINE own == ArrayAt(m, p)
           a == Get(own, p)[2]
           q == <<a, k>>
           y == IF owned THEN z ELSE UNDEF
<1>1. Good(own, UNDEF, y) /\ OwnAt(m, own, p)
  BY ArrayAtGood
<1>2. StoreDim(m, p, k, z, owned) = AssignTo(own, q, z, owned)
  BY DEF StoreDim
<1>3. Tidy(own)
  BY ArrayAtTidy DEF Tidy
<1>4. ASSUME m[p[1]].kind # "array"
      PROVE  Apart(own, a) /\ One(y, a) = 0
  BY <1>4, OwnApart
<1> HIDE DEF own
<1>5. Points(own, z)
  BY <1>1 DEF Good, own
<1>6. a \in Cells \ {VarCell, Literal} /\ own[a].kind = "array" /\ q[1] = a /\ q[2] = k
  BY <1>1 DEF OwnAt
<1>7. IsPlace(own, q) /\ own[a].at[k] = Get(own, q) /\ ~IsRef(Get(own, q))
  <2>1. Shape(own) /\ Sound(own)
    BY <1>1 DEF Good
  <2>2. k \in DOMAIN own[a].at
    BY <1>6, <2>1 DEF Shape, CellShape
  <2> QED
    BY <1>6, <2>1, <2>2, PlaceOf DEF Sound, Get
<1>8. DEREF(own, q) = q
  BY <1>7 DEF DEREF
<1>9. Refcounted(z) => Apart(own, a) /\ z[2] # a
  <2>1. Refcounted(z) => IsArr(z) /\ m[p[1]].kind # "array"
    BY DEF Refcounted
  <2>2. owned => One(z, a) = 0 \/ m[p[1]].kind = "array"
    BY <1>4
  <2> QED
    BY <1>4, <2>1, <2>2 DEF One, own
<1> HIDE DEF q, a
<1> QED
  BY <1>1, <1>2, <1>3, <1>5, <1>6, <1>7, <1>8, <1>9, AssignToTidy

LEMMA LinkPutCalm ==
  ASSUME NEW m, Good(m, UNDEF, UNDEF), NEW v \in Vars, NEW w \in Vars, IsRef(Get(m, Var(w)))
  PROVE  LET ref == Get(m, Var(w)) IN Calm(m, Put(AddRef(m, ref), Var(v), ref))
<1> DEFINE ref == Get(m, Var(w))
           l == AddRef(m, ref)
<1>1. Shape(m) /\ Sound(m)
  BY DEF Good
<1>2. IsPlace(m, Var(v)) /\ Var(v)[1] = VarCell /\ ref = m[VarCell].at[w]
  BY <1>1, VarPlace
<1>3. w \in DOMAIN m[VarCell].at /\ m[VarCell].kind = "vars"
  BY <1>1, Cell DEF Shape, CellShape
<1>4. Points(m, ref)
  BY <1>1, <1>2, <1>3, Cell DEF Sound
<1> HIDE DEF ref
<1>5. Good(l, UNDEF, ref) /\ SameButCounts(m, l) /\ Calm(m, l)
  BY <1>4, AddRefGood, AddRefCalm
<1> HIDE DEF l
<1>6. IsPlace(l, Var(v)) /\ Shape(l) /\ l[VarCell].kind = "vars"
  <2>1. IsPlace(l, Var(v)) /\ Shape(l)
    BY <1>1, <1>2, <1>5, Recounted
  <2>2. l[VarCell].kind = m[VarCell].kind
    BY <1>5, Cell DEF SameButCounts
  <2> QED
    BY <1>3, <2>1, <2>2
<1>7. Calm(l, Put(l, Var(v), ref))
  BY <1>2, <1>6, PutCalm
<1> QED
  BY <1>5, <1>7, CalmBoth DEF l, ref

LEMMA LinkCalm ==
  ASSUME NEW m, Good(m, UNDEF, UNDEF), NEW v \in Vars, NEW w \in Vars, Unused(m) # {}
  PROVE  LET made == MAKE_REF(m, Var(w))
             ref == Get(made, Var(w))
             l == Put(AddRef(made, ref), Var(v), ref)
         IN  Calm(m, l) /\ Calm(m, Release(l, Get(made, Var(v))))
<1> DEFINE made == MAKE_REF(m, Var(w))
           ref == Get(made, Var(w))
           l == Put(AddRef(made, ref), Var(v), ref)
<1>1. Good(made, UNDEF, UNDEF) /\ IsRef(Get(made, Var(w))) /\ Calm(m, made)
  BY MakeRefGood, MakeRefCalm
<1> HIDE DEF made
<1>2. Good(l, UNDEF, Get(made, Var(v))) /\ Calm(made, l)
  BY <1>1, LinkPut, LinkPutCalm
<1> HIDE DEF l
<1>3. Calm(l, Release(l, Get(made, Var(v))))
  BY <1>2, ReleaseCalm
<1> QED
  BY <1>1, <1>2, <1>3, CalmBoth DEF l, made

LEMMA CopyToCalm ==
  ASSUME NEW m, Good(m, UNDEF, UNDEF), NEW v \in Vars, NEW w \in Vars
  PROVE  Calm(m, CopyTo(m, v, w))
<1> DEFINE z == Read(m, w)
           l == AddRef(m, z)
<1>1. Shape(m) /\ Sound(m)
  BY DEF Good
<1>2. IsPlace(m, Var(v)) /\ Var(v)[1] = VarCell /\ m[VarCell].kind = "vars"
  BY <1>1, VarPlace, Cell DEF Shape, CellShape
<1>3. Points(m, z)
  BY <1>1, ReadGood
<1> HIDE DEF z
<1>5. SameButCounts(m, l) /\ Calm(m, l)
  BY <1>3, AddRefGood, AddRefCalm
<1> HIDE DEF l
<1>6. IsPlace(l, Var(v)) /\ Shape(l) /\ l[VarCell].kind = "vars"
  <2>1. IsPlace(l, Var(v)) /\ Shape(l)
    BY <1>1, <1>2, <1>5, Recounted
  <2>2. l[VarCell].kind = m[VarCell].kind
    BY <1>5, Cell DEF SameButCounts
  <2> QED
    BY <1>2, <2>1, <2>2
<1>7. Calm(l, Put(l, Var(v), z))
  BY <1>2, <1>6, PutCalm
<1> QED
  BY <1>5, <1>7, CalmBoth DEF CopyTo, l, z

LEMMA ReturnedCalm ==
  ASSUME NEW m, Good(m, UNDEF, UNDEF), NEW v \in Vars
  PROVE  Calm(m, Returned(m, v))
<1> DEFINE z == Get(m, Var(v))
           y == IF z = UNDEF THEN NULL ELSE z
           x == IF Refcounted(z) THEN NULL ELSE z
           l == Put(m, Var("tmp"), y)
<1>1. "tmp" \in Vars /\ Shape(m)
  BY DEF Vars, Good
<1>2. CASE IsRef(z)
  BY <1>1, <1>2, CopyToCalm DEF Returned
<1>3. CASE ~IsRef(z)
  <2>1. Returned(m, v) = Put(l, Var(v), x)
    BY <1>3 DEF Returned
  <2> HIDE DEF y, x
  <2>2. /\ IsPlace(m, Var("tmp")) /\ Var("tmp")[1] = VarCell
        /\ IsPlace(m, Var(v)) /\ Var(v)[1] = VarCell
    BY <1>1, VarPlace
  <2>3. m[VarCell].kind = "vars" /\ VarCell \in Cells
    BY <1>1, Cell DEF Shape, CellShape
  <2>4. Calm(m, l)
    BY <1>1, <2>2, <2>3, PutCalm
  <2>5. /\ DOMAIN l = Cells
        /\ \A c \in Cells : /\ DOMAIN l[c] = Fields
                            /\ l[c].kind = m[c].kind /\ l[c].rc = m[c].rc
                            /\ DOMAIN l[c].at = DOMAIN m[c].at
        /\ \A c \in Cells : c # VarCell => l[c] = m[c]
    BY <1>1, <2>2, PutView
  <2> HIDE DEF l
  <2>6. Shape(l)
    BY <1>1, <2>5, Cell DEF Shape, CellShape
  <2>7. IsPlace(l, Var(v)) /\ l[VarCell].kind = "vars"
    BY <2>2, <2>3, <2>5 DEF IsPlace
  <2>8. Calm(l, Put(l, Var(v), x))
    BY <2>2, <2>6, <2>7, PutCalm
  <2> QED
    BY <2>1, <2>4, <2>8, CalmBoth
<1> QED
  BY <1>2, <1>3

LEMMA FreeCVsCalm ==
  ASSUME NEW m, Good(m, UNDEF, UNDEF)
  PROVE  Calm(m, FreeCVs(m))
<1>1. PICK x : /\ Good(x, UNDEF, UNDEF) /\ FreeCVs(m) = Destroy(x)
               /\ \A c \in Cells : x[c].kind = m[c].kind /\ (c # VarCell => x[c].at = m[c].at)
  BY FreeCVsGood, Zenon
<1>2. Shape(x) /\ Shape(m)
  BY <1>1 DEF Good
<1>3. Fewer(m, x)
  <2> SUFFICES ASSUME NEW d \in Cells, NEW c \in Cells, Leads(x, d, c)
               PROVE  Leads(m, d, c)
    BY DEF Fewer
  <2>1. d # VarCell /\ m[d].kind = "array" /\ x[d].at = m[d].at
    BY <1>1, <1>2 DEF Leads, Shape, CellShape
  <2>2. PICK p : p[1] = d /\ Holder(x, p, c)
    BY DEF Leads
  <2>3. x[p[1]].at = m[p[1]].at
    BY <2>1, <2>2
  <2>4. Holder(m, p, c)
    BY <2>2, <2>3 DEF Holder, IsPlace, Get
  <2> QED
    BY <2>1, <2>2, <2>4 DEF Leads
<1>4. Fewer(x, Destroy(x)) /\ Dead(Destroy(x)) = {}
  BY <1>1, DestroyCalm
<1> QED
  BY <1>1, <1>3, <1>4 DEF Calm, Fewer

\* What a variable refers to is no element.
LEMMA VarTarget ==
  ASSUME NEW m, Shape(m), Sound(m), NEW v \in Vars
  PROVE  m[DEREF(m, Var(v))[1]].kind # "array"
<1>1. Get(m, Var(v)) = m[VarCell].at[v] /\ Var(v)[1] = VarCell
  BY VarPlace
<1>2. m[VarCell].kind = "vars" /\ Points(m, m[VarCell].at[v])
  BY Cell DEF Shape, CellShape, Sound
<1> QED
  BY <1>1, <1>2 DEF DEREF, Points

-------------------------------------------------------------------------------
(* One lemma for each opcode.                                              *)

LEMMA AssignedTidy ==
  ASSUME MemInv, Tidy(mem), NEW v \in CVs, NEW z, Points(mem, z), ~IsRef(z), z # UNDEF,
         mem' = AssignTo(mem, Var(v), z, FALSE)
  PROVE  Tidy(mem')
<1>1. v \in Vars
  BY Variables
<1>2. /\ Good(mem, UNDEF, UNDEF) /\ Shape(mem) /\ Sound(mem)
      /\ IsPlace(mem, Var(v)) /\ Var(v)[1] # Literal
  BY <1>1, MemFacts
<1>3. mem[DEREF(mem, Var(v))[1]].kind # "array"
  BY <1>1, <1>2, VarTarget
<1> QED
  BY <1>2, <1>3, AssignToTidy

LEMMA AssignTidy == MemInv /\ Tidy(mem) /\ ASSIGN => Tidy(mem')
<1> SUFFICES ASSUME MemInv, Tidy(mem), ASSIGN PROVE Tidy(mem')
  OBVIOUS
<1>1. PICK v \in CVs : \/ mem' = AssignTo(mem, Var(v), ARR(Literal), FALSE)
                       \/ \E n \in Longs : mem' = AssignTo(mem, Var(v), LONG(n), FALSE)
                       \/ \E w \in CVs : mem' = AssignTo(mem, Var(v), Read(mem, w), FALSE)
  BY Zenon DEF ASSIGN
<1>2. Points(mem, ARR(Literal)) /\ \A n : Points(mem, LONG(n))
  BY MemFacts, Undefined, Cell DEF Points, Shape
<1>3. \A w \in CVs : Points(mem, Read(mem, w)) /\ ~IsRef(Read(mem, w)) /\ Read(mem, w) # UNDEF
  BY MemFacts, Variables, ReadGood
<1> QED
  BY <1>1, <1>2, <1>3, Undefined, AssignedTidy

\* Without the temporary there are no more links, and the same cells without holders.
LEMMA TmpTakenTidy ==
  ASSUME MemInv, Tidy(mem)
  PROVE  Tidy(WithoutTmp)
<1>1. "tmp" \in Vars
  BY Variables
<1>2. Shape(mem) /\ IsPlace(mem, Var("tmp"))
  BY <1>1, MemFacts
<1> QED
  BY <1>2, Undefined, PutCalm, CalmTidy DEF WithoutTmp

LEMMA AssignTmpTidy == MemInv /\ Tidy(mem) /\ AssignTmp => Tidy(mem')
<1> SUFFICES ASSUME MemInv, Tidy(mem), AssignTmp PROVE Tidy(mem')
  OBVIOUS
<1>1. PICK v \in CVs : mem' = AssignTo(WithoutTmp, Var(v), Tmp, TRUE)
  BY DEF AssignTmp
<1>2. Tmp # UNDEF /\ v \in Vars
  BY Variables DEF AssignTmp, HasTmp
<1>3. /\ Good(WithoutTmp, UNDEF, Tmp) /\ Shape(WithoutTmp) /\ Sound(WithoutTmp)
      /\ ~IsRef(Tmp) /\ Points(WithoutTmp, Tmp)
  BY TmpTaken
<1>4. /\ IsPlace(WithoutTmp, Var(v)) /\ Var(v)[1] # Literal
      /\ WithoutTmp[DEREF(WithoutTmp, Var(v))[1]].kind # "array"
  BY <1>2, <1>3, VarPlace, VarTarget, Cell
<1> QED
  BY <1>1, <1>2, <1>3, <1>4, TmpTakenTidy, AssignToTidy

LEMMA AssignRefTidy == MemInv /\ Tidy(mem) /\ ASSIGN_REF => Tidy(mem')
<1> SUFFICES ASSUME MemInv, Tidy(mem), ASSIGN_REF PROVE Tidy(mem')
  OBVIOUS
<1>1. PICK v \in CVs, w \in CVs : mem' = AssignRefTo(mem, v, w)
  BY DEF ASSIGN_REF
<1>2. Unused(mem) # {} /\ v \in Vars /\ w \in Vars /\ Good(mem, UNDEF, UNDEF)
  BY RoomFor, Variables, MemFacts DEF ASSIGN_REF
<1>3. mem' = mem \/ Calm(mem, mem')
  BY <1>1, <1>2, LinkCalm DEF AssignRefTo
<1> QED
  BY <1>3, CalmTidy

LEMMA UnsetTidy ==
  ASSUME MemInv, Tidy(mem), NEW v \in Vars
  PROVE  Calm(mem, Release(Put(mem, Var(v), UNDEF), Get(mem, Var(v))))
BY MemFacts, ReplaceCalm

LEMMA UnsetCVTidy == MemInv /\ Tidy(mem) /\ UNSET_CV => Tidy(mem')
<1> SUFFICES ASSUME MemInv, Tidy(mem), UNSET_CV PROVE Tidy(mem')
  OBVIOUS
<1>1. PICK v \in CVs : mem' = Release(Put(mem, Var(v), UNDEF), Get(mem, Var(v)))
  BY DEF UNSET_CV
<1> QED
  BY <1>1, Variables, UnsetTidy, CalmTidy

LEMMA AssignDimLongTidy == MemInv /\ Tidy(mem) /\ AssignDimLong => Tidy(mem')
<1> SUFFICES ASSUME MemInv, Tidy(mem), AssignDimLong PROVE Tidy(mem')
  OBVIOUS
<1>1. PICK v \in CVs, k \in Keys, n \in Longs :
        /\ Assignable(mem, DEREF(mem, Var(v)))
        /\ mem' = StoreDim(mem, DEREF(mem, Var(v)), k, LONG(n), TRUE)
  BY Zenon DEF AssignDimLong
<1> DEFINE p == DEREF(mem, Var(v))
<1>2. Unused(mem) # {} /\ v \in Vars
  BY RoomFor, Variables DEF AssignDimLong
<1>3. /\ Good(mem, UNDEF, UNDEF) /\ IsPlace(mem, p) /\ p[1] # Literal
      /\ mem[p[1]].kind # "array"
  BY <1>2, MemFacts, VarTarget
<1>4. Good(mem, UNDEF, LONG(n))
  BY <1>3, Undefined, Uncounted
<1> HIDE DEF p
<1>5. Assignable(mem, p) /\ mem' = StoreDim(mem, p, k, LONG(n), TRUE)
  BY <1>1 DEF p
<1> QED
  BY <1>2, <1>3, <1>4, <1>5, Undefined, StoreDimTidy

\* Unless the value is the array that is written.
LEMMA AssignDimTidy == MemInv /\ Tidy(mem) /\ ASSIGN_DIM /\ ~tied' => Tidy(mem')
<1> SUFFICES ASSUME MemInv, Tidy(mem), ASSIGN_DIM, ~tied' PROVE Tidy(mem')
  OBVIOUS
<1>1. PICK v \in CVs, w \in CVs, k \in Keys :
        LET p == DEREF(mem, Var(v))
            own == ArrayAt(mem, p)
            z == Read(own, w)
        IN  /\ Assignable(mem, p) /\ mem' = StoreDim(mem, p, k, z, FALSE)
            /\ IsArr(z) /\ z[2] = Get(own, p)[2] => tied'
  BY Zenon DEF ASSIGN_DIM
<1>2. Unused(mem) # {}
  BY RoomFor DEF ASSIGN_DIM
<1> DEFINE p == DEREF(mem, Var(v))
           own == ArrayAt(mem, p)
           z == Read(own, w)
<1>3. /\ Good(mem, UNDEF, UNDEF) /\ IsPlace(mem, p) /\ p[1] # Literal /\ w \in Vars
      /\ mem[p[1]].kind # "array"
  BY Variables, MemFacts, VarTarget
<1>4. Assignable(mem, p) /\ mem' = StoreDim(mem, p, k, z, FALSE)
  BY <1>1
<1>5. ~(IsArr(z) /\ z[2] = Get(own, p)[2])
  BY <1>1
<1> HIDE DEF p
<1>6. Good(own, UNDEF, UNDEF)
  BY <1>2, <1>3, <1>4, ArrayAtGood
<1>7. Points(own, z) /\ ~IsRef(z) /\ z # UNDEF
  BY <1>3, <1>6, ReadGood DEF Good
<1> HIDE DEF z
<1> QED
  BY <1>2, <1>3, <1>4, <1>5, <1>7, StoreDimTidy

LEMMA AssignDimTmpTidy == MemInv /\ Tidy(mem) /\ AssignDimTmp => Tidy(mem')
<1> SUFFICES ASSUME MemInv, Tidy(mem), AssignDimTmp PROVE Tidy(mem')
  OBVIOUS
<1> DEFINE p(v) == DEREF(WithoutTmp, Var(v))
<1>1. PICK v \in CVs, k \in Keys :
        \/ /\ Assignable(WithoutTmp, p(v))
           /\ mem' = StoreDim(WithoutTmp, p(v), k, Tmp, TRUE)
        \/ mem' = Release(WithoutTmp, Tmp)
  BY Zenon DEF AssignDimTmp
<1>2. Tmp # UNDEF /\ Unused(mem) # {} /\ v \in Vars
  BY RoomFor, Variables DEF AssignDimTmp, HasTmp
<1>3. /\ Good(WithoutTmp, UNDEF, Tmp) /\ Shape(WithoutTmp) /\ Sound(WithoutTmp)
      /\ ~IsRef(Tmp) /\ Unused(WithoutTmp) = Unused(mem) /\ Tidy(WithoutTmp)
  BY TmpTaken, TmpTakenTidy
<1>4. CASE Assignable(WithoutTmp, p(v)) /\ mem' = StoreDim(WithoutTmp, p(v), k, Tmp, TRUE)
  <2>1. IsPlace(WithoutTmp, Var(v)) /\ Var(v)[1] # Literal
    BY <1>2, <1>3, VarPlace, Cell
  <2>2. /\ IsPlace(WithoutTmp, p(v)) /\ p(v)[1] # Literal
        /\ WithoutTmp[p(v)[1]].kind # "array"
    BY <1>2, <1>3, <2>1, DerefPlace, VarTarget
  <2> HIDE DEF p
  <2> QED
    BY <1>2, <1>3, <1>4, <2>2, StoreDimTidy
<1>5. CASE mem' = Release(WithoutTmp, Tmp)
  BY <1>3, <1>5, ReleaseCalm, CalmTidy
<1> QED
  BY <1>1, <1>4, <1>5

LEMMA AssignInnerDimTidy == MemInv /\ Tidy(mem) /\ AssignInnerDim => Tidy(mem')
<1> SUFFICES ASSUME MemInv, Tidy(mem), AssignInnerDim PROVE Tidy(mem')
  OBVIOUS
<1>1. PICK v \in CVs, k \in Keys, l \in Keys, n \in Longs :
        LET p == DEREF(mem, Var(v))
            own == ArrayAt(mem, p)
            inner == <<Get(own, p)[2], k>>
        IN  /\ Assignable(mem, p) /\ Assignable(own, inner)
            /\ mem' = StoreDim(own, inner, l, LONG(n), TRUE)
  BY Zenon DEF AssignInnerDim
<1>2. Room(2) /\ Unused(mem) # {}
  BY RoomFor DEF AssignInnerDim
<1> DEFINE p == DEREF(mem, Var(v))
           own == ArrayAt(mem, p)
           a == Get(own, p)[2]
           inner == <<a, k>>
<1>3. /\ Good(mem, UNDEF, UNDEF) /\ Shape(mem) /\ IsPlace(mem, p) /\ p[1] # Literal
      /\ mem[p[1]].kind # "array"
  BY Variables, MemFacts, VarTarget
<1>4. /\ Assignable(mem, p) /\ Assignable(own, inner)
      /\ mem' = StoreDim(own, inner, l, LONG(n), TRUE)
  BY <1>1
<1> HIDE DEF p
<1>5. Good(own, UNDEF, UNDEF) /\ OwnAt(mem, own, p)
  BY <1>2, <1>3, <1>4, ArrayAtGood
<1>6. Tidy(own)
  BY <1>2, <1>3, <1>4, ArrayAtTidy DEF Tidy
<1>7. Apart(own, a)
  BY <1>2, <1>3, <1>4, OwnApart
<1>8. Unused(own) # {}
  BY <1>2, <1>3, <1>5, RoomLeft
<1> HIDE DEF own
<1>9. a \in Cells \ {VarCell, Literal} /\ own[a].kind = "array" /\ inner[1] = a
  BY <1>5 DEF OwnAt
<1>10. IsPlace(own, inner)
  <2>1. Shape(own)
    BY <1>5 DEF Good
  <2>2. k \in DOMAIN own[a].at
    BY <1>9, <2>1 DEF Shape, CellShape
  <2> QED
    BY <1>9, <2>1, <2>2, PlaceOf
<1>11. Good(own, UNDEF, LONG(n))
  BY <1>5, Undefined, Uncounted
<1> HIDE DEF a, inner
<1> QED
  BY <1>4, <1>6, <1>7, <1>8, <1>9, <1>10, <1>11, Undefined, StoreDimTidy

LEMMA FetchRTidy == MemInv /\ Tidy(mem) /\ FETCH_R => Tidy(mem')
<1> SUFFICES ASSUME MemInv, Tidy(mem), FETCH_R PROVE Tidy(mem')
  OBVIOUS
<1>1. PICK w \in CVs : mem' = CopyTo(mem, "tmp", w)
  BY DEF FETCH_R
<1> QED
  BY <1>1, Variables, MemFacts, CopyToCalm, CalmTidy

LEMMA FreeTidy == MemInv /\ Tidy(mem) /\ FREE => Tidy(mem')
<1> SUFFICES ASSUME MemInv, Tidy(mem), FREE PROVE Tidy(mem')
  OBVIOUS
<1>1. mem' = Release(WithoutTmp, Tmp)
  BY DEF FREE
<1> QED
  BY <1>1, TmpTaken, TmpTakenTidy, ReleaseCalm, CalmTidy

LEMMA SendVarTidy == MemInv /\ Tidy(mem) /\ SEND_VAR => Tidy(mem')
<1> SUFFICES ASSUME MemInv, Tidy(mem), SEND_VAR PROVE Tidy(mem')
  OBVIOUS
<1>1. PICK w \in CVs : mem' = CopyTo(mem, Param, w)
  BY DEF SEND_VAR
<1> QED
  BY <1>1, Variables, MemFacts, CopyToCalm, CalmTidy

LEMMA SendRefTidy == MemInv /\ Tidy(mem) /\ SEND_REF => Tidy(mem')
<1> SUFFICES ASSUME MemInv, Tidy(mem), SEND_REF PROVE Tidy(mem')
  OBVIOUS
<1>1. PICK w \in CVs : LET made == MAKE_REF(mem, Var(w))
                           ref == Get(made, Var(w))
                       IN  mem' = Put(AddRef(made, ref), Var(Param), ref)
  BY DEF SEND_REF
<1>2. Unused(mem) # {} /\ w \in Vars /\ Param \in Vars /\ Good(mem, UNDEF, UNDEF)
  BY RoomFor, Variables, MemFacts DEF SEND_REF
<1>3. Calm(mem, mem')
  BY <1>1, <1>2, LinkCalm
<1> QED
  BY <1>3, CalmTidy

LEMMA BindGlobalTidy == MemInv /\ Tidy(mem) /\ BIND_GLOBAL => Tidy(mem')
<1> SUFFICES ASSUME MemInv, Tidy(mem), BIND_GLOBAL PROVE Tidy(mem')
  OBVIOUS
<1>1. PICK v \in CVs :
        LET made == MAKE_REF(mem, Var(Global))
            ref == Get(made, Var(Global))
        IN  mem' = Release(Put(AddRef(made, ref), Var(v), ref), Get(made, Var(v)))
  BY DEF BIND_GLOBAL
<1>2. Unused(mem) # {} /\ v \in Vars /\ Global \in Vars /\ Good(mem, UNDEF, UNDEF)
  BY RoomFor, Variables, MemFacts DEF BIND_GLOBAL
<1>3. Calm(mem, mem')
  BY <1>1, <1>2, LinkCalm
<1> QED
  BY <1>3, CalmTidy

LEMMA BindStaticTidy == MemInv /\ Tidy(mem) /\ BIND_STATIC => Tidy(mem')
<1> SUFFICES ASSUME MemInv, Tidy(mem), BIND_STATIC PROVE Tidy(mem')
  OBVIOUS
<1>1. PICK v \in CVs :
        LET freed == Release(Put(mem, Var(v), UNDEF), Get(mem, Var(v)))
            made == MAKE_REF(freed, Var("static"))
            ref == Get(made, Var("static"))
        IN  mem' = Put(AddRef(made, ref), Var(v), ref)
  BY DEF BIND_STATIC
<1>2. Unused(mem) # {} /\ v \in Vars /\ "static" \in Vars
  BY RoomFor, Variables DEF BIND_STATIC
<1> DEFINE freed == Release(Put(mem, Var(v), UNDEF), Get(mem, Var(v)))
<1>3. Good(freed, UNDEF, UNDEF) /\ Unused(mem) \subseteq Unused(freed) /\ Calm(mem, freed)
  BY <1>2, Unset, UnsetTidy
<1>4. LET made == MAKE_REF(freed, Var("static"))
          ref == Get(made, Var("static"))
      IN  mem' = Put(AddRef(made, ref), Var(v), ref)
  BY <1>1
<1> HIDE DEF freed
<1>5. Calm(freed, mem')
  BY <1>2, <1>3, <1>4, LinkCalm
<1> QED
  BY <1>3, <1>5, CalmTidy

LEMMA ReturnTidy == MemInv /\ Tidy(mem) /\ RETURN => Tidy(mem')
<1> SUFFICES ASSUME MemInv, Tidy(mem), RETURN PROVE Tidy(mem')
  OBVIOUS
<1>1. frame = "function" /\ Good(mem, UNDEF, UNDEF) /\ TempsInv(mem[VarCell].at)
  BY MemFacts DEF RETURN, MemInv
<1>2. CASE mem' = FreeCVs(mem)
  BY <1>1, <1>2, FreeCVsCalm, CalmTidy
<1>3. ASSUME NEW v \in CalleeVars, mem' = FreeCVs(Returned(mem, v))
      PROVE  Tidy(mem')
  <2>1. v \in Vars \ {"tmp"} /\ mem[VarCell].at["tmp"] = UNDEF
    BY <1>1, Variables DEF TempsInv
  <2>2. Good(Returned(mem, v), UNDEF, UNDEF) /\ Tidy(Returned(mem, v))
    BY <1>1, <2>1, ReturnedGood, ReturnedCalm, CalmTidy
  <2> QED
    BY <1>3, <2>2, FreeCVsCalm, CalmTidy
<1> QED
  BY <1>2, <1>3, Zenon DEF RETURN

LEMMA FeResetTidy == MemInv /\ Tidy(mem) /\ FE_RESET_R => Tidy(mem')
<1> SUFFICES ASSUME MemInv, Tidy(mem), FE_RESET_R PROVE Tidy(mem')
  OBVIOUS
<1>1. PICK w \in CVs : mem' = CopyTo(mem, "loop", w)
  BY DEF FE_RESET_R
<1> QED
  BY <1>1, Variables, MemFacts, CopyToCalm, CalmTidy

LEMMA FeFetchTidy == MemInv /\ Tidy(mem) /\ FE_FETCH_R => Tidy(mem')
<1> SUFFICES ASSUME MemInv, Tidy(mem), FE_FETCH_R PROVE Tidy(mem')
  OBVIOUS
<1>1. PICK v \in CVs, k \in pos + 1 .. NumKeys :
        LET z == Get(mem, <<Loop[2], k>>)
        IN  z # UNDEF /\ mem' = AssignTo(mem, Var(v), z, FALSE)
  BY Zenon DEF FE_FETCH_R
<1>2. Points(mem, Get(mem, <<Loop[2], k>>)) /\ ~IsRef(Get(mem, <<Loop[2], k>>))
  BY LoopElement DEF FE_FETCH_R
<1> QED
  BY <1>1, <1>2, AssignedTidy

LEMMA FeFreeTidy == MemInv /\ Tidy(mem) /\ FE_FREE => Tidy(mem')
<1> SUFFICES ASSUME MemInv, Tidy(mem), FE_FREE PROVE Tidy(mem')
  OBVIOUS
<1>1. mem' = Release(Put(mem, Var("loop"), UNDEF), Get(mem, Var("loop")))
  BY DEF FE_FREE, Loop
<1> QED
  BY <1>1, Variables, UnsetTidy, CalmTidy

-------------------------------------------------------------------------------
(* The cells that the variables lead to.                                   *)

\* Reached makes MaxCells rounds.
LEMMA ReachedIterates ==
  \E f : /\ f[0] = {VarCell}
         /\ \A n \in 1 .. MaxCells :
              f[n] = {c \in Cells : c \in f[n - 1] \/ Pointers(mem, f[n - 1], c) # {}}
         /\ Reached = f[MaxCells]
<1> DEFINE More(S) == {c \in Cells : c \in S \/ Pointers(mem, S, c) # {}}
           Rounds(N, f) == f = [n \in 0 .. N |-> IF n = 0 THEN {VarCell} ELSE More(f[n - 1])]
           Bad == {N \in Nat : ~\E f : Rounds(N, f)}
           after == CHOOSE f : Rounds(MaxCells, f)
<1>0. Reached = after[MaxCells]
  BY DEF Reached
<1>00. \A S : More(S) = {c \in Cells : c \in S \/ Pointers(mem, S, c) # {}}
  OBVIOUS
<1> HIDE DEF More
<1>1. Bad = {}
  <2> SUFFICES ASSUME Bad # {} PROVE FALSE
    OBVIOUS
  <2>1. PICK N \in Bad : \A y \in Bad : N <= y
    <3> HIDE DEF Rounds
    <3> QED BY Least
  <2>2. CASE N = 0
    <3>1. Rounds(0, [n \in 0 .. 0 |-> {VarCell}])
      OBVIOUS
    <3> QED
      BY <2>1, <2>2, <3>1
  <2>3. CASE N # 0
    <3>1. N - 1 \in Nat /\ N - 1 \notin Bad
      <4> HIDE DEF Rounds
      <4> QED BY <2>1, <2>3
    <3>2. PICK f : Rounds(N - 1, f)
      BY <3>1
    <3> DEFINE g == [n \in 0 .. N |-> IF n = N THEN More(f[N - 1]) ELSE f[n]]
    <3>3. \A n \in 0 .. N : n = N \/ n \in 0 .. N - 1
      BY <2>1
    <3>4. \A n \in 0 .. N : n # 0 => n - 1 \in 0 .. N - 1 /\ n - 1 # N /\ n - 1 \in 0 .. N
      BY <2>1
    <3>5. \A n \in 0 .. N : g[n] = IF n = 0 THEN {VarCell} ELSE More(g[n - 1])
      <4> TAKE n \in 0 .. N
      <4>1. CASE n = N
        <5>1. g[n] = More(f[N - 1]) /\ g[n - 1] = f[N - 1]
          BY <4>1, <2>3, <3>4, Zenon
        <5> QED BY <4>1, <5>1, <2>3
      <4>2. CASE n # N
        <5>1. n \in 0 .. N - 1 /\ g[n] = f[n]
          BY <4>2, <3>3, Zenon
        <5>2. n # 0 => g[n - 1] = f[n - 1]
          BY <3>4, Zenon
        <5>3. f[n] = IF n = 0 THEN {VarCell} ELSE More(f[n - 1])
          BY <3>2, <5>1
        <5> QED BY <5>1, <5>2, <5>3, Zenon
      <4> QED BY <4>1, <4>2
    <3>6. Rounds(N, g)
      BY <3>5
    <3> QED
      BY <3>6, <2>1
  <2> QED
    BY <2>2, <2>3
<1>2. MaxCells \in Nat
  BY BoundsAssumption
<1>3. \E f : Rounds(MaxCells, f)
  BY <1>1, <1>2
<1>4. Rounds(MaxCells, after)
  <2> HIDE DEF Rounds
  <2> QED BY <1>3, Zenon
<1>6. \A n \in 0 .. MaxCells : after[n] = IF n = 0 THEN {VarCell} ELSE More(after[n - 1])
  <2> HIDE DEF after
  <2> QED BY <1>4
<1> HIDE DEF after
<1>7. after[0] = {VarCell}
  BY <1>6, <1>2
<1>8. \A n \in 1 .. MaxCells : after[n] = More(after[n - 1])
  BY <1>6, <1>2
<1> QED
  BY <1>0, <1>00, <1>7, <1>8

\* What a cell that is reached points to is reached, too: there are as many rounds as
\* there are cells, and each adds a cell until none is left to add.
LEMMA ReachedClosed ==
  ASSUME MemInv
  PROVE  /\ VarCell \in Reached
         /\ \A p, c : Holder(mem, p, c) /\ c \in Cells /\ p[1] \in Reached => c \in Reached
<1>1. PICK f : /\ f[0] = {VarCell}
               /\ \A n \in 1 .. MaxCells :
                    f[n] = {c \in Cells : c \in f[n - 1] \/ Pointers(mem, f[n - 1], c) # {}}
               /\ Reached = f[MaxCells]
  BY ReachedIterates
<1>2. MaxCells \in Nat /\ Shape(mem)
  BY BoundsAssumption, MemFacts
<1>3. \A n \in 0 .. MaxCells : f[n] \subseteq Cells
  <2> TAKE n \in 0 .. MaxCells
  <2>1. n = 0 \/ n \in 1 .. MaxCells
    BY <1>2
  <2> QED
    BY <1>1, <2>1, Cell
<1>4. \A n \in 1 .. MaxCells : n - 1 \in 0 .. MaxCells /\ f[n - 1] \subseteq f[n]
  <2> TAKE n \in 1 .. MaxCells
  <2>1. n - 1 \in 0 .. MaxCells
    BY <1>2
  <2> QED
    BY <1>1, <1>3, <2>1
<1> DEFINE Closed(S) == \A p, c : Holder(mem, p, c) /\ c \in Cells /\ p[1] \in S => c \in S
<1>5. ASSUME NEW n \in 1 .. MaxCells, f[n] = f[n - 1]
      PROVE  Closed(f[n - 1])
  <2> SUFFICES ASSUME NEW p, NEW c \in Cells, Holder(mem, p, c), p[1] \in f[n - 1]
               PROVE  c \in f[n]
    BY <1>5
  <2>1. f[n - 1] \in SUBSET Cells
    BY <1>3, <1>4
  <2>2. p \in Pointers(mem, f[n - 1], c)
    BY <1>2, <2>1, PointersHeld
  <2> QED
    BY <1>1, <2>2
<1>6. ASSUME NEW n \in 1 .. MaxCells, Closed(f[n - 1])
      PROVE  f[n] = f[n - 1]
  <2>1. f[n - 1] \in SUBSET Cells
    BY <1>3, <1>4
  <2>2. \A c \in Cells : Pointers(mem, f[n - 1], c) # {} => c \in f[n - 1]
    <3> SUFFICES ASSUME NEW c \in Cells, NEW p \in Pointers(mem, f[n - 1], c)
                 PROVE  c \in f[n - 1]
      OBVIOUS
    <3>1. Holder(mem, p, c) /\ p[1] \in f[n - 1]
      BY <1>2, <2>1, PointersHeld
    <3> QED
      BY <1>6, <3>1
  <2>3. f[n] \subseteq f[n - 1]
    BY <1>1, <2>2
  <2> QED
    BY <1>4, <2>3
<1> HIDE DEF Closed
<1>7. \A n \in 0 .. MaxCells : VarCell \in f[n]
  <2> DEFINE Bad == {n \in 0 .. MaxCells : VarCell \notin f[n]}
  <2> SUFFICES ASSUME Bad # {} PROVE FALSE
    OBVIOUS
  <2>1. Bad \subseteq Nat
    BY <1>2
  <2>2. PICK n \in Bad : \A y \in Bad : n <= y
    <3> HIDE DEF Bad
    <3> QED BY <2>1, Least
  <2>3. n \in 1 .. MaxCells /\ n - 1 \notin Bad /\ n - 1 \in 0 .. MaxCells
    BY <1>1, <1>2, <2>2
  <2> QED
    BY <1>4, <2>2, <2>3
<1>8. Closed(f[MaxCells])
  <2> SUFFICES ASSUME ~Closed(f[MaxCells]) PROVE FALSE
    OBVIOUS
  <2>1. \A n \in 0 .. MaxCells : ~Closed(f[n])
    <3> DEFINE Bad == {i \in 0 .. MaxCells : Closed(f[MaxCells - i])}
    <3>1. ASSUME Bad # {} PROVE FALSE
      <4>1. Bad \subseteq Nat
        BY <1>2
      <4>2. PICK i \in Bad : \A y \in Bad : i <= y
        <5> HIDE DEF Bad
        <5> QED BY <3>1, <4>1, Least
      <4>3. i # 0
        BY <1>2, <4>2
      <4> DEFINE n == MaxCells - i + 1
      <4>4. /\ n \in 1 .. MaxCells /\ n - 1 = MaxCells - i /\ n = MaxCells - (i - 1)
            /\ i - 1 \in 0 .. MaxCells /\ ~(i <= i - 1)
        BY <1>2, <4>2, <4>3
      <4>5. i - 1 \notin Bad
        <5> HIDE DEF Bad
        <5> QED BY <4>2, <4>4
      <4> HIDE DEF n
      <4>6. f[n] = f[n - 1]
        BY <1>6, <4>2, <4>4
      <4> QED
        BY <4>2, <4>4, <4>5, <4>6
    <3>2. ASSUME NEW n \in 0 .. MaxCells, Closed(f[n]) PROVE FALSE
      <4>1. MaxCells - n \in 0 .. MaxCells /\ MaxCells - (MaxCells - n) = n
        BY <1>2
      <4>2. MaxCells - n \in Bad
        BY <3>2, <4>1, Zenon
      <4> HIDE DEF Bad
      <4> QED
        BY <3>1, <4>2
    <3> QED
      BY <3>2
  <2>2. \A n \in 0 .. MaxCells : IsFiniteSet(f[n]) /\ Cardinality(f[n]) \in Nat
    BY <1>3, Cell, FS_Subset, FS_CardinalityType
  <2>3. \A n \in 0 .. MaxCells : Cardinality(f[n]) > n
    <3> DEFINE Bad == {n \in 0 .. MaxCells : ~(Cardinality(f[n]) > n)}
    <3> SUFFICES ASSUME Bad # {} PROVE FALSE
      OBVIOUS
    <3>1. Bad \subseteq Nat
      BY <1>2
    <3>2. PICK n \in Bad : \A y \in Bad : n <= y
      <4> HIDE DEF Bad
      <4> QED BY <3>1, Least
    <3>3. n # 0
      <4>1. Cardinality(f[0]) = 1
        BY <1>1, FS_Singleton
      <4> QED
        BY <3>2, <4>1
    <3>4. n \in 1 .. MaxCells /\ n - 1 \in 0 .. MaxCells /\ ~(n <= n - 1)
      BY <1>2, <3>2, <3>3
    <3>5. n - 1 \notin Bad
      <4> HIDE DEF Bad
      <4> QED BY <3>2, <3>4
    <3>6. Cardinality(f[n - 1]) > n - 1
      BY <3>4, <3>5
    <3>7. f[n - 1] # f[n] /\ f[n - 1] \subseteq f[n]
      BY <1>4, <1>5, <2>1, <3>4
    <3>8. Cardinality(f[n - 1]) < Cardinality(f[n])
      <4>1. f[n - 1] \subseteq f[n] /\ f[n - 1] # f[n] /\ IsFiniteSet(f[n])
        BY <2>2, <3>4, <3>7
      <4>2. Cardinality(f[n - 1]) <= Cardinality(f[n])
        BY <4>1, FS_Subset
      <4>3. Cardinality(f[n - 1]) # Cardinality(f[n])
        BY <4>1, FS_Subset
      <4> QED
        BY <2>2, <3>4, <4>2, <4>3
    <3>9. n \in 0 .. MaxCells /\ ~(Cardinality(f[n]) > n)
      BY <3>2
    <3> HIDE DEF Bad
    <3> QED
      BY <2>2, <3>4, <3>6, <3>8, <3>9
  <2>4. Cardinality(f[MaxCells]) > MaxCells /\ f[MaxCells] \subseteq Cells
    BY <1>2, <1>3, <2>3
  <2>5. Cardinality(Cells) = MaxCells
    BY BoundsAssumption, FS_Interval DEF Cells
  <2>6. Cardinality(f[MaxCells]) <= Cardinality(Cells)
    BY <2>4, Cell, FS_Subset
  <2>7. Cardinality(f[MaxCells]) \in Nat
    BY <1>2, <2>2
  <2> QED
    BY <1>2, <2>4, <2>5, <2>6, <2>7
<1>9. MaxCells \in 0 .. MaxCells
  BY <1>2
<1>10. VarCell \in Reached
  BY <1>1, <1>7, <1>9, Zenon
<1> QED
  BY <1>1, <1>8, <1>10, Zenon DEF Closed

\* A cell that is not reached is an array, and so is what holds it, which is not reached
\* either: without links in a circle there is none.
LEMMA TidyLeaksNothing ==
  ASSUME MemInv, Tidy(mem)
  PROVE  Live \ {Literal} \subseteq Reached
<1> DEFINE S == {c \in Live \ {Literal} : c \notin Reached}
<1> SUFFICES ASSUME S # {} PROVE FALSE
  OBVIOUS
<1>1. S \in SUBSET Cells
  BY DEF Live
<1>2. Good(mem, UNDEF, UNDEF) /\ Shape(mem) /\ Sound(mem)
  BY MemFacts
<1>3. ASSUME NEW c \in S
      PROVE  \E d \in S : Leads(mem, d, c)
  <2>1. c \in Cells \ {VarCell, Literal} /\ mem[c].kind \in {"array", "ref"}
    BY <1>2, <1>3, Cell DEF Live, Shape, CellShape
  <2>2. c \notin Reached
    BY <1>3
  <2> HIDE DEF S
  <2>3. mem[c].rc = Cardinality(Pointers(mem, Cells, c)) + One(UNDEF, c) + One(UNDEF, c)
    BY <1>2, <2>1 DEF Good, Balanced
  <2>4. mem[c].rc # 0
    BY <2>1 DEF Tidy, Dead
  <2>5. One(UNDEF, c) = 0
    BY Undefined DEF One
  <2>6. Pointers(mem, Cells, c) # {}
    BY <2>3, <2>4, <2>5, FS_EmptySet
  <2>7. PICK p : Holder(mem, p, c) /\ p[1] \in Cells
    BY <1>2, <2>6, PointersHeld
  <2>8. p[1] \notin Reached /\ p[1] # VarCell
    BY <2>1, <2>2, <2>7, ReachedClosed
  <2>9. p[2] \in DOMAIN mem[p[1]].at /\ Get(mem, p) = mem[p[1]].at[p[2]] /\ Refcounted(Get(mem, p))
    BY <2>7 DEF Holder, IsPlace, Get
  <2>10. p[1] # Literal
    <3>1. mem[Literal].at = NoElements
      BY <1>2 DEF Shape
    <3> QED
      BY <2>9, <3>1, Undefined DEF NoElements
  <2>11. mem[p[1]].kind \in {"array", "ref"}
    BY <1>2, <2>7, <2>8, <2>9 DEF Shape, CellShape
  <2>12. p[1] \in S
    BY <2>7, <2>8, <2>10, <2>11 DEF S, Live
  <2>13. ~IsRef(Get(mem, p)) /\ Points(mem, Get(mem, p))
    BY <1>2, <2>7, <2>8, <2>9 DEF Sound
  <2> QED
    <3>1. CASE mem[p[1]].kind = "array"
      BY <2>7, <2>12, <3>1 DEF Leads
    <3>2. CASE mem[p[1]].kind = "ref"
      <4>1. PICK q : Holder(mem, q, p[1]) /\ q[1] \in Cells
        <5>1. mem[p[1]].rc # 0
          BY <2>7, <2>11 DEF Tidy, Dead
        <5>2. mem[p[1]].rc = Cardinality(Pointers(mem, Cells, p[1]))
                             + One(UNDEF, p[1]) + One(UNDEF, p[1])
          BY <1>2, <2>7, <2>8, <2>10 DEF Good, Balanced
        <5>3. One(UNDEF, p[1]) = 0
          BY Undefined DEF One
        <5>4. Pointers(mem, Cells, p[1]) # {}
          BY <5>1, <5>2, <5>3, FS_EmptySet
        <5> QED
          BY <1>2, <5>4, PointersHeld
      <4>2. q[2] \in DOMAIN mem[q[1]].at /\ Get(mem, q) = mem[q[1]].at[q[2]]
            /\ Refcounted(Get(mem, q)) /\ Get(mem, q)[2] = p[1]
        BY <4>1 DEF Holder, IsPlace, Get
      <4>3. IsRef(Get(mem, q))
        BY <1>2, <3>2, <4>1, <4>2 DEF Sound, Points, Refcounted
      <4>4. q[1] = VarCell
        BY <1>2, <4>1, <4>2, <4>3 DEF Sound
      <4> QED
        BY <2>7, <2>8, <4>1, <4>4, ReachedClosed
    <3> QED
      BY <2>11, <3>1, <3>2
<1> HIDE DEF S
<1> QED
  BY <1>1, <1>3 DEF Tidy, Founded

-------------------------------------------------------------------------------

LEMMA TidyInit == Init => Tidy(mem)
<1> SUFFICES ASSUME Init PROVE Tidy(mem)
  OBVIOUS
<1>1. /\ mem[VarCell] = [kind |-> "vars", rc |-> 1, at |-> [v \in Vars |-> UNDEF]]
      /\ mem[Literal] = [kind |-> "array", rc |-> 2, at |-> NoElements]
      /\ \A c \in Cells \ {VarCell, Literal} : mem[c] = FreeCell
  BY Cell DEF Init
<1>2. \A c \in Cells : mem[c].kind = "array" => c = Literal
  BY <1>1 DEF FreeCell
<1>3. Dead(mem) = {}
  BY <1>1 DEF Dead, FreeCell
<1>4. \A d, c \in Cells : ~Leads(mem, d, c)
  <2> SUFFICES ASSUME NEW d \in Cells, NEW c \in Cells, Leads(mem, d, c) PROVE FALSE
    OBVIOUS
  <2>1. PICK p : p[1] = d /\ Holder(mem, p, c)
    BY DEF Leads
  <2>2. mem[p[1]].at = NoElements
    BY <1>1, <1>2, <2>1 DEF Leads
  <2>3. p[2] \in DOMAIN mem[p[1]].at /\ Refcounted(mem[p[1]].at[p[2]])
    BY <2>1 DEF Holder, IsPlace, Get
  <2> QED
    BY <2>2, <2>3, Undefined DEF NoElements
<1>5. Founded(mem)
  BY <1>4 DEF Founded
<1> QED
  BY <1>3, <1>5 DEF Tidy

\* An array that was stored in itself is remembered.
LEMMA TiedStays == [Next]_vars /\ tied => tied'
<1> SUFFICES ASSUME [Next]_vars, tied PROVE tied'
  OBVIOUS
<1>1. CASE ASSIGN \/ AssignTmp \/ ASSIGN_REF \/ UNSET_CV \/ AssignDimLong
  BY <1>1, Zenon DEF ASSIGN, AssignTmp, ASSIGN_REF, UNSET_CV, AssignDimLong, Promise
<1>2. CASE ASSIGN_DIM \/ AssignDimTmp \/ AssignInnerDim \/ FETCH_R \/ FREE
  BY <1>2, Zenon DEF ASSIGN_DIM, AssignDimTmp, AssignInnerDim, FETCH_R, FREE, Promise
<1>3. CASE SEND_VAR \/ SEND_REF \/ BIND_GLOBAL \/ BIND_STATIC \/ RETURN
  BY <1>3, Zenon DEF SEND_VAR, SEND_REF, BIND_GLOBAL, BIND_STATIC, RETURN, Promise
<1>4. CASE FE_RESET_R \/ FE_FETCH_R \/ FE_FREE
  BY <1>4, Zenon DEF FE_RESET_R, FE_FETCH_R, FE_FREE, Promise
<1> QED
  BY <1>1, <1>2, <1>3, <1>4 DEF Next, vars

LEMMA TidyNext == MemInv /\ (~tied => Tidy(mem)) /\ [Next]_vars => (~tied => Tidy(mem))'
<1> SUFFICES ASSUME MemInv, ~tied => Tidy(mem), [Next]_vars, ~tied' PROVE Tidy(mem')
  OBVIOUS
<1>1. Tidy(mem)
  BY TiedStays
<1>2. CASE UNCHANGED vars
  BY <1>1, <1>2 DEF vars
<1>3. CASE Next
  BY <1>1, <1>3, AssignTidy, AssignTmpTidy, AssignRefTidy, UnsetCVTidy, AssignDimLongTidy,
     AssignDimTidy, AssignDimTmpTidy, AssignInnerDimTidy, FetchRTidy, FreeTidy, SendVarTidy,
     SendRefTidy, BindGlobalTidy, BindStaticTidy, ReturnTidy, FeResetTidy, FeFetchTidy,
     FeFreeTidy, Zenon DEF Next
<1> QED
  BY <1>2, <1>3

\* What no variable leads to any more has been freed, unless an array was stored in an
\* element of itself: rc_dtor_func needs no cycle collector (zend_variables.h:33).
THEOREM NothingLost == Spec => []NothingLeaks
<1> DEFINE Inv == MemInv /\ (~tied => Tidy(mem))
<1>1. Init => Inv
  BY MemInvInit, TidyInit
<1>2. Inv /\ [Next]_vars => Inv'
  BY MemInvNext, TidyNext
<1>3. Inv => NothingLeaks
  BY TidyLeaksNothing DEF NothingLeaks
<1> QED
  BY <1>1, <1>2, <1>3, PTL DEF Spec

-------------------------------------------------------------------------------
(***************************************************************************)
(* Values: the variables have what PhpVariables promises.                  *)
(*                                                                         *)
(* A memory means a valuation, which gives each array cell its value.  An  *)
(* opcode is followed step by step: what each step makes of the value that *)
(* every variable says and of the variables that are references to the     *)
(* same thing.                                                             *)
(***************************************************************************)
LEMMA ValueInCases ==
  ASSUME NEW t, NEW z
  PROVE  /\ IsArr(z) => ValueIn(t, z) = t[z[2]]
         /\ ~IsArr(z) /\ z # UNDEF => ValueIn(t, z) = z
         /\ ValueIn(t, UNDEF) = Php!Absent
BY DEF ValueIn, IsArr, UNDEF, Php!Absent

LEMMA WithNew ==
  ASSUME NEW x, ~Php!IsArray(x), NEW k \in Keys, NEW y
  PROVE  Php!With(x, k, y) = Php!With(Php!Empty, k, y)
BY DEF Php!With, Php!Empty, Php!IsArray, Php!Array, Php!Absent

LEMMA WithOf ==
  ASSUME NEW f, NEW k, NEW y
  PROVE  /\ Php!With(<<"array", f>>, k, y) = <<"array", [f EXCEPT ![k] = y]>>
         /\ Php!IsArray(<<"array", f>>)
         /\ Php!Inner(<<"array", f>>, k) = f[k]
BY DEF Php!With, Php!Inner, Php!IsArray, Php!Array

LEMMA PhpAssign ==
  ASSUME NEW v, NEW x, NEW gone, Php!Assign(v, x, gone)
  PROVE  /\ linked' = linked
         /\ \A w \in Vars : value'[w] = IF w \in linked[v] THEN x ELSE IF w \in gone THEN Php!Null ELSE value[w]
BY DEF Php!Assign

LEMMA PhpUnset ==
  ASSUME NEW gone, Php!Unset(gone)
  PROVE  \A v \in Vars : /\ value'[v] = IF v \in gone THEN Php!Null ELSE value[v]
                         /\ linked'[v] = IF v \in gone THEN {v} ELSE linked[v] \ gone
BY DEF Php!Unset

(***************************************************************************)
(* What a memory means.  A valuation gives each array cell its value.      *)
(***************************************************************************)
Valued(m, t) ==
  /\ DOMAIN t = Cells
  /\ \A c \in Cells :
       t[c] = IF m[c].kind = "array" THEN <<"array", [k \in Keys |-> ValueIn(t, m[c].at[k])]>>
              ELSE NULL

\* The value of v, and the variables that are references to the same thing.
Says(m, t, v) == ValueIn(t, Read(m, v))
Same(m, v) ==
  {w \in Vars : w = v \/ (IsRef(Get(m, Var(v))) /\ Get(m, Var(w)) = Get(m, Var(v)))}

\* References to the same cell are the same zval.
Proper(m) == \A v \in Vars : LET z == Get(m, Var(v)) IN IsRef(z) => z = REF(z[2])

\* The program cannot see the difference between a memory and another one.
Alike(m, t, n, s) ==
  /\ \A v \in Vars : Says(n, s, v) = Says(m, t, v) /\ Same(n, v) = Same(m, v)
  /\ Proper(m) => Proper(n)

LEMMA SameVars ==
  ASSUME NEW m, NEW n, NEW v \in Vars, \A u \in Vars : Get(n, Var(u)) = Get(m, Var(u))
  PROVE  Same(n, v) = Same(m, v)
BY DEF Same

LEMMA ReadIs ==
  ASSUME NEW m, NEW v
  PROVE  /\ IsRef(Get(m, Var(v))) =>
              /\ DEREF(m, Var(v)) = <<Get(m, Var(v))[2], REFVAL>>
              /\ Read(m, v) = IF m[Get(m, Var(v))[2]].at[REFVAL] = UNDEF THEN NULL
                              ELSE m[Get(m, Var(v))[2]].at[REFVAL]
         /\ ~IsRef(Get(m, Var(v))) =>
              /\ DEREF(m, Var(v)) = Var(v)
              /\ Read(m, v) = IF Get(m, Var(v)) = UNDEF THEN NULL ELSE Get(m, Var(v))
<1>1. \A c : Get(m, <<c, REFVAL>>) = m[c].at[REFVAL]
  BY DEF Get
<1> QED
  BY <1>1 DEF Read, DEREF

\* What a variable of a sound memory holds.
LEMMA VarHolds ==
  ASSUME NEW m, Shape(m), Sound(m), NEW v \in Vars
  PROVE  LET z == Get(m, Var(v))
         IN  /\ Points(m, z)
             /\ IsRef(z) => /\ z[2] \in Cells \ {VarCell, Literal} /\ m[z[2]].kind = "ref"
                            /\ m[z[2]].at[REFVAL] # UNDEF /\ ~IsRef(m[z[2]].at[REFVAL])
                            /\ Points(m, m[z[2]].at[REFVAL])
                            /\ IsPlace(m, <<z[2], REFVAL>>)
<1> DEFINE z == Get(m, Var(v))
<1>1. z = m[VarCell].at[v] /\ v \in DOMAIN m[VarCell].at
  BY VarPlace, Cell DEF Shape, CellShape
<1>2. Points(m, z)
  BY <1>1, Cell DEF Sound
<1>3. ASSUME IsRef(z)
      PROVE  /\ z[2] \in Cells \ {VarCell, Literal} /\ m[z[2]].kind = "ref"
             /\ m[z[2]].at[REFVAL] # UNDEF /\ ~IsRef(m[z[2]].at[REFVAL])
             /\ Points(m, m[z[2]].at[REFVAL])
             /\ IsPlace(m, <<z[2], REFVAL>>)
  <2> HIDE DEF z
  <2>1. z[2] \in Cells /\ m[z[2]].kind = "ref"
    BY <1>2, <1>3 DEF Points
  <2>2. REFVAL \in DOMAIN m[z[2]].at /\ z[2] # VarCell
    BY <2>1 DEF Shape, CellShape
  <2>3. z[2] # Literal
    BY <2>1 DEF Shape
  <2>4. IsPlace(m, <<z[2], REFVAL>>)
    BY <2>1, <2>2, PlaceOf
  <2> QED
    BY <2>1, <2>2, <2>3, <2>4 DEF Sound
<1> QED
  BY <1>2, <1>3

(***************************************************************************)
(* Cells are freed, counts change: what is left means what it meant.       *)
(***************************************************************************)
Thinned(m, n) ==
  \A c \in Cells : n[c].kind # "free" => n[c].kind = m[c].kind /\ n[c].at = m[c].at
Trim(n, t) == [c \in Cells |-> IF n[c].kind = "array" THEN t[c] ELSE NULL]

LEMMA ThinnedBoth ==
  ASSUME NEW l, NEW m, NEW n, Thinned(l, m), Thinned(m, n)
  PROVE  Thinned(l, n)
BY DEF Thinned

LEMMA ThinnedCounts ==
  ASSUME NEW m, NEW n, SameButCounts(m, n)
  PROVE  Thinned(m, n)
BY DEF Thinned, SameButCounts

\* What is pointed to in n is worth the same.
LEMMA TrimSame ==
  ASSUME NEW n, Sound(n), NEW t, NEW z, Points(n, z)
  PROVE  ValueIn(Trim(n, t), z) = ValueIn(t, z)
<1>1. CASE IsArr(z)
  <2>1. z[2] \in Cells /\ n[z[2]].kind = "array"
    BY <1>1 DEF Points
  <2>2. Trim(n, t)[z[2]] = t[z[2]]
    BY <2>1 DEF Trim
  <2> QED
    BY <1>1, <2>2, ValueInCases
<1>2. CASE ~IsArr(z)
  BY <1>2, ValueInCases
<1> QED
  BY <1>1, <1>2

LEMMA ThinnedValued ==
  ASSUME NEW m, NEW t, Valued(m, t), NEW n, Thinned(m, n), Shape(n), Sound(n)
  PROVE  Valued(n, Trim(n, t))
<1> DEFINE s == Trim(n, t)
<1>0. DOMAIN s = Cells
  BY DEF Trim
<1> SUFFICES ASSUME NEW c \in Cells
             PROVE  s[c] = IF n[c].kind = "array"
                           THEN <<"array", [k \in Keys |-> ValueIn(s, n[c].at[k])]>> ELSE NULL
  BY <1>0, Zenon DEF Valued
<1>1. CASE n[c].kind # "array"
  BY <1>1 DEF Trim
<1>2. CASE n[c].kind = "array"
  <2>1. s[c] = t[c] /\ m[c].kind = "array" /\ n[c].at = m[c].at /\ DOMAIN n[c].at = Keys
    BY <1>2 DEF Trim, Thinned, Shape, CellShape
  <2>2. t[c] = <<"array", [k \in Keys |-> ValueIn(t, n[c].at[k])]>>
    BY <2>1 DEF Valued
  <2>3. \A k \in Keys : ValueIn(s, n[c].at[k]) = ValueIn(t, n[c].at[k])
    BY <2>1, TrimSame DEF Sound
  <2> HIDE DEF s
  <2>4. [k \in Keys |-> ValueIn(s, n[c].at[k])] = [k \in Keys |-> ValueIn(t, n[c].at[k])]
    BY <2>3
  <2> QED
    BY <1>2, <2>1, <2>2, <2>4
<1> QED
  BY <1>1, <1>2

LEMMA ThinnedVars ==
  ASSUME NEW m, Shape(m), NEW n, Thinned(m, n), Shape(n), Sound(n), NEW v \in Vars
  PROVE  Get(n, Var(v)) = Get(m, Var(v)) /\ Read(n, v) = Read(m, v)
<1>1. Get(n, Var(v)) = Get(m, Var(v))
  <2>1. n[VarCell].kind # "free"
    BY Cell DEF Shape, CellShape
  <2>2. n[VarCell].at = m[VarCell].at
    BY <2>1, Cell DEF Thinned
  <2> QED
    BY <2>2, VarPlace
<1>2. CASE IsRef(Get(n, Var(v)))
  <2> DEFINE c == Get(n, Var(v))[2]
  <2>1. c \in Cells /\ n[c].kind = "ref"
    BY <1>2, VarHolds
  <2>2. n[c].at = m[c].at
    BY <2>1 DEF Thinned
  <2> QED
    BY <1>1, <1>2, <2>2, ReadIs
<1>3. CASE ~IsRef(Get(n, Var(v)))
  BY <1>1, <1>3, ReadIs
<1> QED
  BY <1>1, <1>2, <1>3

\* The meaning is the same.
LEMMA ThinnedAlike ==
  ASSUME NEW m, Shape(m), NEW t, Valued(m, t), NEW n, Thinned(m, n), Shape(n), Sound(n)
  PROVE  Valued(n, Trim(n, t)) /\ Alike(m, t, n, Trim(n, t))
<1>1. ASSUME NEW v \in Vars
      PROVE  Says(n, Trim(n, t), v) = Says(m, t, v) /\ Same(n, v) = Same(m, v)
  <2>1. Points(n, Read(n, v)) /\ Read(n, v) = Read(m, v)
    BY ReadGood, ThinnedVars
  <2>2. Same(n, v) = Same(m, v)
    BY ThinnedVars, SameVars
  <2> QED
    BY <2>1, <2>2, TrimSame DEF Says
<1>2. Proper(m) => Proper(n)
  BY ThinnedVars DEF Proper
<1> QED
  BY <1>1, <1>2, ThinnedValued, Zenon DEF Alike

LEMMA DestroyDeadThinned ==
  ASSUME NEW m, Shape(m)
  PROVE  Thinned(m, DestroyDead(m))
<1> DEFINE n == DestroyDead(m)
<1> SUFFICES ASSUME NEW c \in Cells, n[c].kind # "free"
             PROVE  n[c].kind = m[c].kind /\ n[c].at = m[c].at
  BY DEF Thinned
<1>1. DOMAIN m[c] = Fields
  BY DEF Shape, CellShape
<1>2. n[c] = IF c \in Dead(m) THEN FreeCell
             ELSE [m[c] EXCEPT !.rc = @ - Cardinality(Pointers(m, Dead(m), c))]
  BY DEF DestroyDead
<1> HIDE DEF n
<1> QED
  BY <1>1, <1>2 DEF FreeCell, Fields

LEMMA DestroyThinned ==
  ASSUME NEW m, Good(m, UNDEF, UNDEF)
  PROVE  Thinned(m, Destroy(m))
<1>1. PICK f : /\ f[0] = m
               /\ \A n \in 1 .. MaxCells : f[n] = DestroyDead(f[n - 1])
               /\ Destroy(m) = f[MaxCells]
  BY DestroyIterates
<1> DEFINE Fine(n) == Good(f[n], UNDEF, UNDEF) /\ Thinned(m, f[n])
           Bad == {n \in 0 .. MaxCells : ~Fine(n)}
<1>2. Bad = {}
  <2> SUFFICES ASSUME Bad # {} PROVE FALSE
    OBVIOUS
  <2>0. Bad \subseteq Nat
    BY BoundsAssumption
  <2>1. PICK n \in Bad : \A i \in Bad : n <= i
    <3> HIDE DEF Bad
    <3> QED BY <2>0, Least
  <2>2. Fine(0)
    BY <1>1 DEF Thinned
  <2>3. n \in 1 .. MaxCells
    <3> HIDE DEF Fine
    <3> QED BY <2>1, <2>2
  <2>4. n - 1 \in 0 .. MaxCells /\ n - 1 \notin Bad
    <3>1. n - 1 \in 0 .. MaxCells /\ ~(n <= n - 1)
      BY <2>3, BoundsAssumption
    <3> HIDE DEF Bad
    <3> QED BY <2>1, <3>1
  <2>5. Fine(n - 1)
    BY <2>4
  <2>6. f[n] = DestroyDead(f[n - 1])
    BY <1>1, <2>3
  <2>7. Good(f[n], UNDEF, UNDEF) /\ Thinned(f[n - 1], f[n])
    BY <2>5, <2>6, DestroyDeadGood, DestroyDeadThinned DEF Good
  <2>8. Fine(n)
    BY <2>5, <2>7, ThinnedBoth
  <2> QED
    BY <2>1, <2>8
<1>3. MaxCells \in 0 .. MaxCells
  BY BoundsAssumption
<1> QED
  BY <1>1, <1>2, <1>3

LEMMA ReleaseThinned ==
  ASSUME NEW m, NEW z, Good(m, UNDEF, z)
  PROVE  Thinned(m, Release(m, z))
<1>1. Good(Drop(m, z), UNDEF, UNDEF) /\ Thinned(m, Drop(m, z))
  BY DropGood, ThinnedCounts
<1>2. Thinned(m, Destroy(Drop(m, z)))
  BY <1>1, DestroyThinned, ThinnedBoth
<1>3. Release(m, z) \in {Drop(m, z), Destroy(Drop(m, z))}
  BY DEF Release, Drop
<1> QED
  BY <1>1, <1>2, <1>3

\* A value that was held is released: nothing else is seen of it.
LEMMA ReleaseAlike ==
  ASSUME NEW m, NEW z, Good(m, UNDEF, z), NEW t, Valued(m, t)
  PROVE  LET n == Release(m, z) IN Valued(n, Trim(n, t)) /\ Alike(m, t, n, Trim(n, t))
BY ReleaseGood, ReleaseThinned, ThinnedAlike DEF Good

(***************************************************************************)
(* A place is written.                                                     *)
(***************************************************************************)

LEMMA ArrayIs ==
  ASSUME NEW m, NEW t, Valued(m, t), NEW c \in Cells, m[c].kind = "array"
  PROVE  /\ t[c] = <<"array", [k \in Keys |-> ValueIn(t, m[c].at[k])]>>
         /\ Php!IsArray(t[c])
BY WithOf DEF Valued

\* What is written to a variable or a reference changes no array.
LEMMA PutValued ==
  ASSUME NEW m, Shape(m), NEW p, IsPlace(m, p), m[p[1]].kind # "array", NEW z,
         NEW t, Valued(m, t)
  PROVE  Valued(Put(m, p, z), t)
<1> DEFINE n == Put(m, p, z)
<1>1. \A c \in Cells : n[c].kind = m[c].kind /\ (c # p[1] => n[c] = m[c])
  BY PutView
<1> HIDE DEF n
<1>2. \A c \in Cells : n[c].kind = "array" => n[c] = m[c]
  BY <1>1
<1>3. ASSUME NEW c \in Cells
      PROVE  t[c] = IF n[c].kind = "array"
                    THEN <<"array", [k \in Keys |-> ValueIn(t, n[c].at[k])]>> ELSE NULL
  <2>1. t[c] = IF m[c].kind = "array"
               THEN <<"array", [k \in Keys |-> ValueIn(t, m[c].at[k])]>> ELSE NULL
    BY DEF Valued
  <2>2. CASE n[c].kind = "array"
    <3>1. n[c] = m[c]
      BY <1>2, <2>2
    <3> QED
      BY <2>1, <3>1
  <2>3. CASE n[c].kind # "array"
    BY <1>1, <2>1, <2>3
  <2> QED
    BY <2>2, <2>3
<1>4. DOMAIN t = Cells
  BY DEF Valued
<1> QED
  BY <1>3, <1>4, Zenon DEF Valued, n

LEMMA PutVarGets ==
  ASSUME NEW m, Shape(m), Sound(m), NEW v \in Vars, NEW z
  PROVE  LET n == Put(m, Var(v), z)
         IN  /\ \A u \in Vars : Get(n, Var(u)) = IF u = v THEN z ELSE Get(m, Var(u))
             /\ \A c \in Cells : c # VarCell => n[c] = m[c]
             /\ \A u \in Vars \ {v} : Read(n, u) = Read(m, u)
<1> DEFINE n == Put(m, Var(v), z)
<1>1. IsPlace(m, Var(v)) /\ Var(v)[1] = VarCell
  BY VarPlace
<1>2. /\ \A c \in Cells : c # VarCell => n[c] = m[c]
      /\ \A k \in DOMAIN m[VarCell].at :
           n[VarCell].at[k] = IF <<VarCell, k>> = Var(v) THEN z ELSE m[VarCell].at[k]
  BY <1>1, PutView, Cell
<1>3. DOMAIN m[VarCell].at = Vars /\ \A u : Var(u) = <<VarCell, u>>
  BY Cell DEF Shape, CellShape, Var
<1>4. \A u : Get(n, Var(u)) = n[VarCell].at[u] /\ Get(m, Var(u)) = m[VarCell].at[u]
  BY <1>3 DEF Get
<1> HIDE DEF n
<1>5. \A u \in Vars : Get(n, Var(u)) = IF u = v THEN z ELSE Get(m, Var(u))
  BY <1>2, <1>3, <1>4
<1>6. ASSUME NEW u \in Vars \ {v} PROVE Read(n, u) = Read(m, u)
  <2>1. Get(n, Var(u)) = Get(m, Var(u))
    BY <1>5
  <2>2. CASE IsRef(Get(m, Var(u)))
    <3>1. n[Get(m, Var(u))[2]] = m[Get(m, Var(u))[2]]
      BY <1>2, <2>2, VarHolds
    <3> QED
      BY <2>1, <2>2, <3>1, ReadIs
  <2>3. CASE ~IsRef(Get(m, Var(u)))
    BY <2>1, <2>3, ReadIs
  <2> QED
    BY <2>2, <2>3
<1> QED
  BY <1>2, <1>5, <1>6 DEF n

LEMMA PutRefGets ==
  ASSUME NEW m, Shape(m), NEW c \in Cells \ {VarCell}, IsPlace(m, <<c, REFVAL>>), NEW z
  PROVE  LET n == Put(m, <<c, REFVAL>>, z)
         IN  /\ \A u \in Vars : Get(n, Var(u)) = Get(m, Var(u))
             /\ n[c].at[REFVAL] = z
             /\ \A d \in Cells : d # c => n[d] = m[d]
<1> DEFINE n == Put(m, <<c, REFVAL>>, z)
<1>1. /\ \A d \in Cells : d # c => n[d] = m[d]
      /\ Get(n, <<c, REFVAL>>) = z
  BY PutView
<1>2. \A x : Get(x, <<c, REFVAL>>) = x[c].at[REFVAL]
  BY DEF Get
<1>3. \A u, x : Get(x, Var(u)) = x[VarCell].at[u]
  BY DEF Get, Var
<1> HIDE DEF n
<1>4. \A u \in Vars : Get(n, Var(u)) = Get(m, Var(u))
  BY <1>1, <1>3, Cell
<1> QED
  BY <1>1, <1>2, <1>4 DEF n

\* zend_assign_to_variable: v, and what is a reference to the same thing, gets z.
LEMMA PutTarget ==
  ASSUME NEW m, Shape(m), Sound(m), Proper(m), NEW v \in Vars, NEW z, ~IsRef(z), z # UNDEF
  PROVE  LET n == Put(m, DEREF(m, Var(v)), z)
         IN  /\ \A u \in Vars : Read(n, u) = IF u \in Same(m, v) THEN z ELSE Read(m, u)
             /\ \A u \in Vars : Same(n, u) = Same(m, u)
             /\ Proper(n)
<1> DEFINE r == Get(m, Var(v))
           n == Put(m, DEREF(m, Var(v)), z)
<1>1. CASE ~IsRef(r)
  <2>1. DEREF(m, Var(v)) = Var(v) /\ Same(m, v) = {v}
    BY <1>1, ReadIs DEF Same
  <2>2. \A u \in Vars : Get(n, Var(u)) = IF u = v THEN z ELSE Get(m, Var(u))
    BY <2>1, PutVarGets
  <2>3. \A u \in Vars \ {v} : Read(n, u) = Read(m, u)
    BY <2>1, PutVarGets
  <2> HIDE DEF n
  <2>4. Read(n, v) = z
    BY <2>2, ReadIs
  <2>5. \A u \in Vars : Same(n, u) = Same(m, u)
    BY <1>1, <2>2 DEF Same
  <2>6. Proper(n)
    BY <2>2 DEF Proper
  <2> QED
    BY <2>1, <2>3, <2>4, <2>5, <2>6 DEF n
<1>2. CASE IsRef(r)
  <2>1. DEREF(m, Var(v)) = <<r[2], REFVAL>>
    BY <1>2, ReadIs
  <2>2. r[2] \in Cells \ {VarCell, Literal} /\ IsPlace(m, <<r[2], REFVAL>>)
    BY <1>2, VarHolds
  <2>3. /\ \A u \in Vars : Get(n, Var(u)) = Get(m, Var(u))
        /\ n[r[2]].at[REFVAL] = z
        /\ \A d \in Cells : d # r[2] => n[d] = m[d]
    BY <2>1, <2>2, PutRefGets
  <2> HIDE DEF n
  <2>4. ASSUME NEW u \in Vars
        PROVE  Read(n, u) = IF u \in Same(m, v) THEN z ELSE Read(m, u)
    <3>1. CASE Get(m, Var(u)) = r
      <4>1. u \in Same(m, v)
        BY <1>2, <3>1 DEF Same
      <4>2. Read(n, u) = z
        BY <1>2, <2>3, <3>1, ReadIs
      <4> QED
        BY <4>1, <4>2
    <3>2. CASE Get(m, Var(u)) # r
      <4>1. u \notin Same(m, v)
        BY <3>2 DEF Same
      <4>2. CASE IsRef(Get(m, Var(u)))
        <5>1. Get(m, Var(u))[2] # r[2] /\ Get(m, Var(u))[2] \in Cells
          BY <1>2, <3>2, <4>2, VarHolds DEF Proper
        <5>2. n[Get(m, Var(u))[2]] = m[Get(m, Var(u))[2]]
          BY <2>3, <5>1
        <5> QED
          BY <2>3, <4>1, <4>2, <5>2, ReadIs
      <4>3. CASE ~IsRef(Get(m, Var(u)))
        BY <2>3, <4>1, <4>3, ReadIs
      <4> QED
        BY <4>2, <4>3
    <3> QED
      BY <3>1, <3>2
  <2>5. \A u \in Vars : Same(n, u) = Same(m, u)
    BY <2>3, SameVars
  <2>6. Proper(n)
    BY <2>3 DEF Proper
  <2> QED
    BY <2>4, <2>5, <2>6 DEF n
<1> QED
  BY <1>1, <1>2

\* The counts are not seen.
LEMMA CountsMean ==
  ASSUME NEW m, Shape(m), Sound(m), NEW n, SameButCounts(m, n)
  PROVE  /\ \A t : Valued(m, t) => Valued(n, t)
         /\ \A v \in Vars : /\ Get(n, Var(v)) = Get(m, Var(v)) /\ Read(n, v) = Read(m, v)
                            /\ Same(n, v) = Same(m, v) /\ DEREF(n, Var(v)) = DEREF(m, Var(v))
         /\ Proper(m) => Proper(n)
<1>1. \A c \in Cells : n[c].kind = m[c].kind /\ n[c].at = m[c].at
  BY DEF SameButCounts
<1>2. ASSUME NEW t, Valued(m, t) PROVE Valued(n, t)
  <2>1. ASSUME NEW c \in Cells
        PROVE  t[c] = IF n[c].kind = "array"
                      THEN <<"array", [k \in Keys |-> ValueIn(t, n[c].at[k])]>> ELSE NULL
    <3>1. t[c] = IF m[c].kind = "array"
                 THEN <<"array", [k \in Keys |-> ValueIn(t, m[c].at[k])]>> ELSE NULL
      BY <1>2 DEF Valued
    <3> QED
      BY <1>1, <3>1
  <2> QED
    BY <1>2, <2>1 DEF Valued
<1>3. Shape(n) /\ Sound(n) /\ Thinned(m, n)
  BY Recounted, ThinnedCounts
<1>4. \A v \in Vars : Get(n, Var(v)) = Get(m, Var(v)) /\ Read(n, v) = Read(m, v)
  BY <1>3, ThinnedVars
<1>5. \A v \in Vars : Same(n, v) = Same(m, v)
  BY <1>4, SameVars
<1>6. \A v \in Vars : DEREF(n, Var(v)) = DEREF(m, Var(v))
  BY <1>4, Zenon DEF DEREF
<1>7. Proper(m) => Proper(n)
  BY <1>4 DEF Proper
<1> QED
  BY <1>2, <1>4, <1>5, <1>6, <1>7

\* v, and what is a reference to the same thing, gets the value x; the rest is as it was.
Becomes(m, t, n, s, v, x) ==
  /\ Valued(n, s) /\ Proper(n)
  /\ \A u \in Vars : /\ Says(n, s, u) = IF u \in Same(m, v) THEN x ELSE Says(m, t, u)
                     /\ Same(n, u) = Same(m, u)

LEMMA BecomesAlike ==
  ASSUME NEW m, NEW t, NEW n, NEW s, NEW v, NEW x, Becomes(m, t, n, s, v, x),
         NEW o, NEW r, Valued(o, r), Alike(n, s, o, r)
  PROVE  Becomes(m, t, o, r, v, x)
BY Zenon DEF Becomes, Alike

LEMMA AlikeBecomes ==
  ASSUME NEW m, NEW t, NEW n, NEW s, Alike(m, t, n, s), NEW v \in Vars, NEW x,
         NEW o, NEW r, Becomes(n, s, o, r, v, x)
  PROVE  Becomes(m, t, o, r, v, x)
BY DEF Becomes, Alike

LEMMA AssignToMeans ==
  ASSUME NEW m, NEW v \in Vars, NEW z, NEW owned \in BOOLEAN,
         Good(m, UNDEF, IF owned THEN z ELSE UNDEF),
         Points(m, z), ~IsRef(z), z # UNDEF, Proper(m), NEW t, Valued(m, t)
  PROVE  \E s : Becomes(m, t, AssignTo(m, Var(v), z, owned), s, v, ValueIn(t, z))
<1> DEFINE q == DEREF(m, Var(v))
           l == IF owned THEN m ELSE AddRef(m, z)
           o == Put(l, q, z)
           n == Release(o, Get(m, q))
<1>1. AssignTo(m, Var(v), z, owned) = n
  BY DEF AssignTo
<1>2. Shape(m) /\ Sound(m)
  BY DEF Good
<1>3. IsPlace(m, q) /\ q[1] # Literal /\ ~IsRef(Get(m, q))
  BY <1>2, DerefPlace, VarPlace, Cell
<1>4. Good(l, UNDEF, z) /\ SameButCounts(m, l)
  <2>1. CASE owned
    BY <1>2, <2>1 DEF SameButCounts, Shape, CellShape
  <2>2. CASE ~owned
    BY <2>2, AddRefGood
  <2> QED
    BY <2>1, <2>2
<1>5. m[q[1]].kind # "array"
  BY <1>2, VarTarget
<1> HIDE DEF l
<1>6. /\ Valued(l, t) /\ Proper(l) /\ DEREF(l, Var(v)) = q
      /\ \A u \in Vars : Read(l, u) = Read(m, u) /\ Same(l, u) = Same(m, u)
  BY <1>2, <1>4, CountsMean
<1>7. /\ Shape(l) /\ Sound(l) /\ IsPlace(l, q) /\ Get(l, q) = Get(m, q)
      /\ l[q[1]].kind # "array"
  <2> HIDE DEF q
  <2>1. q[1] \in Cells
    BY <1>3 DEF IsPlace, Places
  <2> QED
    BY <1>2, <1>3, <1>4, <1>5, <2>1, Recounted DEF SameButCounts
<1>8. Good(o, UNDEF, Get(m, q))
  <2> HIDE DEF q
  <2> QED
    BY <1>3, <1>4, <1>7, PutGood
<1>9. Becomes(m, t, o, t, v, ValueIn(t, z))
  <2>1. Valued(o, t)
    <3> HIDE DEF q
    <3> QED
      BY <1>6, <1>7, PutValued
  <2>2. /\ \A u \in Vars : Read(o, u) = IF u \in Same(l, v) THEN z ELSE Read(l, u)
        /\ \A u \in Vars : Same(o, u) = Same(l, u)
        /\ Proper(o)
    <3>1. o = Put(l, DEREF(l, Var(v)), z)
      BY <1>6
    <3> QED
      BY <1>6, <1>7, <3>1, PutTarget
  <2> HIDE DEF o, q
  <2> QED
    BY <1>6, <2>1, <2>2 DEF Becomes, Says
<1> HIDE DEF o, q
<1>10. Valued(n, Trim(n, t)) /\ Alike(o, t, n, Trim(n, t))
  BY <1>8, <1>9, ReleaseAlike DEF Becomes
<1>11. Becomes(m, t, n, Trim(n, t), v, ValueIn(t, z))
  <2> HIDE DEF n
  <2> QED
    BY <1>9, <1>10, BecomesAlike
<1> QED
  BY <1>1, <1>11

(***************************************************************************)
(* An element of an array that no other array contains is written.         *)
(***************************************************************************)

LEMMA SameIs ==
  ASSUME NEW m, NEW v \in Vars, NEW u \in Vars
  PROVE  /\ v \in Same(m, v) /\ Same(m, v) \subseteq Vars
         /\ u \in Same(m, v) <=> v \in Same(m, u)
         /\ u \in Same(m, v) => Same(m, u) = Same(m, v)
         /\ ~IsRef(Get(m, Var(v))) => Same(m, v) = {v}
BY DEF Same

\* Variables that are references to the same thing stand for the same place.
LEMMA SameDeref ==
  ASSUME NEW m, Shape(m), Sound(m), Proper(m), NEW v \in Vars, NEW u \in Vars
  PROVE  u \in Same(m, v) <=> DEREF(m, Var(u)) = DEREF(m, Var(v))
<1> DEFINE x == Get(m, Var(u))
           y == Get(m, Var(v))
<1>1. /\ IsRef(x) => DEREF(m, Var(u)) = <<x[2], REFVAL>> /\ x = REF(x[2]) /\ x[2] # VarCell
      /\ IsRef(y) => DEREF(m, Var(v)) = <<y[2], REFVAL>> /\ y = REF(y[2]) /\ y[2] # VarCell
      /\ ~IsRef(x) => DEREF(m, Var(u)) = Var(u)
      /\ ~IsRef(y) => DEREF(m, Var(v)) = Var(v)
  BY ReadIs, VarHolds DEF Proper
<1>2. \A a, b : Var(a) = Var(b) <=> a = b
  BY DEF Var
<1>3. \A a : Var(a)[1] = VarCell
  BY DEF Var
<1>4. u \in Same(m, v) <=> u = v \/ (IsRef(y) /\ x = y)
  BY DEF Same
<1> HIDE DEF x, y
<1>5. CASE IsRef(x) /\ IsRef(y)
  BY <1>1, <1>4, <1>5 DEF x, y
<1>6. CASE IsRef(x) /\ ~IsRef(y)
  <2>1. u # v
    BY <1>6 DEF x, y
  <2>2. <<x[2], REFVAL>>[1] = x[2]
    OBVIOUS
  <2> QED BY <1>1, <1>3, <1>4, <1>6, <2>1, <2>2
<1>7. CASE ~IsRef(x) /\ IsRef(y)
  <2>1. u # v /\ x # y
    BY <1>7 DEF x, y
  <2>2. <<y[2], REFVAL>>[1] = y[2]
    OBVIOUS
  <2> QED BY <1>1, <1>3, <1>4, <1>7, <2>1, <2>2
<1>8. CASE ~IsRef(x) /\ ~IsRef(y)
  BY <1>1, <1>2, <1>4, <1>8
<1> QED
  BY <1>5, <1>6, <1>7, <1>8

LEMMA ReadSame ==
  ASSUME NEW m, Shape(m), Sound(m), Proper(m), NEW v \in Vars, NEW u \in Same(m, v)
  PROVE  Read(m, u) = Read(m, v)
<1>1. u \in Vars
  BY DEF Same
<1>2. DEREF(m, Var(u)) = DEREF(m, Var(v))
  BY <1>1, SameDeref
<1> QED
  BY <1>2 DEF Read

\* No element is an array that none contains.
LEMMA ApartElement ==
  ASSUME NEW m, Shape(m), NEW a \in Cells \ {Literal}, Apart(m, a), NEW d \in Cells, m[d].kind = "array",
         NEW k \in Keys
  PROVE  ~(IsArr(m[d].at[k]) /\ m[d].at[k][2] = a)
<1> SUFFICES ASSUME IsArr(m[d].at[k]), m[d].at[k][2] = a PROVE FALSE
  OBVIOUS
<1>1. IsPlace(m, <<d, k>>)
  BY PlaceOf DEF Shape, CellShape
<1>2. Get(m, <<d, k>>) = m[d].at[k]
  BY DEF Get
<1>3. Holder(m, <<d, k>>, a)
  BY <1>1, <1>2 DEF Holder, Refcounted
<1> QED
  BY <1>3 DEF Apart, Leads

\* The variables keep what they hold when an element is written.
LEMMA PutElementVars ==
  ASSUME NEW m, Shape(m), Sound(m), NEW a \in Cells, m[a].kind = "array", NEW k \in Keys, NEW z
  PROVE  LET n == Put(m, <<a, k>>, z)
         IN  /\ \A u \in Vars : Get(n, Var(u)) = Get(m, Var(u)) /\ Read(n, u) = Read(m, u)
             /\ \A u \in Vars : Same(n, u) = Same(m, u)
             /\ Proper(m) => Proper(n)
             /\ \A d \in Cells : n[d].kind = m[d].kind /\ (d # a => n[d] = m[d])
             /\ n[a].at = [m[a].at EXCEPT ![k] = z]
<1> DEFINE n == Put(m, <<a, k>>, z)
<1>0. DOMAIN m[a].at = Keys /\ m[VarCell].kind = "vars" /\ IsPlace(m, <<a, k>>) /\ DOMAIN m = Cells
      /\ DOMAIN m[a] = Fields
  BY Cell, PlaceOf DEF Shape, CellShape
<1>1. \A d \in Cells : n[d].kind = m[d].kind /\ (d # a => n[d] = m[d])
  BY <1>0, PutView
<1>2. n[a].at = [m[a].at EXCEPT ![k] = z]
  BY <1>0 DEF Put, Fields
<1> HIDE DEF n
<1>3. n[VarCell] = m[VarCell]
  BY <1>0, <1>1, Cell
<1>4. \A u \in Vars : Get(n, Var(u)) = Get(m, Var(u))
  BY <1>3 DEF Get, Var
<1>5. ASSUME NEW u \in Vars PROVE Read(n, u) = Read(m, u)
  <2>1. CASE IsRef(Get(m, Var(u)))
    <3>1. Get(m, Var(u))[2] \in Cells /\ m[Get(m, Var(u))[2]].kind = "ref"
      BY <2>1, VarHolds
    <3>2. n[Get(m, Var(u))[2]] = m[Get(m, Var(u))[2]]
      BY <1>1, <3>1
    <3> QED
      BY <1>4, <2>1, <3>2, ReadIs
  <2>2. CASE ~IsRef(Get(m, Var(u)))
    BY <1>4, <2>2, ReadIs
  <2> QED
    BY <2>1, <2>2
<1>6. \A u \in Vars : Same(n, u) = Same(m, u)
  BY <1>4, SameVars
<1>7. Proper(m) => Proper(n)
  BY <1>4 DEF Proper
<1> QED
  BY <1>1, <1>2, <1>4, <1>5, <1>6, <1>7 DEF n

\* The array a has a new element.
Rewritten(t, a, k, x) == [t EXCEPT ![a] = Php!With(t[a], k, x)]

\* The array has the new element, and every other array is worth the same.
LEMMA PutElement ==
  ASSUME NEW m, Shape(m), Sound(m), NEW a \in Cells \ {Literal}, m[a].kind = "array", Apart(m, a),
         NEW k \in Keys, NEW z, Points(m, z), ~(IsArr(z) /\ z[2] = a), NEW t, Valued(m, t)
  PROVE  LET s == Rewritten(t, a, k, ValueIn(t, z))
         IN  /\ Valued(Put(m, <<a, k>>, z), s)
             /\ \A x : Points(m, x) /\ ~(IsArr(x) /\ x[2] = a) => ValueIn(s, x) = ValueIn(t, x)
<1> DEFINE n == Put(m, <<a, k>>, z)
           s == Rewritten(t, a, k, ValueIn(t, z))
<1>0. DOMAIN t = Cells /\ DOMAIN s = Cells /\ DOMAIN m[a].at = Keys /\ IsPlace(m, <<a, k>>) /\ DOMAIN m = Cells
      /\ DOMAIN m[a] = Fields
  BY PlaceOf DEF Rewritten, Valued, Shape, CellShape
<1>1. \A d \in Cells : n[d].kind = m[d].kind /\ (d # a => n[d] = m[d])
  BY <1>0, PutView
<1>2. n[a].at = [m[a].at EXCEPT ![k] = z]
  BY <1>0 DEF Put, Fields
<1>3. \A d \in Cells : d # a => s[d] = t[d]
  BY <1>0 DEF Rewritten
<1>4. s[a] = Php!With(t[a], k, ValueIn(t, z))
  BY <1>0 DEF Rewritten
<1> HIDE DEF n, s
<1>5. \A x : Points(m, x) /\ ~(IsArr(x) /\ x[2] = a) => ValueIn(s, x) = ValueIn(t, x)
  <2> TAKE x
  <2>1. CASE IsArr(x)
    BY <1>3, <2>1, ValueInCases DEF Points
  <2>2. CASE ~IsArr(x)
    BY <2>2, ValueInCases
  <2> QED BY <2>1, <2>2
<1>6. ASSUME NEW d \in Cells, m[d].kind = "array", NEW j \in Keys
      PROVE  ValueIn(s, m[d].at[j]) = ValueIn(t, m[d].at[j])
  <2>1. Points(m, m[d].at[j])
    BY <1>6 DEF Sound, Shape, CellShape
  <2> QED
    BY <1>5, <1>6, <2>1, ApartElement
<1>7. ASSUME NEW d \in Cells \ {a}
      PROVE  s[d] = IF n[d].kind = "array" THEN <<"array", [j \in Keys |-> ValueIn(s, n[d].at[j])]>>
                    ELSE NULL
  <2>1. CASE n[d].kind # "array"
    BY <1>1, <1>3, <2>1 DEF Valued
  <2>2. CASE n[d].kind = "array"
    <3>1. n[d] = m[d] /\ m[d].kind = "array" /\ s[d] = t[d]
      BY <1>1, <1>3, <2>2
    <3>2. t[d] = <<"array", [j \in Keys |-> ValueIn(t, m[d].at[j])]>>
      BY <3>1, ArrayIs
    <3>3. [j \in Keys |-> ValueIn(s, m[d].at[j])] = [j \in Keys |-> ValueIn(t, m[d].at[j])]
      BY <1>6, <3>1
    <3> QED
      BY <2>2, <3>1, <3>2, <3>3
  <2> QED BY <2>1, <2>2
<1>8. s[a] = <<"array", [j \in Keys |-> ValueIn(s, n[a].at[j])]>>
  <2> DEFINE f == [j \in Keys |-> ValueIn(t, m[a].at[j])]
  <2>1. t[a] = <<"array", f>>
    BY ArrayIs
  <2>2. s[a] = <<"array", [f EXCEPT ![k] = ValueIn(t, z)]>>
    <3> HIDE DEF f
    <3> QED BY <1>4, <2>1, WithOf
  <2>3. ASSUME NEW j \in Keys
        PROVE  [f EXCEPT ![k] = ValueIn(t, z)][j] = ValueIn(s, n[a].at[j])
    <3>1. CASE j = k
      <4>1. n[a].at[j] = z
        BY <1>0, <1>2, <3>1
      <4> QED
        BY <1>5, <3>1, <4>1
    <3>2. CASE j # k
      <4>1. n[a].at[j] = m[a].at[j]
        BY <1>0, <1>2, <3>2
      <4> QED
        BY <1>6, <3>2, <4>1
    <3> QED BY <3>1, <3>2
  <2>4. [f EXCEPT ![k] = ValueIn(t, z)] = [j \in Keys |-> ValueIn(s, n[a].at[j])]
    BY <2>3
  <2> QED
    BY <2>2, <2>4
<1>9. Valued(n, s)
  <2>1. n[a].kind = "array"
    BY <1>1
  <2> QED
    BY <1>0, <1>7, <1>8, <2>1, Zenon DEF Valued
<1> QED
  BY <1>5, <1>9 DEF n, s

(***************************************************************************)
(* A new cell, and the array that an element is written to.                *)
(***************************************************************************)

\* The variables are the same when a free cell is put to use.
LEMMA ExtendedVars ==
  ASSUME NEW m, Shape(m), Sound(m), NEW n, NEW c \in Cells, m[c].kind = "free",
         \A d \in Cells : d # c => n[d].kind = m[d].kind /\ n[d].at = m[d].at
  PROVE  /\ \A u \in Vars : /\ Get(n, Var(u)) = Get(m, Var(u)) /\ Read(n, u) = Read(m, u)
                            /\ Same(n, u) = Same(m, u) /\ DEREF(n, Var(u)) = DEREF(m, Var(u))
         /\ Proper(m) => Proper(n)
<1>1. c # VarCell
  BY DEF Shape, CellShape
<1>2. n[VarCell].at = m[VarCell].at
  BY <1>1, Cell
<1>3. \A u \in Vars : Get(n, Var(u)) = Get(m, Var(u))
  BY <1>2 DEF Get, Var
<1>4. ASSUME NEW u \in Vars PROVE Read(n, u) = Read(m, u)
  <2>1. CASE IsRef(Get(m, Var(u)))
    <3>1. Get(m, Var(u))[2] \in Cells /\ m[Get(m, Var(u))[2]].kind = "ref"
      BY <2>1, VarHolds
    <3>2. n[Get(m, Var(u))[2]].at = m[Get(m, Var(u))[2]].at
      BY <3>1
    <3> QED
      BY <1>3, <2>1, <3>2, ReadIs
  <2>2. CASE ~IsRef(Get(m, Var(u)))
    BY <1>3, <2>2, ReadIs
  <2> QED
    BY <2>1, <2>2
<1>5. \A u \in Vars : Same(n, u) = Same(m, u)
  BY <1>3, SameVars
<1>6. \A u \in Vars : DEREF(n, Var(u)) = DEREF(m, Var(u))
  BY <1>3, Zenon DEF DEREF
<1>7. Proper(m) => Proper(n)
  BY <1>3 DEF Proper
<1> QED
  BY <1>3, <1>4, <1>5, <1>6, <1>7

\* The array in the new cell c has the value of its elements.
Extended(t, n, c) ==
  [t EXCEPT ![c] = IF n[c].kind = "array"
                   THEN <<"array", [k \in Keys |-> ValueIn(t, n[c].at[k])]>> ELSE NULL]

LEMMA ExtendedAlike ==
  ASSUME NEW m, Shape(m), Sound(m), NEW n, Shape(n), NEW c \in Cells, m[c].kind = "free",
         \A d \in Cells : d # c => n[d].kind = m[d].kind /\ n[d].at = m[d].at,
         n[c].kind = "array" => \A k \in Keys : Points(m, n[c].at[k]),
         NEW t, Valued(m, t)
  PROVE  LET s == Extended(t, n, c)
         IN  /\ Valued(n, s) /\ Alike(m, t, n, s)
             /\ \A x : Points(m, x) => ValueIn(s, x) = ValueIn(t, x)
<1> DEFINE s == Extended(t, n, c)
<1>0. DOMAIN t = Cells /\ DOMAIN s = Cells
  BY DEF Valued, Extended
<1>1. \A d \in Cells : d # c => s[d] = t[d]
  BY <1>0 DEF Extended
<1>2. s[c] = IF n[c].kind = "array"
             THEN <<"array", [k \in Keys |-> ValueIn(t, n[c].at[k])]>> ELSE NULL
  BY <1>0 DEF Extended
<1> HIDE DEF s
<1>3. \A x : Points(m, x) => ValueIn(s, x) = ValueIn(t, x)
  <2> TAKE x
  <2>1. CASE IsArr(x)
    BY <1>1, <2>1, ValueInCases DEF Points
  <2>2. CASE ~IsArr(x)
    BY <2>2, ValueInCases
  <2> QED BY <2>1, <2>2
<1>4. ASSUME NEW d \in Cells
      PROVE  s[d] = IF n[d].kind = "array" THEN <<"array", [k \in Keys |-> ValueIn(s, n[d].at[k])]>>
                    ELSE NULL
  <2>1. CASE n[d].kind # "array"
    <3>1. CASE d = c
      BY <1>2, <2>1, <3>1
    <3>2. CASE d # c
      BY <1>1, <2>1, <3>2 DEF Valued
    <3> QED BY <3>1, <3>2
  <2>2. CASE n[d].kind = "array"
    <3>1. s[d] = <<"array", [k \in Keys |-> ValueIn(t, n[d].at[k])]>>
      <4>1. CASE d = c
        BY <1>2, <2>2, <4>1
      <4>2. CASE d # c
        <5>1. s[d] = t[d] /\ m[d].kind = "array" /\ m[d].at = n[d].at
          BY <1>1, <2>2, <4>2
        <5>2. t[d] = <<"array", [k \in Keys |-> ValueIn(t, m[d].at[k])]>>
          BY <5>1, ArrayIs
        <5> QED BY <5>1, <5>2
      <4> QED BY <4>1, <4>2
    <3>2. \A k \in Keys : Points(m, n[d].at[k])
      <4>1. CASE d = c
        BY <2>2, <4>1
      <4>2. CASE d # c
        BY <2>2, <4>2 DEF Sound, Shape, CellShape
      <4> QED BY <4>1, <4>2
    <3>3. [k \in Keys |-> ValueIn(s, n[d].at[k])] = [k \in Keys |-> ValueIn(t, n[d].at[k])]
      BY <1>3, <3>2
    <3> QED BY <2>2, <3>1, <3>3
  <2> QED BY <2>1, <2>2
<1>5. Valued(n, s)
  BY <1>0, <1>4, Zenon DEF Valued
<1>6. Alike(m, t, n, s)
  <2>1. \A u \in Vars : Read(n, u) = Read(m, u) /\ Same(n, u) = Same(m, u) /\ Points(m, Read(m, u))
    BY ExtendedVars, ReadGood
  <2>2. Proper(m) => Proper(n)
    BY ExtendedVars
  <2> QED
    BY <1>3, <2>1, <2>2 DEF Alike, Says
<1> QED
  BY <1>3, <1>5, <1>6 DEF s

LEMMA ExtendedSame ==
  ASSUME NEW m, Shape(m), Sound(m), NEW n, Shape(n), NEW c \in Cells, m[c].kind = "free",
         \A d \in Cells : d # c => n[d].kind = m[d].kind /\ n[d].at = m[d].at,
         n[c].kind # "array", NEW t, Valued(m, t)
  PROVE  \E s : Valued(n, s) /\ Alike(m, t, n, s) /\ \A x : Points(m, x) => ValueIn(s, x) = ValueIn(t, x)
<1> DEFINE s == Extended(t, n, c)
<1>1. n[c].kind = "array" => \A k \in Keys : Points(m, n[c].at[k])
  OBVIOUS
<1>2. /\ Valued(n, s) /\ Alike(m, t, n, s)
      /\ \A x : Points(m, x) => ValueIn(s, x) = ValueIn(t, x)
  BY <1>1, ExtendedAlike
<1> HIDE DEF s
<1> QED
  BY <1>2

\* The array that is written to at p is a copy of the one there, or empty.
OldArray(t, z) == IF IsArr(z) THEN t[z[2]] ELSE Php!Empty

LEMMA DupAlike ==
  ASSUME NEW m, NEW y, Good(m, UNDEF, y), Unused(m) # {}, NEW c \in Cells, m[c].kind = "array",
         NEW t, Valued(m, t)
  PROVE  \E s : /\ Valued(Dup(m, c), s) /\ Alike(m, t, Dup(m, c), s)
                /\ \A x : Points(m, x) => ValueIn(s, x) = ValueIn(t, x)
                /\ s[NewCell(m)] = t[c]
<1> DEFINE n == Dup(m, c)
           a == NewCell(m)
           s == Extended(t, n, a)
<1>0. Shape(m) /\ Sound(m)
  BY DEF Good
<1>1. a \in Cells /\ m[a].kind = "free"
  BY <1>0, NewCellFree
<1>2. Good(n, y, ARR(a)) /\ \A d \in Cells : d # a => n[d].kind = m[d].kind /\ n[d].at = m[d].at
  BY DupGood
<1>3. n[a].kind = "array" /\ n[a].at = m[c].at
  <2>1. n[a] = ArrayCell(m[c].at)
    BY <1>1 DEF Dup
  <2> HIDE DEF n, a
  <2> QED BY <2>1 DEF ArrayCell
<1> HIDE DEF n, a
<1>4. \A k \in Keys : Points(m, n[a].at[k])
  BY <1>0, <1>3 DEF Sound, Shape, CellShape
<1>5. Shape(n) /\ \A d \in Cells : d # a => n[d].kind = m[d].kind /\ n[d].at = m[d].at
  BY <1>2 DEF Good
<1>6. /\ Valued(n, s) /\ Alike(m, t, n, s)
      /\ \A x : Points(m, x) => ValueIn(s, x) = ValueIn(t, x)
  BY <1>0, <1>1, <1>4, <1>5, ExtendedAlike
<1>7. s[a] = t[c]
  <2>1. s[a] = <<"array", [k \in Keys |-> ValueIn(t, n[a].at[k])]>>
    BY <1>1, <1>3 DEF Valued, Extended
  <2>2. t[c] = <<"array", [k \in Keys |-> ValueIn(t, m[c].at[k])]>>
    BY ArrayIs
  <2> HIDE DEF s
  <2> QED BY <1>3, <2>1, <2>2
<1> QED
  <2> HIDE DEF s
  <2> QED BY <1>6, <1>7 DEF n, a

LEMMA NewArrayAlike ==
  ASSUME NEW m, NEW y, Good(m, UNDEF, y), Unused(m) # {}, NEW t, Valued(m, t)
  PROVE  LET n == AddCell(m, ArrayCell(NoElements))
         IN  \E s : /\ Valued(n, s) /\ Alike(m, t, n, s)
                    /\ \A x : Points(m, x) => ValueIn(s, x) = ValueIn(t, x)
                    /\ s[NewCell(m)] = Php!Empty
<1> DEFINE n == AddCell(m, ArrayCell(NoElements))
           a == NewCell(m)
           s == Extended(t, n, a)
<1>0. Shape(m) /\ Sound(m) /\ DOMAIN m = Cells
  BY DEF Good, Shape
<1>1. a \in Cells /\ m[a].kind = "free"
  BY <1>0, NewCellFree
<1>2. Good(n, y, ARR(a)) /\ \A d \in Cells : d # a => n[d] = m[d]
  BY NewArrayGood
<1>3. n[a].kind = "array" /\ n[a].at = NoElements
  BY <1>0, <1>1 DEF AddCell, ArrayCell
<1> HIDE DEF n, a
<1>4. \A k \in Keys : n[a].at[k] = UNDEF /\ Points(m, n[a].at[k])
  BY <1>3, Undefined DEF NoElements, Points
<1>5. Shape(n) /\ \A d \in Cells : d # a => n[d].kind = m[d].kind /\ n[d].at = m[d].at
  BY <1>2 DEF Good
<1>6. /\ Valued(n, s) /\ Alike(m, t, n, s)
      /\ \A x : Points(m, x) => ValueIn(s, x) = ValueIn(t, x)
  BY <1>0, <1>1, <1>4, <1>5, ExtendedAlike
<1>7. s[a] = Php!Empty
  <2>1. s[a] = <<"array", [k \in Keys |-> ValueIn(t, n[a].at[k])]>>
    BY <1>1, <1>3 DEF Valued, Extended
  <2> HIDE DEF s
  <2>2. \A k \in Keys : ValueIn(t, n[a].at[k]) = Php!Absent
    BY <1>4, ValueInCases
  <2>3. [k \in Keys |-> ValueIn(t, n[a].at[k])] = [k \in Keys |-> Php!Absent]
    BY <2>2
  <2> QED BY <2>1, <2>3 DEF Php!Empty, Php!Array
<1> QED
  <2> HIDE DEF s
  <2> QED BY <1>6, <1>7 DEF n, a

\* n is m with a new array, which is worth what was at p.
NewAt(m, n, y, p) ==
  /\ Good(n, y, ARR(NewCell(m)))
  /\ \A q : IsPlace(m, q) => IsPlace(n, q) /\ Get(n, q) = Get(m, q)
  /\ \A d \in Cells : d # NewCell(m) => n[d].kind = m[d].kind /\ n[d].at = m[d].at
  /\ \A c \in Cells : Apart(m, c) => Apart(n, c)
  /\ \A t : Valued(m, t) =>
       \E s : /\ Valued(n, s) /\ Alike(m, t, n, s)
              /\ \A x : Points(m, x) => ValueIn(s, x) = ValueIn(t, x)
              /\ s[NewCell(m)] = OldArray(t, Get(m, p))

\* The array is written where it is, or a new one is put in its place.
LEMMA ArrayAtIs ==
  ASSUME NEW m, NEW y, Good(m, UNDEF, y), Unused(m) # {},
         NEW p, IsPlace(m, p), p[1] # Literal, Assignable(m, p)
  PROVE  \/ IsArr(Get(m, p)) /\ ArrayAt(m, p) = m
         \/ \E n : /\ NewAt(m, n, y, p)
                   /\ ArrayAt(m, p) = Drop(Put(n, p, ARR(NewCell(m))), Get(m, p))
<1> DEFINE c == Get(m, p)[2]
           a == NewCell(m)
<1>0. Shape(m) /\ Sound(m)
  BY DEF Good
<1>1. CASE IsArr(Get(m, p))
  <2> DEFINE n == Dup(m, c)
  <2>1. Points(m, Get(m, p))
    BY <1>0 DEF IsPlace, Places, Sound, Get
  <2>2. c \in Cells /\ m[c].kind = "array" /\ c # VarCell
    BY <1>0, <1>1, <2>1 DEF Points, Shape, CellShape
  <2>3. ArrayAt(m, p) = SEPARATE_ARRAY(m, p)
    BY <1>1 DEF ArrayAt
  <2>4. CASE m[c].rc <= 1
    BY <1>1, <2>3, <2>4 DEF SEPARATE_ARRAY
  <2>5. CASE ~(m[c].rc <= 1)
    <3> DEFINE dup == Put(n, p, ARR(a))
    <3>1. SEPARATE_ARRAY(m, p) = Drop(dup, Get(m, p))
      <4>1. SEPARATE_ARRAY(m, p) = IF c = Literal THEN dup ELSE [dup EXCEPT ![c].rc = @ - 1]
        BY <2>5 DEF SEPARATE_ARRAY
      <4>2. Refcounted(Get(m, p)) <=> c # Literal
        BY <1>1 DEF Refcounted, IsArr, IsRef
      <4> HIDE DEF dup
      <4> QED
        BY <4>1, <4>2 DEF Drop
    <3>2. /\ Good(n, y, ARR(a))
          /\ \A q : IsPlace(m, q) => IsPlace(n, q) /\ Get(n, q) = Get(m, q)
          /\ \A d \in Cells : d # a => n[d].kind = m[d].kind /\ n[d].at = m[d].at
      BY <2>2, DupGood
    <3>3. \A d, e \in Cells : Leads(n, d, e) => Leads(m, d, e) \/ (d = a /\ Leads(m, c, e))
      BY <2>2, DupLinks
    <3>4. \A e \in Cells : Apart(m, e) => Apart(n, e)
      BY <2>2, <3>3 DEF Apart
    <3>5. \A t : Valued(m, t) =>
            \E s : /\ Valued(n, s) /\ Alike(m, t, n, s)
                   /\ \A x : Points(m, x) => ValueIn(s, x) = ValueIn(t, x)
                   /\ s[a] = t[c]
      BY <2>2, DupAlike
    <3>6. \A t : OldArray(t, Get(m, p)) = t[c]
      BY <1>1 DEF OldArray
    <3> HIDE DEF n
    <3>7. NewAt(m, n, y, p)
      BY <3>2, <3>4, <3>5, <3>6, Zenon DEF NewAt
    <3> QED BY <2>3, <3>1, <3>7
  <2> QED BY <2>4, <2>5
<1>2. CASE ~IsArr(Get(m, p))
  <2> DEFINE x == ArrayCell(NoElements)
             n == AddCell(m, x)
             o == Put(n, p, ARR(a))
  <2>1. ArrayAt(m, p) = o
    BY <1>2 DEF ArrayAt, AddCell
  <2>2. Drop(o, Get(m, p)) = o
    <3>1. ~Refcounted(Get(m, p))
      BY <1>2, Undefined DEF Assignable
    <3> QED BY <3>1 DEF Drop
  <2>3. /\ Good(n, y, ARR(a))
        /\ \A q : IsPlace(m, q) => IsPlace(n, q) /\ Get(n, q) = Get(m, q)
        /\ \A d \in Cells : d # a => n[d] = m[d]
    BY NewArrayGood
  <2>4. \A t : Valued(m, t) =>
          \E s : /\ Valued(n, s) /\ Alike(m, t, n, s)
                 /\ \A z : Points(m, z) => ValueIn(s, z) = ValueIn(t, z)
                 /\ s[a] = Php!Empty
    BY NewArrayAlike
  <2>5. \A t : OldArray(t, Get(m, p)) = Php!Empty
    BY <1>2 DEF OldArray
  <2>6. IsNewCell(x) /\ \A k \in DOMAIN x.at : ~Refcounted(x.at[k])
    BY Undefined DEF ArrayCell, NoElements, IsNewCell, Fields
  <2>7. Calm(m, n)
    <3> HIDE DEF x
    <3> QED BY <1>0, <2>6, AddCellCalm
  <2> HIDE DEF n
  <2>8. \A e \in Cells : Apart(m, e) => Apart(n, e)
    BY <2>7 DEF Calm, Fewer, Apart
  <2>9. \A d \in Cells : d # a => n[d].kind = m[d].kind /\ n[d].at = m[d].at
    BY <2>3
  <2>10. NewAt(m, n, y, p)
    BY <2>3, <2>4, <2>5, <2>8, <2>9, Zenon DEF NewAt
  <2> HIDE DEF o
  <2> QED BY <2>1, <2>2, <2>10 DEF o
<1> QED
  BY <1>1, <1>2

LEMMA CountsAlike ==
  ASSUME NEW m, Shape(m), Sound(m), NEW n, SameButCounts(m, n), NEW t, Valued(m, t)
  PROVE  Valued(n, t) /\ Alike(m, t, n, t)
<1>1. /\ Valued(n, t)
      /\ \A v \in Vars : Read(n, v) = Read(m, v) /\ Same(n, v) = Same(m, v)
      /\ Proper(m) => Proper(n)
  BY CountsMean
<1> QED
  BY <1>1 DEF Alike, Says

LEMMA PutBecomes ==
  ASSUME NEW m, Shape(m), Sound(m), Proper(m), NEW v \in Vars, NEW z, ~IsRef(z), z # UNDEF,
         NEW t, Valued(m, t)
  PROVE  Becomes(m, t, Put(m, DEREF(m, Var(v)), z), t, v, ValueIn(t, z))
<1> DEFINE p == DEREF(m, Var(v))
           n == Put(m, p, z)
<1>1. IsPlace(m, p) /\ m[p[1]].kind # "array"
  BY VarPlace, DerefPlace, Cell, VarTarget
<1>2. Valued(n, t)
  <2> HIDE DEF p
  <2> QED BY <1>1, PutValued
<1>3. /\ \A u \in Vars : Read(n, u) = IF u \in Same(m, v) THEN z ELSE Read(m, u)
      /\ \A u \in Vars : Same(n, u) = Same(m, u)
      /\ Proper(n)
  BY PutTarget
<1> HIDE DEF n
<1>4. Becomes(m, t, n, t, v, ValueIn(t, z))
  BY <1>2, <1>3 DEF Becomes, Says
<1> QED
  BY <1>4 DEF n

\* The variable and those linked to it have the array that is written to, which is worth
\* what it was, or empty.
LEMMA OwnMeans ==
  ASSUME NEW m, NEW y, Good(m, UNDEF, y), Unused(m) # {}, Proper(m), NEW v \in Vars,
         Assignable(m, DEREF(m, Var(v))), NEW t, Valued(m, t)
  PROVE  LET p == DEREF(m, Var(v))
         IN  \E s : /\ Becomes(m, t, ArrayAt(m, p), s, v, OldArray(t, Get(m, p)))
                    /\ \A x : Points(m, x) => ValueIn(s, x) = ValueIn(t, x)
<1> DEFINE p == DEREF(m, Var(v))
           a == NewCell(m)
<1>0. Shape(m) /\ Sound(m)
  BY DEF Good
<1>1. IsPlace(m, p) /\ p[1] # Literal /\ IsPlace(m, Var(v))
  BY <1>0, VarPlace, DerefPlace, Cell
<1>2. CASE IsArr(Get(m, p)) /\ ArrayAt(m, p) = m
  <2>1. Read(m, v) = Get(m, p)
    BY <1>2, Undefined DEF Read
  <2>2. OldArray(t, Get(m, p)) = Says(m, t, v)
    BY <1>2, <2>1, ValueInCases DEF OldArray, Says
  <2>3. \A u \in Same(m, v) : Says(m, t, u) = Says(m, t, v)
    BY <1>0, ReadSame DEF Says
  <2>4. Becomes(m, t, m, t, v, OldArray(t, Get(m, p)))
    BY <2>2, <2>3 DEF Becomes
  <2> QED
    BY <1>2, <2>4
<1>3. ASSUME NEW n, NewAt(m, n, y, p), ArrayAt(m, p) = Drop(Put(n, p, ARR(a)), Get(m, p))
      PROVE  \E s : /\ Becomes(m, t, ArrayAt(m, p), s, v, OldArray(t, Get(m, p)))
                    /\ \A x : Points(m, x) => ValueIn(s, x) = ValueIn(t, x)
  <2>1. PICK s : /\ Valued(n, s) /\ Alike(m, t, n, s)
                 /\ \A x : Points(m, x) => ValueIn(s, x) = ValueIn(t, x)
                 /\ s[a] = OldArray(t, Get(m, p))
    BY <1>3 DEF NewAt
  <2>2. /\ Good(n, y, ARR(a)) /\ Shape(n) /\ Sound(n) /\ Proper(n)
        /\ IsPlace(n, p) /\ Get(n, p) = Get(m, p)
        /\ Get(n, Var(v)) = Get(m, Var(v))
    BY <1>1, <1>3, <2>1 DEF NewAt, Good, Alike
  <2>3. DEREF(n, Var(v)) = p
    BY <2>2, Zenon DEF DEREF
  <2> DEFINE o == Put(n, p, ARR(a))
  <2>4. Becomes(n, s, o, s, v, s[a])
    <3>1. ~IsRef(ARR(a)) /\ ARR(a) # UNDEF /\ IsArr(ARR(a)) /\ ARR(a)[2] = a
      BY Undefined
    <3>2. ValueIn(s, ARR(a)) = s[a]
      BY <3>1, ValueInCases
    <3>3. Becomes(n, s, Put(n, DEREF(n, Var(v)), ARR(a)), s, v, ValueIn(s, ARR(a)))
      BY <2>1, <2>2, <3>1, PutBecomes
    <3> HIDE DEF p
    <3> QED BY <2>3, <3>2, <3>3
  <2>5. Good(o, y, Get(m, p))
    <3>1. ~IsRef(ARR(a)) /\ ARR(a) # UNDEF
      BY Undefined
    <3> HIDE DEF p, a
    <3> QED BY <1>1, <2>2, <3>1, PutGood
  <2> HIDE DEF o, p, a
  <2>6. Shape(o) /\ Sound(o) /\ SameButCounts(o, Drop(o, Get(m, p)))
    BY <2>5, DropGood DEF Good
  <2>7. Valued(Drop(o, Get(m, p)), s) /\ Alike(o, s, Drop(o, Get(m, p)), s)
    BY <2>4, <2>6, CountsAlike DEF Becomes
  <2>8. Becomes(n, s, Drop(o, Get(m, p)), s, v, s[a])
    BY <2>4, <2>7, BecomesAlike
  <2>9. Becomes(m, t, Drop(o, Get(m, p)), s, v, s[a])
    BY <2>1, <2>8, AlikeBecomes
  <2> QED
    BY <1>3, <2>1, <2>9 DEF o
<1>4. \/ IsArr(Get(m, p)) /\ ArrayAt(m, p) = m
      \/ \E n : /\ NewAt(m, n, y, p)
                /\ ArrayAt(m, p) = Drop(Put(n, p, ARR(a)), Get(m, p))
  <2> HIDE DEF p
  <2> QED BY <1>1, ArrayAtIs DEF p
<1> QED
  BY <1>2, <1>3, <1>4

\* A place of a variable that holds an array alone: the variables that are linked read it.
LEMMA HeldByVar ==
  ASSUME NEW m, NEW y, Good(m, UNDEF, y), Proper(m), NEW v \in Vars,
         LET z == Get(m, DEREF(m, Var(v))) IN IsArr(z) /\ z[2] \in Cells \ {VarCell, Literal} /\ m[z[2]].rc = 1
  PROVE  LET z == Get(m, DEREF(m, Var(v)))
         IN  \A u \in Vars : IsArr(Read(m, u)) /\ Read(m, u)[2] = z[2] <=> u \in Same(m, v)
<1> DEFINE p == DEREF(m, Var(v))
           z == Get(m, p)
<1>0. Shape(m) /\ Sound(m)
  BY DEF Good
<1>1. IsPlace(m, p)
  BY <1>0, VarPlace, DerefPlace, Cell
<1>2. Refcounted(z) /\ z # UNDEF
  BY Undefined DEF Refcounted
<1>3. \A q : Holder(m, q, z[2]) => q = p
  <2>1. Holder(m, p, z[2])
    BY <1>1, <1>2 DEF Holder
  <2> HIDE DEF z, p
  <2> QED BY <2>1, HeldAtOne DEF z, p
<1>4. Read(m, v) = z
  BY <1>2 DEF Read
<1> SUFFICES ASSUME NEW u \in Vars
             PROVE  IsArr(Read(m, u)) /\ Read(m, u)[2] = z[2] <=> u \in Same(m, v)
  OBVIOUS
<1>5. ASSUME u \in Same(m, v)
      PROVE  IsArr(Read(m, u)) /\ Read(m, u)[2] = z[2]
  BY <1>0, <1>4, <1>5, ReadSame
<1>6. ASSUME IsArr(Read(m, u)), Read(m, u)[2] = z[2]
      PROVE  u \in Same(m, v)
  <2> DEFINE q == DEREF(m, Var(u))
  <2>1. IsPlace(m, q)
    BY <1>0, VarPlace, DerefPlace, Cell
  <2>2. Get(m, q) = Read(m, u)
    BY <1>6, Undefined DEF Read
  <2>3. Holder(m, q, z[2])
    BY <1>6, <2>1, <2>2 DEF Holder, Refcounted
  <2>4. q = p
    BY <1>3, <2>3
  <2> QED BY <1>0, <2>4, SameDeref
<1> QED
  BY <1>5, <1>6

\* What the variables read when an element is written.
LEMMA PutElementBecomes ==
  ASSUME NEW m, Shape(m), Sound(m), Proper(m), NEW t, Valued(m, t), NEW v \in Vars, NEW k \in Keys,
         NEW a \in Cells \ {Literal}, m[a].kind = "array", Apart(m, a),
         \A u \in Vars : IsArr(Read(m, u)) /\ Read(m, u)[2] = a <=> u \in Same(m, v),
         NEW z, Points(m, z), ~(IsArr(z) /\ z[2] = a)
  PROVE  LET s == Rewritten(t, a, k, ValueIn(t, z))
         IN  Becomes(m, t, Put(m, <<a, k>>, z), s, v, Php!With(t[a], k, ValueIn(t, z)))
<1> DEFINE n == Put(m, <<a, k>>, z)
           s == Rewritten(t, a, k, ValueIn(t, z))
<1>1. /\ Valued(n, s)
      /\ \A x : Points(m, x) /\ ~(IsArr(x) /\ x[2] = a) => ValueIn(s, x) = ValueIn(t, x)
  BY PutElement
<1>2. /\ \A u \in Vars : Get(n, Var(u)) = Get(m, Var(u)) /\ Read(n, u) = Read(m, u)
      /\ \A u \in Vars : Same(n, u) = Same(m, u)
      /\ Proper(m) => Proper(n)
      /\ \A d \in Cells : n[d].kind = m[d].kind /\ (d # a => n[d] = m[d])
      /\ n[a].at = [m[a].at EXCEPT ![k] = z]
  BY PutElementVars
<1>3. s[a] = Php!With(t[a], k, ValueIn(t, z))
  BY DEF Valued, Rewritten
<1> HIDE DEF n, s
<1>4. ASSUME NEW u \in Vars
      PROVE  Says(n, s, u) = IF u \in Same(m, v) THEN s[a] ELSE Says(m, t, u)
  <2>1. CASE u \in Same(m, v)
    <3>1. IsArr(Read(n, u)) /\ Read(n, u)[2] = a
      BY <1>2, <2>1
    <3> QED BY <2>1, <3>1, ValueInCases DEF Says
  <2>2. CASE u \notin Same(m, v)
    <3>1. ~(IsArr(Read(m, u)) /\ Read(m, u)[2] = a) /\ Points(m, Read(m, u))
      BY <2>2, ReadGood
    <3>2. ValueIn(s, Read(m, u)) = ValueIn(t, Read(m, u))
      BY <1>1, <3>1
    <3> QED BY <1>2, <2>2, <3>2 DEF Says
  <2> QED BY <2>1, <2>2
<1>5. Becomes(m, t, n, s, v, s[a])
  BY <1>1, <1>2, <1>4 DEF Becomes
<1> QED
  BY <1>3, <1>5 DEF n, s

\* A value is stored in an element of the array that v, and what is linked to it, holds.
LEMMA ElementMeans ==
  ASSUME NEW m, NEW z, NEW owned \in BOOLEAN, Good(m, UNDEF, IF owned THEN z ELSE UNDEF), Proper(m),
         NEW t, Valued(m, t), NEW v \in Vars, NEW k \in Keys,
         NEW a \in Cells \ {VarCell, Literal}, m[a].kind = "array", Apart(m, a),
         \A u \in Vars : IsArr(Read(m, u)) /\ Read(m, u)[2] = a <=> u \in Same(m, v),
         Points(m, z), ~IsRef(z), z # UNDEF, ~(IsArr(z) /\ z[2] = a)
  PROVE  \E r : Becomes(m, t, AssignTo(m, <<a, k>>, z, owned), r, v, Php!With(t[a], k, ValueIn(t, z)))
<1> DEFINE q == <<a, k>>
           l == IF owned THEN m ELSE AddRef(m, z)
           n == Put(l, q, z)
           s == Rewritten(t, a, k, ValueIn(t, z))
           o == Release(n, Get(m, q))
<1>0. Shape(m) /\ Sound(m)
  BY DEF Good
<1>1. IsPlace(m, q) /\ ~IsRef(Get(m, q)) /\ q[1] = a
  <2>1. k \in DOMAIN m[a].at
    BY <1>0 DEF Shape, CellShape
  <2> QED BY <1>0, <2>1, PlaceOf DEF Sound, Get
<1>2. DEREF(m, q) = q
  BY <1>1 DEF DEREF
<1>3. AssignTo(m, q, z, owned) = o
  BY <1>2 DEF AssignTo
<1>4. Good(l, UNDEF, z) /\ SameButCounts(m, l)
  <2>1. CASE owned
    BY <1>0, <2>1 DEF SameButCounts, Shape, CellShape
  <2>2. CASE ~owned
    BY <2>2, AddRefGood
  <2> QED BY <2>1, <2>2
<1> HIDE DEF l
<1>5. /\ Shape(l) /\ Sound(l) /\ Points(l, z) /\ IsPlace(l, q) /\ Get(l, q) = Get(m, q)
      /\ l[a].kind = "array"
  BY <1>0, <1>1, <1>4, Recounted DEF SameButCounts
<1>6. Apart(l, a)
  BY <1>0, <1>4, CountsFewer DEF Fewer, Apart
<1>7. Valued(l, t) /\ Alike(m, t, l, t)
  BY <1>0, <1>4, CountsAlike
<1>8. \A u \in Vars : Read(l, u) = Read(m, u) /\ Same(l, u) = Same(m, u) /\ Points(l, Read(l, u))
  BY <1>0, <1>4, <1>5, CountsMean, ReadGood
<1>9. Becomes(l, t, n, s, v, Php!With(t[a], k, ValueIn(t, z)))
  <2>1. Proper(l)
    BY <1>7 DEF Alike
  <2>2. \A u \in Vars : IsArr(Read(l, u)) /\ Read(l, u)[2] = a <=> u \in Same(l, v)
    BY <1>8
  <2> QED BY <1>5, <1>6, <1>7, <2>1, <2>2, PutElementBecomes
<1>12. Good(n, UNDEF, Get(m, q))
  <2> HIDE DEF q
  <2>1. q[1] # Literal /\ l[q[1]].kind # "ref"
    BY <1>1, <1>5
  <2> QED BY <1>4, <1>5, <2>1, PutGood
<1> HIDE DEF n, s, q
<1>14. Valued(o, Trim(o, s)) /\ Alike(n, s, o, Trim(o, s))
  BY <1>9, <1>12, ReleaseAlike DEF Becomes
<1> HIDE DEF o
<1>15. Becomes(l, t, o, Trim(o, s), v, Php!With(t[a], k, ValueIn(t, z)))
  BY <1>9, <1>14, BecomesAlike
<1>16. Becomes(m, t, o, Trim(o, s), v, Php!With(t[a], k, ValueIn(t, z)))
  BY <1>7, <1>15, AlikeBecomes
<1> QED
  BY <1>3, <1>16 DEF q

(***************************************************************************)
(* ASSIGN_DIM.                                                             *)
(***************************************************************************)

LEMMA BecomesTwice ==
  ASSUME NEW m, NEW t, NEW n, NEW s, NEW v \in Vars, NEW x, Becomes(m, t, n, s, v, x),
         NEW o, NEW r, NEW y, Becomes(n, s, o, r, v, y)
  PROVE  Becomes(m, t, o, r, v, y)
BY DEF Becomes

\* What is written to an element does not depend on whether there was an array.
LEMMA OldWith ==
  ASSUME NEW m, NEW t, Valued(m, t), NEW v \in Vars, Shape(m), Sound(m),
         Assignable(m, DEREF(m, Var(v))), NEW k \in Keys, NEW x
  PROVE  LET z == Get(m, DEREF(m, Var(v)))
         IN  /\ Php!With(OldArray(t, z), k, x) = Php!With(Says(m, t, v), k, x)
             /\ Php!Inner(OldArray(t, z), k) = Php!Inner(Says(m, t, v), k)
             /\ Php!IsArray(OldArray(t, z))
<1> DEFINE z == Get(m, DEREF(m, Var(v)))
<1>1. CASE IsArr(z)
  <2>1. Read(m, v) = z
    BY <1>1, Undefined DEF Read
  <2>2. Says(m, t, v) = t[z[2]] /\ OldArray(t, z) = t[z[2]]
    BY <1>1, <2>1, ValueInCases DEF Says, OldArray
  <2>3. Points(m, z)
    BY <2>1, ReadGood
  <2>4. Php!IsArray(t[z[2]])
    BY <1>1, <2>3, ArrayIs DEF Points
  <2> QED BY <2>2, <2>4
<1>2. CASE ~IsArr(z)
  <2>1. z \in {UNDEF, NULL}
    BY <1>2 DEF Assignable
  <2>2. Read(m, v) = NULL
    BY <2>1 DEF Read
  <2>3. Says(m, t, v) = NULL
    BY <2>2, Undefined, ValueInCases DEF Says
  <2>4. OldArray(t, z) = Php!Empty
    BY <1>2 DEF OldArray
  <2>5. ~Php!IsArray(NULL)
    BY DEF Php!IsArray, NULL
  <2>6. Php!With(NULL, k, x) = Php!With(Php!Empty, k, x)
    BY <2>5, WithNew
  <2>7. Php!Inner(NULL, k) = Php!Inner(Php!Empty, k) /\ Php!IsArray(Php!Empty)
    BY <2>5 DEF Php!Inner, Php!Empty, Php!Array, Php!IsArray
  <2> QED BY <2>3, <2>4, <2>6, <2>7
<1> QED
  BY <1>1, <1>2

\* What the opcodes need to know of the array that is written.
LEMMA OwnFacts ==
  ASSUME NEW m, NEW y, Good(m, UNDEF, y), Unused(m) # {}, Proper(m), NEW v \in Vars,
         Assignable(m, DEREF(m, Var(v)))
  PROVE  LET p == DEREF(m, Var(v))
             own == ArrayAt(m, p)
             a == Get(own, p)[2]
         IN  /\ Good(own, UNDEF, y) /\ DEREF(own, Var(v)) = p
             /\ IsArr(Get(own, p))
             /\ a \in Cells \ {VarCell, Literal} /\ own[a].kind = "array" /\ Apart(own, a)
             /\ own[a].rc = 1
             /\ ~(IsArr(y) /\ y[2] = a)
<1> DEFINE p == DEREF(m, Var(v))
           own == ArrayAt(m, p)
           a == Get(own, p)[2]
<1>0. Shape(m) /\ Sound(m)
  BY DEF Good
<1>1. IsPlace(m, p) /\ p[1] # Literal /\ m[p[1]].kind # "array" /\ Assignable(m, p)
  BY <1>0, VarPlace, DerefPlace, Cell, VarTarget
<1>2. Good(own, UNDEF, y) /\ OwnAt(m, own, p)
  <2> HIDE DEF p
  <2> QED BY <1>1, ArrayAtGood
<1>3. Apart(own, a) /\ One(y, a) = 0 /\ own[a].rc = 1
  <2> HIDE DEF p
  <2>1. Apart(own, a) /\ One(y, a) = 0
    BY <1>1, OwnApart
  <2>2. own[a].rc = 1
    BY <1>1, ArrayAtTidy
  <2> QED BY <2>1, <2>2
<1> HIDE DEF own
<1>4. a \in Cells \ {VarCell, Literal} /\ own[a].kind = "array" /\ IsArr(Get(own, p))
  BY <1>2 DEF OwnAt
<1>5. ~(IsArr(y) /\ y[2] = a)
  BY <1>3, <1>4 DEF One, Refcounted
<1>6. DEREF(own, Var(v)) = p
  <2>1. CASE IsRef(Get(m, Var(v)))
    <3>1. p = <<Get(m, Var(v))[2], REFVAL>> /\ Get(m, Var(v))[2] # VarCell
      BY <1>0, <2>1, ReadIs, VarHolds
    <3>2. Var(v) # p
      BY <3>1 DEF Var
    <3>3. Get(own, Var(v)) = Get(m, Var(v))
      <4> HIDE DEF p
      <4>1. own[VarCell].at[v] = m[VarCell].at[v]
        BY <1>2, <3>2 DEF OwnAt
      <4>2. Shape(own)
        BY <1>2 DEF Good
      <4> QED BY <1>0, <4>1, <4>2, VarPlace
    <3> QED BY <3>3, Zenon DEF DEREF
  <2>2. CASE ~IsRef(Get(m, Var(v)))
    <3>1. p = Var(v)
      BY <2>2, ReadIs
    <3>2. ~IsRef(Get(own, Var(v)))
      BY <1>4, <3>1 DEF IsArr, IsRef
    <3> HIDE DEF p
    <3> QED BY <3>1, <3>2, ReadIs
  <2> QED BY <2>1, <2>2
<1> QED
  BY <1>2, <1>3, <1>4, <1>5, <1>6 DEF own

LEMMA StoreDimMeans ==
  ASSUME NEW m, NEW v \in Vars, NEW k \in Keys, NEW z, NEW owned \in BOOLEAN,
         Good(m, UNDEF, IF owned THEN z ELSE UNDEF), Unused(m) # {}, Proper(m),
         Assignable(m, DEREF(m, Var(v))), ~IsRef(z), z # UNDEF, NEW t, Valued(m, t),
         NEW own, own = ArrayAt(m, DEREF(m, Var(v))),
         owned \/ (Points(own, z) /\ ~(IsArr(z) /\ z[2] = Get(own, DEREF(m, Var(v)))[2])),
         NEW x, \A s : /\ Becomes(m, t, own, s, v, OldArray(t, Get(m, DEREF(m, Var(v)))))
                       /\ \A w : Points(m, w) => ValueIn(s, w) = ValueIn(t, w)
                       => ValueIn(s, z) = x
  PROVE  \E r : Becomes(m, t, StoreDim(m, DEREF(m, Var(v)), k, z, owned), r, v,
                        Php!With(Says(m, t, v), k, x))
<1> DEFINE p == DEREF(m, Var(v))
           a == Get(own, p)[2]
           y == IF owned THEN z ELSE UNDEF
           old == OldArray(t, Get(m, p))
<1>0. Shape(m) /\ Sound(m)
  BY DEF Good
<1>1. /\ Good(own, UNDEF, y) /\ DEREF(own, Var(v)) = p
      /\ IsArr(Get(own, p))
      /\ a \in Cells \ {VarCell, Literal} /\ own[a].kind = "array" /\ Apart(own, a)
      /\ own[a].rc = 1
      /\ ~(IsArr(y) /\ y[2] = a)
  BY OwnFacts
<1>2. PICK s : /\ Becomes(m, t, own, s, v, old)
               /\ \A w : Points(m, w) => ValueIn(s, w) = ValueIn(t, w)
  BY OwnMeans
<1>3. ValueIn(s, z) = x
  BY <1>2
<1>4. StoreDim(m, p, k, z, owned) = AssignTo(own, <<a, k>>, z, owned)
  BY DEF StoreDim
<1>5. \A u \in Vars : IsArr(Read(own, u)) /\ Read(own, u)[2] = a <=> u \in Same(own, v)
  <2>1. LET d == Get(own, DEREF(own, Var(v)))
        IN IsArr(d) /\ d[2] \in Cells \ {VarCell, Literal} /\ own[d[2]].rc = 1
    BY <1>1
  <2>2. Proper(own)
    BY <1>2 DEF Becomes
  <2> HIDE DEF p, y
  <2> QED BY <1>1, <2>1, <2>2, HeldByVar
<1>6. Points(own, z)
  BY <1>1 DEF Good
<1>7. ~(IsArr(z) /\ z[2] = a)
  BY <1>1
<1> DEFINE w == Php!With(s[a], k, ValueIn(s, z))
<1>8. PICK r : Becomes(own, s, AssignTo(own, <<a, k>>, z, owned), r, v, w)
  <2>1. Valued(own, s) /\ Proper(own) /\ Good(own, UNDEF, IF owned THEN z ELSE UNDEF)
    BY <1>1, <1>2 DEF Becomes
  <2> HIDE DEF a, p, y, old
  <2> QED BY <1>1, <1>5, <1>6, <1>7, <2>1, ElementMeans
<1>9. s[a] = old
  <2>1. v \in Same(own, v) /\ v \in Same(m, v)
    BY SameIs
  <2>2. ValueIn(s, Read(own, v)) = s[a]
    BY <1>5, <2>1, ValueInCases
  <2> HIDE DEF a, old
  <2> QED BY <1>2, <2>1, <2>2 DEF Becomes, Says
<1>10. w = Php!With(Says(m, t, v), k, x)
  <2>1. Php!With(old, k, x) = Php!With(Says(m, t, v), k, x)
    BY <1>0, OldWith
  <2> HIDE DEF a, old
  <2> QED BY <1>3, <1>9, <2>1
<1> HIDE DEF w, a, p, old
<1>11. Becomes(m, t, AssignTo(own, <<a, k>>, z, owned), r, v, w)
  BY <1>2, <1>8, BecomesTwice
<1> QED
  BY <1>4, <1>10, <1>11 DEF p

(***************************************************************************)
(* An element of an array in an array.                                     *)
(***************************************************************************)

LEMMA RewrittenIs ==
  ASSUME NEW t, DOMAIN t = Cells, NEW a \in Cells, NEW k, NEW x
  PROVE  LET s == Rewritten(t, a, k, x)
         IN  /\ DOMAIN s = Cells /\ s[a] = Php!With(t[a], k, x)
             /\ \A d \in Cells : d # a => s[d] = t[d]
BY DEF Rewritten

LEMMA PutApart ==
  ASSUME NEW m, Shape(m), NEW q, IsPlace(m, q), NEW a \in Cells, Apart(m, a), NEW z, z[2] # a
  PROVE  Apart(Put(m, q, z), a)
<1> DEFINE n == Put(m, q, z)
<1>1. /\ \A c \in Cells : n[c].kind = m[c].kind /\ DOMAIN n[c].at = DOMAIN m[c].at
      /\ \A c \in Cells : \A k \in DOMAIN m[c].at :
           n[c].at[k] = IF <<c, k>> = q THEN z ELSE m[c].at[k]
  BY PutView
<1> HIDE DEF n
<1> SUFFICES ASSUME NEW d \in Cells, Leads(n, d, a) PROVE FALSE
  BY DEF Apart, n
<1>2. PICK p : p[1] = d /\ Holder(n, p, a)
  BY DEF Leads
<1>3. n[d].kind = "array"
  BY DEF Leads
<1>4. IsPlace(m, p) /\ p = <<p[1], p[2]>> /\ p[1] \in Cells /\ p[2] \in DOMAIN m[p[1]].at
  BY <1>1, <1>2 DEF Holder, IsPlace, Places
<1>5. Get(n, p) = IF p = q THEN z ELSE Get(m, p)
  <2>1. n[p[1]].at[p[2]] = IF <<p[1], p[2]>> = q THEN z ELSE m[p[1]].at[p[2]]
    BY <1>1, <1>4
  <2> QED BY <1>4, <2>1, Zenon DEF Get
<1>6. p # q
  BY <1>2, <1>5 DEF Holder
<1>7. Holder(m, p, a)
  BY <1>2, <1>4, <1>5, <1>6 DEF Holder
<1> QED
  BY <1>1, <1>2, <1>3, <1>7 DEF Apart, Leads

\* An element points to b only at the place q.
LEMMA OnlyElement ==
  ASSUME NEW m, Shape(m), NEW b \in Cells \ {Literal}, NEW q, \A p : Holder(m, p, b) => p = q,
         NEW d \in Cells, m[d].kind = "array", NEW j \in Keys, <<d, j>> # q
  PROVE  ~(IsArr(m[d].at[j]) /\ m[d].at[j][2] = b)
<1> SUFFICES ASSUME IsArr(m[d].at[j]), m[d].at[j][2] = b PROVE FALSE
  OBVIOUS
<1>1. IsPlace(m, <<d, j>>)
  BY PlaceOf DEF Shape, CellShape
<1>2. Get(m, <<d, j>>) = m[d].at[j]
  BY DEF Get
<1>3. Holder(m, <<d, j>>, b)
  BY <1>1, <1>2 DEF Holder, Refcounted
<1> QED
  BY <1>3

\* The inner array has the new element, and so has the array that alone contains it.
LEMMA PutInner ==
  ASSUME NEW m, Shape(m), Sound(m), NEW a \in Cells \ {Literal}, NEW b \in Cells \ {Literal}, a # b,
         m[a].kind = "array", m[b].kind = "array", Apart(m, a), NEW k \in Keys, NEW l \in Keys,
         IsArr(m[a].at[k]), m[a].at[k][2] = b, \A p : Holder(m, p, b) => p = <<a, k>>,
         NEW z, ~IsArr(z), NEW t, Valued(m, t)
  PROVE  LET x == Php!With(t[b], l, ValueIn(t, z))
             s == Rewritten(Rewritten(t, b, l, ValueIn(t, z)), a, k, x)
         IN  /\ Valued(Put(m, <<b, l>>, z), s) /\ s[a] = Php!With(t[a], k, x)
             /\ \A y : Points(m, y) /\ ~(IsArr(y) /\ y[2] \in {a, b}) => ValueIn(s, y) = ValueIn(t, y)
<1> DEFINE n == Put(m, <<b, l>>, z)
           x == Php!With(t[b], l, ValueIn(t, z))
           r == Rewritten(t, b, l, ValueIn(t, z))
           s == Rewritten(r, a, k, x)
<1>0. DOMAIN m[a].at = Keys /\ DOMAIN m[b].at = Keys /\ DOMAIN t = Cells
  BY DEF Shape, CellShape, Valued
<1>1. \A d \in Cells : n[d].kind = m[d].kind /\ (d # b => n[d] = m[d])
  <2>1. IsPlace(m, <<b, l>>)
    BY <1>0, PlaceOf
  <2> QED BY <2>1, PutView
<1>2. n[b].at = [m[b].at EXCEPT ![l] = z]
  BY DEF Put, Shape, CellShape, Fields
<1>3. DOMAIN r = Cells /\ r[b] = x /\ \A d \in Cells : d # b => r[d] = t[d]
  BY <1>0, RewrittenIs
<1> HIDE DEF r, x
<1>4. DOMAIN s = Cells /\ s[a] = Php!With(t[a], k, x) /\ s[b] = x
      /\ \A d \in Cells : d \notin {a, b} => s[d] = t[d]
  <2>1. /\ DOMAIN s = Cells /\ s[a] = Php!With(r[a], k, x)
        /\ \A d \in Cells : d # a => s[d] = r[d]
    BY <1>3, RewrittenIs
  <2> HIDE DEF s
  <2> QED BY <1>3, <2>1
<1> HIDE DEF n, s
<1>5. \A y : Points(m, y) /\ ~(IsArr(y) /\ y[2] \in {a, b}) => ValueIn(s, y) = ValueIn(t, y)
  <2> TAKE y
  <2>1. CASE IsArr(y)
    BY <1>4, <2>1, ValueInCases DEF Points
  <2>2. CASE ~IsArr(y)
    BY <2>2, ValueInCases
  <2> QED BY <2>1, <2>2
<1>6. ASSUME NEW d \in Cells, m[d].kind = "array", NEW j \in Keys, <<d, j>> # <<a, k>>
      PROVE  ValueIn(s, m[d].at[j]) = ValueIn(t, m[d].at[j])
  <2>1. Points(m, m[d].at[j])
    BY <1>6 DEF Sound, Shape, CellShape
  <2>2. ~(IsArr(m[d].at[j]) /\ m[d].at[j][2] = a)
    BY <1>6, ApartElement
  <2>3. ~(IsArr(m[d].at[j]) /\ m[d].at[j][2] = b)
    BY <1>6, OnlyElement
  <2> QED
    BY <1>5, <2>1, <2>2, <2>3
<1>7. ASSUME NEW d \in Cells, d \notin {a, b}
      PROVE  s[d] = IF n[d].kind = "array" THEN <<"array", [j \in Keys |-> ValueIn(s, n[d].at[j])]>>
                    ELSE NULL
  <2>1. CASE n[d].kind # "array"
    BY <1>1, <1>4, <1>7, <2>1 DEF Valued
  <2>2. CASE n[d].kind = "array"
    <3>1. n[d] = m[d] /\ m[d].kind = "array" /\ s[d] = t[d]
      BY <1>1, <1>4, <1>7, <2>2
    <3>2. t[d] = <<"array", [j \in Keys |-> ValueIn(t, m[d].at[j])]>>
      BY <3>1, ArrayIs
    <3>3. [j \in Keys |-> ValueIn(s, m[d].at[j])] = [j \in Keys |-> ValueIn(t, m[d].at[j])]
      BY <1>6, <1>7, <3>1
    <3> QED
      BY <2>2, <3>1, <3>2, <3>3
  <2> QED BY <2>1, <2>2
<1>8. s[b] = <<"array", [j \in Keys |-> ValueIn(s, n[b].at[j])]>>
  <2> DEFINE f == [j \in Keys |-> ValueIn(t, m[b].at[j])]
  <2>1. t[b] = <<"array", f>>
    BY ArrayIs
  <2>2. s[b] = <<"array", [f EXCEPT ![l] = ValueIn(t, z)]>>
    <3> HIDE DEF f
    <3> QED BY <1>4, <2>1, WithOf DEF x
  <2>3. ASSUME NEW j \in Keys
        PROVE  [f EXCEPT ![l] = ValueIn(t, z)][j] = ValueIn(s, n[b].at[j])
    <3>1. CASE j = l
      <4>1. n[b].at[j] = z
        BY <1>0, <1>2, <3>1
      <4>2. ValueIn(s, z) = ValueIn(t, z)
        BY ValueInCases
      <4> QED
        BY <3>1, <4>1, <4>2
    <3>2. CASE j # l
      <4>1. n[b].at[j] = m[b].at[j]
        BY <1>0, <1>2, <3>2
      <4> QED
        BY <1>6, <3>2, <4>1
    <3> QED BY <3>1, <3>2
  <2>4. [f EXCEPT ![l] = ValueIn(t, z)] = [j \in Keys |-> ValueIn(s, n[b].at[j])]
    BY <2>3
  <2> QED
    BY <2>2, <2>4
<1>9. s[a] = <<"array", [j \in Keys |-> ValueIn(s, n[a].at[j])]>>
  <2> DEFINE f == [j \in Keys |-> ValueIn(t, m[a].at[j])]
  <2>1. t[a] = <<"array", f>> /\ n[a] = m[a]
    BY <1>1, ArrayIs
  <2>2. s[a] = <<"array", [f EXCEPT ![k] = x]>>
    <3> HIDE DEF f
    <3> QED BY <1>4, <2>1, WithOf
  <2>3. ASSUME NEW j \in Keys
        PROVE  [f EXCEPT ![k] = x][j] = ValueIn(s, m[a].at[j])
    <3>1. CASE j = k
      <4>1. ValueIn(s, m[a].at[k]) = s[b]
        BY ValueInCases
      <4> QED
        BY <1>4, <3>1, <4>1
    <3>2. CASE j # k
      <4>1. <<a, j>> # <<a, k>>
        BY <3>2
      <4> QED
        BY <1>6, <3>2, <4>1
    <3> QED BY <3>1, <3>2
  <2>4. [f EXCEPT ![k] = x] = [j \in Keys |-> ValueIn(s, n[a].at[j])]
    BY <2>1, <2>3
  <2> QED
    BY <2>2, <2>4
<1>10. Valued(n, s)
  <2>1. n[a].kind = "array" /\ n[b].kind = "array"
    BY <1>1
  <2> QED
    BY <1>4, <1>7, <1>8, <1>9, <2>1, Zenon DEF Valued
<1> QED
  BY <1>4, <1>5, <1>10 DEF n, s, x, r

\* A scalar is stored in an array that is held by an element alone.
LEMMA InnerElementMeans ==
  ASSUME NEW m, Good(m, UNDEF, UNDEF), Proper(m), NEW t, Valued(m, t), NEW v \in Vars,
         NEW a \in Cells \ {VarCell, Literal}, NEW b \in Cells \ {VarCell, Literal},
         m[a].kind = "array", m[b].kind = "array", m[b].rc = 1, Apart(m, a),
         NEW k \in Keys, NEW l \in Keys, IsArr(m[a].at[k]), m[a].at[k][2] = b,
         \A u \in Vars : IsArr(Read(m, u)) /\ Read(m, u)[2] = a <=> u \in Same(m, v),
         NEW z, ~IsArr(z), ~IsRef(z), z # UNDEF
  PROVE  \E r : Becomes(m, t, AssignTo(m, <<b, l>>, z, TRUE), r, v,
                        Php!With(t[a], k, Php!With(t[b], l, ValueIn(t, z))))
<1> DEFINE q == <<b, l>>
           n == Put(m, q, z)
           o == Release(n, Get(m, q))
           x == Php!With(t[b], l, ValueIn(t, z))
           s == Rewritten(Rewritten(t, b, l, ValueIn(t, z)), a, k, x)
<1>0. Shape(m) /\ Sound(m) /\ ~Refcounted(z) /\ ~Refcounted(UNDEF)
  BY Undefined DEF Good, Refcounted
<1>1. IsPlace(m, q) /\ ~IsRef(Get(m, q)) /\ q[1] = b
  <2>1. l \in DOMAIN m[b].at
    BY <1>0 DEF Shape, CellShape
  <2> QED BY <1>0, <2>1, PlaceOf DEF Sound, Get
<1>2. AssignTo(m, q, z, TRUE) = o
  <2>1. DEREF(m, q) = q
    BY <1>1 DEF DEREF
  <2> QED BY <2>1 DEF AssignTo
<1>3. \A p : Holder(m, p, b) => p = <<a, k>>
  <2>1. IsPlace(m, <<a, k>>) /\ Get(m, <<a, k>>) = m[a].at[k]
    BY <1>0, PlaceOf DEF Shape, CellShape, Get
  <2>2. Holder(m, <<a, k>>, b)
    BY <2>1 DEF Holder, Refcounted
  <2> QED BY <2>2, HeldAtOne
<1>4. a # b
  <2>1. k \in DOMAIN m[a].at
    BY <1>0 DEF Shape, CellShape
  <2> QED BY <1>0, ApartElement
<1>5. /\ Valued(n, s) /\ s[a] = Php!With(t[a], k, x)
      /\ \A y : Points(m, y) /\ ~(IsArr(y) /\ y[2] \in {a, b}) => ValueIn(s, y) = ValueIn(t, y)
  BY <1>0, <1>3, <1>4, PutInner
<1>6. /\ \A u \in Vars : Get(n, Var(u)) = Get(m, Var(u)) /\ Read(n, u) = Read(m, u)
      /\ \A u \in Vars : Same(n, u) = Same(m, u)
      /\ Proper(m) => Proper(n)
      /\ \A d \in Cells : n[d].kind = m[d].kind /\ (d # b => n[d] = m[d])
      /\ n[b].at = [m[b].at EXCEPT ![l] = z]
  BY <1>0, PutElementVars
<1>7. ASSUME NEW u \in Vars PROVE ~(IsArr(Read(m, u)) /\ Read(m, u)[2] = b)
  <2> SUFFICES ASSUME IsArr(Read(m, u)), Read(m, u)[2] = b PROVE FALSE
    OBVIOUS
  <2>1. Get(m, DEREF(m, Var(u))) = Read(m, u)
    BY Undefined DEF Read
  <2>2. Holder(m, DEREF(m, Var(u)), b)
    <3>1. IsPlace(m, DEREF(m, Var(u)))
      BY <1>0, VarPlace, DerefPlace, Cell
    <3> QED BY <2>1, <3>1 DEF Holder, Refcounted
  <2>3. DEREF(m, Var(u)) = <<a, k>>
    BY <1>3, <2>2
  <2> QED BY <1>0, <2>3, VarTarget
<1>8. Good(n, UNDEF, Get(m, q))
  <2>1. q[1] # Literal /\ m[q[1]].kind # "ref" /\ Good(m, UNDEF, z)
    BY <1>0, <1>1, Uncounted
  <2> HIDE DEF q
  <2> QED BY <1>1, <2>1, PutGood
<1> HIDE DEF n, s, x, q
<1>9. Becomes(m, t, n, s, v, s[a])
  <2>1. ASSUME NEW u \in Vars
        PROVE  Says(n, s, u) = IF u \in Same(m, v) THEN s[a] ELSE Says(m, t, u)
    <3>1. CASE u \in Same(m, v)
      <4>1. IsArr(Read(n, u)) /\ Read(n, u)[2] = a
        BY <1>6, <3>1
      <4> QED BY <3>1, <4>1, ValueInCases DEF Says
    <3>2. CASE u \notin Same(m, v)
      <4>1. ~(IsArr(Read(m, u)) /\ Read(m, u)[2] \in {a, b}) /\ Points(m, Read(m, u))
        BY <1>0, <1>7, <3>2, ReadGood
      <4>2. ValueIn(s, Read(m, u)) = ValueIn(t, Read(m, u))
        BY <1>5, <4>1
      <4> QED BY <1>6, <3>2, <4>2 DEF Says
    <3> QED BY <3>1, <3>2
  <2> QED BY <1>5, <1>6, <2>1 DEF Becomes
<1>10. Valued(o, Trim(o, s)) /\ Alike(n, s, o, Trim(o, s))
  BY <1>5, <1>8, ReleaseAlike
<1> HIDE DEF o
<1>11. Becomes(m, t, o, Trim(o, s), v, s[a])
  BY <1>9, <1>10, BecomesAlike
<1> QED
  BY <1>2, <1>5, <1>11 DEF q, x

\* The element has the array that is written to, which is worth what it was, or empty.
LEMMA ElementOwn ==
  ASSUME NEW m, Good(m, UNDEF, UNDEF), Unused(m) # {}, Proper(m), NEW t, Valued(m, t), NEW v \in Vars,
         NEW a \in Cells \ {VarCell, Literal}, m[a].kind = "array", Apart(m, a),
         NEW k \in Keys, Assignable(m, <<a, k>>),
         \A u \in Vars : IsArr(Read(m, u)) /\ Read(m, u)[2] = a <=> u \in Same(m, v)
  PROVE  LET own == ArrayAt(m, <<a, k>>)
             old == OldArray(t, Get(m, <<a, k>>))
         IN  /\ own[a].kind = "array" /\ Apart(own, a)
             /\ \A u \in Vars : IsArr(Read(own, u)) /\ Read(own, u)[2] = a <=> u \in Same(own, v)
             /\ \E s : /\ Becomes(m, t, own, s, v, Php!With(t[a], k, old))
                       /\ s[a] = Php!With(t[a], k, old)
                       /\ s[Get(own, <<a, k>>)[2]] = old
<1> DEFINE q == <<a, k>>
           c == NewCell(m)
           z == Get(m, q)
           old == OldArray(t, z)
<1>0. Shape(m) /\ Sound(m)
  BY DEF Good
<1>1. IsPlace(m, q) /\ q[1] # Literal /\ z = m[a].at[k]
  <2>1. k \in DOMAIN m[a].at
    BY <1>0 DEF Shape, CellShape
  <2> QED BY <1>0, <2>1, PlaceOf DEF Get
<1>2. CASE IsArr(z) /\ ArrayAt(m, q) = m
  <2> DEFINE f == [j \in Keys |-> ValueIn(t, m[a].at[j])]
  <2>1. t[a] = <<"array", f>>
    BY ArrayIs
  <2>2. old = t[z[2]] /\ f[k] = t[z[2]]
    BY <1>1, <1>2, ValueInCases DEF OldArray
  <2>3. [f EXCEPT ![k] = f[k]] = f
    OBVIOUS
  <2> HIDE DEF f
  <2>4. Php!With(t[a], k, old) = t[a]
    BY <2>1, <2>2, <2>3, WithOf
  <2>5. Becomes(m, t, m, t, v, t[a])
    <3>1. \A u \in Same(m, v) : u \in Vars /\ Says(m, t, u) = t[a]
      BY ValueInCases DEF Says, Same
    <3> QED BY <3>1 DEF Becomes
  <2> QED
    BY <1>2, <2>2, <2>4, <2>5
<1>3. ASSUME NEW n, NewAt(m, n, UNDEF, q), ArrayAt(m, q) = Drop(Put(n, q, ARR(c)), z)
      PROVE  LET own == ArrayAt(m, q)
             IN  /\ own[a].kind = "array" /\ Apart(own, a)
                 /\ \A u \in Vars : IsArr(Read(own, u)) /\ Read(own, u)[2] = a <=> u \in Same(own, v)
                 /\ \E s : /\ Becomes(m, t, own, s, v, Php!With(t[a], k, old))
                           /\ s[a] = Php!With(t[a], k, old)
                           /\ s[Get(own, q)[2]] = old
  <2>1. PICK s : /\ Valued(n, s) /\ Alike(m, t, n, s)
                 /\ \A x : Points(m, x) => ValueIn(s, x) = ValueIn(t, x)
                 /\ s[c] = old
    BY <1>3 DEF NewAt
  <2>2. c \in Cells \ {VarCell, Literal} /\ m[c].kind = "free" /\ c # a
    BY <1>0, NewCellFree
  <2>3. /\ Good(n, UNDEF, ARR(c)) /\ Shape(n) /\ Sound(n) /\ Proper(n)
        /\ IsPlace(n, q) /\ Get(n, q) = z /\ Apart(n, a) /\ n[a].kind = "array"
        /\ Points(n, ARR(c))
    BY <1>1, <1>3, <2>1, <2>2 DEF NewAt, Good, Alike
  <2>4. \A u \in Vars : Read(n, u) = Read(m, u) /\ Same(n, u) = Same(m, u)
    <3>1. \A d \in Cells : d # c => n[d].kind = m[d].kind /\ n[d].at = m[d].at
      BY <1>3 DEF NewAt
    <3> HIDE DEF c
    <3> QED BY <1>0, <2>2, <3>1, ExtendedVars
  <2> DEFINE o == Put(n, q, ARR(c))
             r == Rewritten(s, a, k, ValueIn(s, ARR(c)))
             own == Drop(o, z)
  <2>5. ~IsRef(ARR(c)) /\ ARR(c) # UNDEF /\ IsArr(ARR(c)) /\ ARR(c)[2] = c
    BY Undefined
  <2>6. ValueIn(s, ARR(c)) = old
    BY <2>1, <2>5, ValueInCases
  <2>7. s[a] = t[a]
    <3>1. Points(m, ARR(a)) /\ ValueIn(s, ARR(a)) = s[a] /\ ValueIn(t, ARR(a)) = t[a]
      BY Undefined, ValueInCases DEF Points
    <3> QED BY <2>1, <3>1
  <2>8. \A u \in Vars : IsArr(Read(n, u)) /\ Read(n, u)[2] = a <=> u \in Same(n, v)
    BY <2>4
  <2>9. Becomes(n, s, o, r, v, Php!With(s[a], k, ValueIn(s, ARR(c))))
    <3> HIDE DEF c
    <3> QED BY <2>1, <2>2, <2>3, <2>5, <2>8, PutElementBecomes
  <2>10. /\ \A u \in Vars : Get(o, Var(u)) = Get(n, Var(u)) /\ Read(o, u) = Read(n, u)
         /\ \A u \in Vars : Same(o, u) = Same(n, u)
         /\ Proper(n) => Proper(o)
         /\ \A d \in Cells : o[d].kind = n[d].kind /\ (d # a => o[d] = n[d])
         /\ o[a].at = [n[a].at EXCEPT ![k] = ARR(c)]
    BY <2>3, PutElementVars
  <2>11. Apart(o, a)
    <3> HIDE DEF q, c
    <3> QED BY <2>2, <2>3, <2>5, PutApart
  <2>12. r[a] = Php!With(s[a], k, ValueIn(s, ARR(c))) /\ r[c] = s[c]
    <3>1. DOMAIN s = Cells
      BY <2>1 DEF Valued
    <3> HIDE DEF c
    <3> QED BY <2>2, <3>1, RewrittenIs
  <2>13. Good(o, UNDEF, z) /\ Get(o, q) = ARR(c) /\ IsPlace(o, q)
    <3>1. q[1] # Literal /\ n[q[1]].kind # "ref" /\ ~IsRef(ARR(c))
      BY <2>3, <2>5
    <3> HIDE DEF q, c, o
    <3>2. Good(o, UNDEF, z) /\ Get(o, q) = ARR(c)
      BY <1>1, <2>3, <3>1, PutGood, PutView DEF o
    <3>3. IsPlace(o, q)
      BY <2>3, PutView DEF o, IsPlace, Places
    <3> QED BY <3>2, <3>3
  <2> HIDE DEF o, r, q, z, c
  <2>14. Shape(o) /\ Sound(o) /\ SameButCounts(o, own)
    BY <2>13, DropGood DEF Good
  <2> HIDE DEF own
  <2>15. /\ \A u \in Vars : Read(own, u) = Read(o, u) /\ Same(own, u) = Same(o, u)
         /\ Valued(own, r) /\ Alike(o, r, own, r)
         /\ Get(own, q) = ARR(c) /\ own[a].kind = "array"
    <3>1. \A u \in Vars : /\ Get(own, Var(u)) = Get(o, Var(u)) /\ Read(own, u) = Read(o, u)
                          /\ Same(own, u) = Same(o, u) /\ DEREF(own, Var(u)) = DEREF(o, Var(u))
      BY <2>14, CountsMean
    <3>2. Valued(own, r) /\ Alike(o, r, own, r)
      BY <2>9, <2>14, CountsAlike DEF Becomes
    <3>3. Get(own, q) = ARR(c)
      BY <2>13, <2>14, Recounted
    <3>4. own[a].kind = "array"
      BY <2>3, <2>10, <2>14 DEF SameButCounts
    <3> QED BY <3>1, <3>2, <3>3, <3>4
  <2>16. Apart(own, a)
    BY <2>11, <2>14, CountsFewer DEF Fewer, Apart
  <2>17. Becomes(m, t, own, r, v, Php!With(t[a], k, old))
    <3>1. Becomes(n, s, o, r, v, Php!With(t[a], k, old))
      BY <2>6, <2>7, <2>9
    <3> HIDE DEF old
    <3>2. Becomes(n, s, own, r, v, Php!With(t[a], k, old))
      BY <2>15, <3>1, BecomesAlike
    <3> QED BY <2>1, <3>2, AlikeBecomes
  <2>18. \A u \in Vars : IsArr(Read(own, u)) /\ Read(own, u)[2] = a <=> u \in Same(own, v)
    BY <2>8, <2>10, <2>15
  <2>19. r[a] = Php!With(t[a], k, old) /\ r[Get(own, q)[2]] = old
    BY <2>1, <2>5, <2>6, <2>7, <2>12, <2>15
  <2> QED
    BY <1>3, <2>15, <2>16, <2>17, <2>18, <2>19 DEF own, o
<1>4. \/ IsArr(z) /\ ArrayAt(m, q) = m
      \/ \E n : /\ NewAt(m, n, UNDEF, q)
                /\ ArrayAt(m, q) = Drop(Put(n, q, ARR(c)), z)
  <2> HIDE DEF q
  <2> QED BY <1>1, ArrayAtIs DEF q
<1> QED
  BY <1>2, <1>3, <1>4

\* $v[k][l] = z;
LEMMA StoreInnerMeans ==
  ASSUME NEW m, Good(m, UNDEF, UNDEF), Unused(m) # {}, Proper(m), NEW t, Valued(m, t),
         NEW v \in Vars, NEW k \in Keys, NEW l \in Keys, NEW z, ~IsArr(z), ~IsRef(z), z # UNDEF,
         Assignable(m, DEREF(m, Var(v))),
         NEW own, own = ArrayAt(m, DEREF(m, Var(v))), Unused(own) # {},
         NEW q, q = <<Get(own, DEREF(m, Var(v)))[2], k>>, Assignable(own, q)
  PROVE  \E r : Becomes(m, t, StoreDim(own, q, l, z, TRUE), r, v,
                        Php!With(Says(m, t, v), k, Php!With(Php!Inner(Says(m, t, v), k), l, ValueIn(t, z))))
<1> DEFINE p == DEREF(m, Var(v))
           a == Get(own, p)[2]
           top == OldArray(t, Get(m, p))
           o == ArrayAt(own, q)
           b == Get(o, q)[2]
<1>0. Shape(m) /\ Sound(m)
  BY DEF Good
<1>1. /\ Good(own, UNDEF, UNDEF) /\ DEREF(own, Var(v)) = p
      /\ IsArr(Get(own, p))
      /\ a \in Cells \ {VarCell, Literal} /\ own[a].kind = "array" /\ Apart(own, a)
      /\ own[a].rc = 1
      /\ ~(IsArr(UNDEF) /\ UNDEF[2] = a)
  BY OwnFacts
<1>2. PICK s : /\ Becomes(m, t, own, s, v, top)
               /\ \A w : Points(m, w) => ValueIn(s, w) = ValueIn(t, w)
  BY OwnMeans
<1>3. Valued(own, s) /\ Proper(own) /\ Shape(own) /\ Sound(own)
  BY <1>1, <1>2 DEF Becomes, Good
<1>4. \A u \in Vars : IsArr(Read(own, u)) /\ Read(own, u)[2] = a <=> u \in Same(own, v)
  <2>1. LET d == Get(own, DEREF(own, Var(v)))
        IN IsArr(d) /\ d[2] \in Cells \ {VarCell, Literal} /\ own[d[2]].rc = 1
    BY <1>1
  <2> HIDE DEF p
  <2> QED BY <1>1, <1>3, <2>1, HeldByVar
<1>5. s[a] = top
  <2>1. v \in Same(own, v) /\ v \in Same(m, v)
    BY SameIs
  <2>2. ValueIn(s, Read(own, v)) = s[a]
    BY <1>4, <2>1, ValueInCases
  <2> HIDE DEF a, top
  <2> QED BY <1>2, <2>1, <2>2 DEF Becomes, Says
<1> HIDE DEF a, p
<1>6. q = <<a, k>>
  BY DEF a, p
<1> DEFINE old == OldArray(s, Get(own, q))
<1>7. /\ o[a].kind = "array" /\ Apart(o, a)
      /\ \A u \in Vars : IsArr(Read(o, u)) /\ Read(o, u)[2] = a <=> u \in Same(o, v)
      /\ \E r : /\ Becomes(own, s, o, r, v, Php!With(s[a], k, old))
                /\ r[a] = Php!With(s[a], k, old)
                /\ r[b] = old
  BY <1>1, <1>3, <1>4, <1>6, ElementOwn
<1>8. PICK r : /\ Becomes(own, s, o, r, v, Php!With(s[a], k, old))
               /\ r[a] = Php!With(s[a], k, old)
               /\ r[b] = old
  BY <1>7
<1>9. IsPlace(own, q) /\ q[1] = a /\ a # Literal
  <2>1. k \in DOMAIN own[a].at
    BY <1>1, <1>3 DEF Shape, CellShape
  <2> QED BY <1>1, <1>3, <1>6, <2>1, PlaceOf
<1>10. Good(o, UNDEF, UNDEF) /\ OwnAt(own, o, q) /\ o[b].rc = 1
  BY <1>1, <1>9, ArrayAtGood, ArrayAtTidy
<1> HIDE DEF o
<1>11. b \in Cells \ {VarCell, Literal} /\ o[b].kind = "array" /\ IsArr(o[a].at[k]) /\ o[a].at[k][2] = b
  <2>1. Get(o, q) = o[a].at[k]
    BY <1>6 DEF Get
  <2>2. b \in Cells \ {VarCell, Literal} /\ o[b].kind = "array" /\ IsArr(Get(o, q))
    BY <1>10 DEF OwnAt
  <2> QED BY <2>1, <2>2
<1>12. StoreDim(own, q, l, z, TRUE) = AssignTo(o, <<b, l>>, z, TRUE)
  BY DEF StoreDim, o
<1> HIDE DEF b, old, top
<1>13. PICK d : Becomes(o, r, AssignTo(o, <<b, l>>, z, TRUE), d, v,
                        Php!With(r[a], k, Php!With(r[b], l, ValueIn(r, z))))
  <2>1. Proper(o) /\ Valued(o, r)
    BY <1>8 DEF Becomes
  <2> QED BY <1>1, <1>7, <1>10, <1>11, <2>1, InnerElementMeans
<1>14. Becomes(m, t, o, r, v, Php!With(s[a], k, old))
  BY <1>2, <1>8, BecomesTwice
<1>15. Becomes(m, t, AssignTo(o, <<b, l>>, z, TRUE), d, v,
               Php!With(r[a], k, Php!With(r[b], l, ValueIn(r, z))))
  BY <1>13, <1>14, BecomesTwice
<1>16. Php!With(r[a], k, Php!With(r[b], l, ValueIn(r, z)))
       = Php!With(Says(m, t, v), k, Php!With(Php!Inner(Says(m, t, v), k), l, ValueIn(t, z)))
  <2> DEFINE x == Php!With(Php!Inner(Says(m, t, v), k), l, ValueIn(t, z))
  <2>1. /\ Php!With(top, k, x) = Php!With(Says(m, t, v), k, x)
        /\ Php!Inner(top, k) = Php!Inner(Says(m, t, v), k)
        /\ Php!IsArray(top)
    BY <1>0, OldWith DEF top, p
  <2>2. ValueIn(r, z) = ValueIn(t, z)
    BY ValueInCases
  <2> DEFINE f == [j \in Keys |-> ValueIn(s, own[a].at[j])]
  <2>3. top = <<"array", f>>
    <3>1. a \in Cells
      BY <1>1
    <3>2. s[a] = <<"array", f>>
      BY <1>1, <1>3, <3>1, ArrayIs
    <3> QED BY <1>5, <3>2
  <2>4. Php!Inner(top, k) = ValueIn(s, Get(own, q))
    <3>1. f[k] = ValueIn(s, Get(own, q))
      BY <1>6 DEF Get
    <3> HIDE DEF f
    <3> QED BY <2>3, <3>1, WithOf
  <2>5. Php!With(old, l, ValueIn(t, z)) = Php!With(Php!Inner(top, k), l, ValueIn(t, z))
    <3>1. CASE IsArr(Get(own, q))
      BY <2>4, <3>1, ValueInCases DEF old, OldArray
    <3>2. CASE ~IsArr(Get(own, q))
      <4>1. Get(own, q) \in {UNDEF, NULL}
        BY <3>2 DEF Assignable
      <4>2. ValueIn(s, Get(own, q)) \in {Php!Absent, NULL}
        BY <4>1, Undefined, ValueInCases
      <4>3. ~Php!IsArray(Php!Inner(top, k))
        BY <2>4, <4>2 DEF Php!IsArray, Php!Absent, NULL
      <4>4. old = Php!Empty
        BY <3>2 DEF old, OldArray
      <4> QED BY <4>3, <4>4, WithNew
    <3> QED BY <3>1, <3>2
  <2>6. Php!With(Php!With(top, k, old), k, x) = Php!With(top, k, x)
    <3> HIDE DEF f, x
    <3>1. Php!With(top, k, old) = <<"array", [f EXCEPT ![k] = old]>> /\ Php!With(top, k, x) = <<"array", [f EXCEPT ![k] = x]>>
      BY <2>3, WithOf
    <3>2. Php!With(<<"array", [f EXCEPT ![k] = old]>>, k, x) = <<"array", [[f EXCEPT ![k] = old] EXCEPT ![k] = x]>>
      BY WithOf
    <3>3. [[f EXCEPT ![k] = old] EXCEPT ![k] = x] = [f EXCEPT ![k] = x]
      OBVIOUS
    <3> QED BY <3>1, <3>2, <3>3
  <2>7. Php!With(r[b], l, ValueIn(r, z)) = x
    BY <1>8, <2>1, <2>2, <2>5
  <2>8. r[a] = Php!With(top, k, old)
    BY <1>5, <1>8
  <2> HIDE DEF x
  <2> QED BY <2>1, <2>6, <2>7, <2>8 DEF x
<1> QED
  BY <1>12, <1>15, <1>16

(***************************************************************************)
(* References, variables that are unset, copies.                           *)
(***************************************************************************)

\* v becomes a reference to what w is.
Linked(m, t, n, s, v, w) ==
  /\ Valued(n, s) /\ Proper(n)
  /\ \A u \in Vars :
       /\ Says(n, s, u) = IF u = v THEN Says(m, t, w) ELSE Says(m, t, u)
       /\ Same(n, u) = IF u \in Same(m, w) \cup {v} THEN Same(m, w) \cup {v} ELSE Same(m, u) \ {v}

\* The variables in gone are unset.
Cleared(m, t, n, s, gone) ==
  /\ Valued(n, s) /\ Proper(n)
  /\ \A u \in Vars :
       /\ Says(n, s, u) = IF u \in gone THEN Php!Null ELSE Says(m, t, u)
       /\ Same(n, u) = IF u \in gone THEN {u} ELSE Same(m, u) \ gone

LEMMA LinkedAlike ==
  ASSUME NEW m, NEW t, NEW n, NEW s, NEW v, NEW w, Linked(m, t, n, s, v, w),
         NEW o, NEW r, Valued(o, r), Alike(n, s, o, r)
  PROVE  Linked(m, t, o, r, v, w)
BY Zenon DEF Linked, Alike

LEMMA AlikeLinked ==
  ASSUME NEW m, NEW t, NEW n, NEW s, Alike(m, t, n, s), NEW v, NEW w \in Vars,
         NEW o, NEW r, Linked(n, s, o, r, v, w)
  PROVE  Linked(m, t, o, r, v, w)
BY DEF Linked, Alike

LEMMA ClearedAlike ==
  ASSUME NEW m, NEW t, NEW n, NEW s, NEW gone, Cleared(m, t, n, s, gone),
         NEW o, NEW r, Valued(o, r), Alike(n, s, o, r)
  PROVE  Cleared(m, t, o, r, gone)
BY Zenon DEF Cleared, Alike

\* ZVAL_MAKE_REF_EX is not seen.
LEMMA MakeRefAlike ==
  ASSUME NEW m, Good(m, UNDEF, UNDEF), Unused(m) # {}, NEW v \in Vars, NEW t, Valued(m, t)
  PROVE  LET n == MAKE_REF(m, Var(v))
         IN  \E s : Valued(n, s) /\ Alike(m, t, n, s)
<1>0. Shape(m) /\ Sound(m)
  BY DEF Good
<1>1. CASE IsRef(Get(m, Var(v)))
  <2>1. MAKE_REF(m, Var(v)) = m
    BY <1>1 DEF MAKE_REF
  <2> QED BY <2>1 DEF Alike
<1>2. CASE ~IsRef(Get(m, Var(v)))
  <2> DEFINE c == NewCell(m)
             z == IF Get(m, Var(v)) = UNDEF THEN NULL ELSE Get(m, Var(v))
             x == [kind |-> "ref", rc |-> 1, at |-> [i \in {REFVAL} |-> z]]
             l == AddCell(m, x)
             n == Put(l, Var(v), REF(c))
  <2>1. MAKE_REF(m, Var(v)) = n
    BY <1>2 DEF MAKE_REF, AddCell
  <2>2. c \in Cells \ {VarCell, Literal} /\ m[c].kind = "free"
    BY <1>0, NewCellFree
  <2>3. IsNewCell(x) /\ x.kind = "ref" /\ x.at[REFVAL] = z /\ DOMAIN x.at = {REFVAL}
    BY DEF IsNewCell, Fields
  <2>4. z = Read(m, v) /\ Points(m, z) /\ ~IsRef(z) /\ z # UNDEF
    BY <1>0, <1>2, ReadIs, ReadGood
  <2> HIDE DEF x, z
  <2>5. /\ Shape(l) /\ l[c] = x
        /\ \A d \in Cells : d # c => l[d] = m[d]
        /\ \A y : Points(m, y) => Points(l, y)
    BY <1>0, <2>3, AddCellView
  <2> HIDE DEF l, c
  <2>6. Sound(l)
    <3> SUFFICES ASSUME NEW d \in Cells, NEW k \in DOMAIN l[d].at
                 PROVE  /\ Points(l, l[d].at[k])
                        /\ d # VarCell => ~IsRef(l[d].at[k])
                        /\ l[d].kind = "ref" => l[d].at[k] # UNDEF
      BY DEF Sound
    <3>1. CASE d = c
      BY <2>3, <2>4, <2>5, <3>1
    <3>2. CASE d # c
      <4>1. l[d] = m[d]
        BY <2>5, <3>2
      <4> QED BY <1>0, <2>5, <4>1 DEF Sound
    <3> QED BY <3>1, <3>2
  <2>7. \A d \in Cells : d # c => l[d].kind = m[d].kind /\ l[d].at = m[d].at
    BY <2>5
  <2>8. l[c].kind # "array" /\ l[c].at[REFVAL] = z
    BY <2>3, <2>5
  <2>9. PICK s : Valued(l, s) /\ Alike(m, t, l, s) /\ \A y : Points(m, y) => ValueIn(s, y) = ValueIn(t, y)
    BY <1>0, <2>2, <2>5, <2>7, <2>8, ExtendedSame
  <2>10. /\ \A u \in Vars : /\ Get(l, Var(u)) = Get(m, Var(u)) /\ Read(l, u) = Read(m, u)
                            /\ Same(l, u) = Same(m, u) /\ DEREF(l, Var(u)) = DEREF(m, Var(u))
         /\ Proper(m) => Proper(l)
    BY <1>0, <2>2, <2>7, ExtendedVars
  <2>11. /\ \A u \in Vars : Get(n, Var(u)) = IF u = v THEN REF(c) ELSE Get(l, Var(u))
         /\ \A d \in Cells : d # VarCell => n[d] = l[d]
         /\ \A u \in Vars \ {v} : Read(n, u) = Read(l, u)
    BY <2>5, <2>6, PutVarGets
  <2>12. Valued(n, s)
    <3>1. IsPlace(l, Var(v)) /\ l[Var(v)[1]].kind # "array"
      BY <2>5, VarPlace, Cell DEF Shape, CellShape
    <3> QED BY <2>5, <2>9, <3>1, PutValued
  <2>13. IsRef(REF(c)) /\ REF(c)[2] = c
    BY Undefined
  <2> HIDE DEF n
  <2>14. Read(n, v) = Read(m, v)
    <3>1. n[c] = l[c]
      BY <2>2, <2>11
    <3> QED BY <2>4, <2>8, <2>11, <2>13, <3>1, ReadIs
  <2>15. \A u \in Vars : ~(IsRef(Get(m, Var(u))) /\ Get(m, Var(u))[2] = c)
    BY <1>0, <2>2, VarHolds
  <2>16. \A u \in Vars : Get(m, Var(u)) # REF(c)
    BY <2>13, <2>15
  <2>17. ASSUME NEW u \in Vars PROVE Same(n, u) = Same(m, u)
    <3>1. CASE u = v
      <4>1. Same(m, u) = {u}
        BY <1>2, <3>1 DEF Same
      <4>2. Same(n, u) = {u}
        BY <2>10, <2>11, <2>16, <3>1 DEF Same
      <4> QED BY <4>1, <4>2
    <3>2. CASE u # v
      <4>1. \A w \in Vars : IsRef(Get(m, Var(u))) =>
              (Get(n, Var(w)) = Get(n, Var(u)) <=> Get(m, Var(w)) = Get(m, Var(u)))
        BY <1>2, <2>10, <2>11, <2>16, <3>2
      <4> QED BY <2>10, <2>11, <3>2, <4>1 DEF Same
    <3> QED BY <3>1, <3>2
  <2>18. Proper(m) => Proper(n)
    BY <2>10, <2>11, <2>13 DEF Proper
  <2>19. \A u \in Vars : Says(n, s, u) = Says(m, t, u)
    <3>1. \A u \in Vars : Read(n, u) = Read(m, u) /\ Points(m, Read(m, u))
      BY <1>0, <2>10, <2>11, <2>14, ReadGood
    <3> QED BY <2>9, <3>1 DEF Says
  <2> QED BY <2>1, <2>12, <2>17, <2>18, <2>19 DEF Alike
<1> QED
  BY <1>1, <1>2

\* A variable becomes a reference to the same cell as another.
LEMMA LinkPutMeans ==
  ASSUME NEW m, Good(m, UNDEF, UNDEF), Proper(m), NEW v \in Vars, NEW w \in Vars,
         IsRef(Get(m, Var(w))), NEW t, Valued(m, t)
  PROVE  Linked(m, t, Put(AddRef(m, Get(m, Var(w))), Var(v), Get(m, Var(w))), t, v, w)
<1> DEFINE ref == Get(m, Var(w))
           l == AddRef(m, ref)
           n == Put(l, Var(v), ref)
<1>0. Shape(m) /\ Sound(m) /\ Points(m, ref) /\ ref[2] \in Cells \ {VarCell, Literal} /\ ref = REF(ref[2])
  BY VarHolds DEF Good, Proper
<1>1. SameButCounts(m, l)
  BY <1>0, AddRefGood
<1> HIDE DEF l
<1>2. Shape(l) /\ Sound(l) /\ Valued(l, t) /\ Proper(l)
      /\ \A u \in Vars : Get(l, Var(u)) = Get(m, Var(u)) /\ Read(l, u) = Read(m, u)
  BY <1>0, <1>1, CountsMean, Recounted
<1>3. /\ \A u \in Vars : Get(n, Var(u)) = IF u = v THEN ref ELSE Get(l, Var(u))
      /\ \A d \in Cells : d # VarCell => n[d] = l[d]
      /\ \A u \in Vars \ {v} : Read(n, u) = Read(l, u)
  BY <1>2, PutVarGets
<1>4. Valued(n, t)
  <2>1. IsPlace(l, Var(v)) /\ l[Var(v)[1]].kind # "array"
    BY <1>2, VarPlace, Cell DEF Shape, CellShape
  <2> QED BY <1>2, <2>1, PutValued
<1> HIDE DEF n
<1>5. Read(n, v) = Read(m, w)
  <2>1. n[ref[2]] = l[ref[2]]
    BY <1>0, <1>3
  <2>2. Read(n, v) = IF n[ref[2]].at[REFVAL] = UNDEF THEN NULL ELSE n[ref[2]].at[REFVAL]
    BY <1>3, ReadIs
  <2>3. Read(l, w) = IF l[ref[2]].at[REFVAL] = UNDEF THEN NULL ELSE l[ref[2]].at[REFVAL]
    BY <1>2, ReadIs
  <2> QED BY <1>2, <2>1, <2>2, <2>3
<1>6. \A u \in Vars : Says(n, t, u) = IF u = v THEN Says(m, t, w) ELSE Says(m, t, u)
  BY <1>2, <1>3, <1>5 DEF Says
<1>7. Proper(n)
  BY <1>0, <1>2, <1>3 DEF Proper
<1>8. ASSUME NEW u \in Vars
      PROVE  Same(n, u) = IF u \in Same(m, w) \cup {v} THEN Same(m, w) \cup {v} ELSE Same(m, u) \ {v}
  <2>1. \A x \in Vars : Get(n, Var(x)) = IF x = v THEN ref ELSE Get(m, Var(x))
    BY <1>2, <1>3
  <2>2. Same(m, w) = {x \in Vars : Get(m, Var(x)) = ref}
    BY DEF Same
  <2>3. Same(m, w) \cup {v} = {x \in Vars : Get(n, Var(x)) = ref}
    BY <2>1, <2>2
  <2> HIDE DEF ref
  <2>4. CASE u \in Same(m, w) \cup {v}
    <3>1. Get(n, Var(u)) = ref
      BY <2>3, <2>4
    <3>2. Same(n, u) = {x \in Vars : Get(n, Var(x)) = ref}
      BY <3>1 DEF Same, ref
    <3> QED BY <2>3, <2>4, <3>2
  <2>5. CASE u \notin Same(m, w) \cup {v}
    <3>1. u # v /\ Get(n, Var(u)) = Get(m, Var(u)) /\ Get(m, Var(u)) # ref
      BY <2>1, <2>2, <2>5
    <3>2. \A x \in Vars : x \in Same(n, u) <=> x \in Same(m, u) /\ x # v
      BY <2>1, <3>1 DEF Same
    <3>3. Same(n, u) \subseteq Vars /\ Same(m, u) \subseteq Vars
      BY DEF Same
    <3> QED BY <2>5, <3>2, <3>3
  <2> QED BY <2>4, <2>5
<1> QED
  BY <1>4, <1>6, <1>7, <1>8 DEF Linked, n, l

\* zend_assign_to_variable_reference, and the opcodes that bind a variable.
LEMMA LinkMeans ==
  ASSUME NEW m, Good(m, UNDEF, UNDEF), Proper(m), NEW v \in Vars, NEW w \in Vars, Unused(m) # {},
         NEW t, Valued(m, t)
  PROVE  LET made == MAKE_REF(m, Var(w))
             ref == Get(made, Var(w))
             l == Put(AddRef(made, ref), Var(v), ref)
         IN  /\ \E s : Linked(m, t, l, s, v, w)
             /\ \E s : Linked(m, t, Release(l, Get(made, Var(v))), s, v, w)
<1> DEFINE made == MAKE_REF(m, Var(w))
           ref == Get(made, Var(w))
           l == Put(AddRef(made, ref), Var(v), ref)
           g == Get(made, Var(v))
<1>1. Good(made, UNDEF, UNDEF) /\ IsRef(Get(made, Var(w)))
  BY MakeRefGood
<1>2. PICK s : Valued(made, s) /\ Alike(m, t, made, s)
  BY MakeRefAlike
<1> HIDE DEF made
<1>3. Proper(made)
  BY <1>2 DEF Alike
<1>4. Linked(made, s, l, s, v, w)
  BY <1>1, <1>2, <1>3, LinkPutMeans
<1>5. Good(l, UNDEF, g)
  BY <1>1, LinkPut
<1> HIDE DEF l, g
<1>6. Valued(Release(l, g), Trim(Release(l, g), s)) /\ Alike(l, s, Release(l, g), Trim(Release(l, g), s))
  BY <1>4, <1>5, ReleaseAlike DEF Linked
<1>7. Linked(made, s, Release(l, g), Trim(Release(l, g), s), v, w)
  BY <1>4, <1>6, LinkedAlike
<1>8. Linked(m, t, l, s, v, w) /\ Linked(m, t, Release(l, g), Trim(Release(l, g), s), v, w)
  BY <1>2, <1>4, <1>7, AlikeLinked
<1> QED
  BY <1>8 DEF l, g, made

LEMMA LinkedItself ==
  ASSUME NEW m, NEW t, Valued(m, t), Proper(m), NEW v \in Vars
  PROVE  Linked(m, t, m, t, v, v)
<1>1. Same(m, v) \cup {v} = Same(m, v)
  BY SameIs
<1>2. \A u \in Vars : Same(m, u) = IF u \in Same(m, v) THEN Same(m, v) ELSE Same(m, u) \ {v}
  BY SameIs
<1> QED
  BY <1>1, <1>2 DEF Linked

\* A variable is unset.
LEMMA PutUndefMeans ==
  ASSUME NEW m, Shape(m), Sound(m), Proper(m), NEW v \in Vars, NEW t, Valued(m, t)
  PROVE  Cleared(m, t, Put(m, Var(v), UNDEF), t, {v})
<1> DEFINE n == Put(m, Var(v), UNDEF)
<1>1. /\ \A u \in Vars : Get(n, Var(u)) = IF u = v THEN UNDEF ELSE Get(m, Var(u))
      /\ \A d \in Cells : d # VarCell => n[d] = m[d]
      /\ \A u \in Vars \ {v} : Read(n, u) = Read(m, u)
  BY PutVarGets
<1>2. Valued(n, t)
  <2>1. IsPlace(m, Var(v)) /\ m[Var(v)[1]].kind # "array"
    BY VarPlace, Cell DEF Shape, CellShape
  <2> QED BY <2>1, PutValued
<1> HIDE DEF n
<1>3. Read(n, v) = NULL
  BY <1>1, Undefined, ReadIs
<1>4. Says(n, t, v) = Php!Null
  BY <1>3, Undefined, ValueInCases DEF Says, Php!Null, NULL
<1>5. \A u \in Vars : Says(n, t, u) = IF u \in {v} THEN Php!Null ELSE Says(m, t, u)
  BY <1>1, <1>4 DEF Says
<1>6. \A u \in Vars : Same(n, u) = IF u \in {v} THEN {u} ELSE Same(m, u) \ {v}
  <2> SUFFICES ASSUME NEW u \in Vars
               PROVE  Same(n, u) = IF u \in {v} THEN {u} ELSE Same(m, u) \ {v}
    OBVIOUS
  <2>1. CASE u = v
    BY <1>1, <2>1, Undefined, SameIs
  <2>2. CASE u # v
    <3>1. \A x \in Vars : x \in Same(n, u) <=> x \in Same(m, u) /\ x # v
      BY <1>1, <2>2, Undefined DEF Same
    <3>2. Same(n, u) \subseteq Vars /\ Same(m, u) \subseteq Vars
      BY DEF Same
    <3> QED BY <2>2, <3>1, <3>2
  <2> QED BY <2>1, <2>2
<1>7. Proper(n)
  BY <1>1, Undefined DEF Proper
<1> QED
  BY <1>2, <1>5, <1>6, <1>7 DEF Cleared, n

\* The variable is unset, and what it held is released.
LEMMA UnsetMeans ==
  ASSUME NEW m, Good(m, UNDEF, UNDEF), Proper(m), NEW v \in Vars, NEW t, Valued(m, t)
  PROVE  \E s : Cleared(m, t, Release(Put(m, Var(v), UNDEF), Get(m, Var(v))), s, {v})
<1> DEFINE l == Put(m, Var(v), UNDEF)
           g == Get(m, Var(v))
<1>1. Cleared(m, t, l, t, {v})
  BY PutUndefMeans DEF Good
<1>2. Good(l, UNDEF, g)
  <2>1. IsPlace(m, Var(v)) /\ Var(v)[1] # Literal /\ m[Var(v)[1]].kind # "ref" /\ ~IsRef(UNDEF)
    BY VarPlace, Cell, Undefined DEF Good, Shape, CellShape
  <2> QED BY <2>1, PutGood
<1> HIDE DEF l, g
<1>3. Valued(Release(l, g), Trim(Release(l, g), t)) /\ Alike(l, t, Release(l, g), Trim(Release(l, g), t))
  BY <1>1, <1>2, ReleaseAlike DEF Cleared
<1>4. Cleared(m, t, Release(l, g), Trim(Release(l, g), t), {v})
  BY <1>1, <1>3, ClearedAlike
<1> QED
  BY <1>4 DEF l, g

\* ZVAL_COPY_DEREF to a variable that is no reference.
LEMMA CopyToMeans ==
  ASSUME NEW m, Good(m, UNDEF, UNDEF), Proper(m), NEW v \in Vars, NEW w \in Vars, ~IsRef(Get(m, Var(v))),
         NEW t, Valued(m, t)
  PROVE  Becomes(m, t, CopyTo(m, v, w), t, v, Says(m, t, w))
<1> DEFINE z == Read(m, w)
           l == AddRef(m, z)
<1>0. Shape(m) /\ Sound(m)
  BY DEF Good
<1>1. Points(m, z) /\ ~IsRef(z) /\ z # UNDEF
  BY <1>0, ReadGood
<1>2. CopyTo(m, v, w) = Put(l, Var(v), z)
  BY DEF CopyTo
<1> HIDE DEF z
<1>3. SameButCounts(m, l)
  BY <1>1, AddRefGood
<1> HIDE DEF l
<1>4. Shape(l) /\ Sound(l) /\ Valued(l, t) /\ Alike(m, t, l, t) /\ Proper(l)
      /\ DEREF(l, Var(v)) = Var(v)
  <2>1. DEREF(m, Var(v)) = Var(v)
    BY ReadIs
  <2>2. Alike(m, t, l, t) /\ Valued(l, t) /\ DEREF(l, Var(v)) = DEREF(m, Var(v))
    BY <1>0, <1>3, CountsAlike, CountsMean
  <2> QED BY <1>0, <1>3, <2>1, <2>2, Recounted DEF Alike
<1>5. Becomes(l, t, Put(l, DEREF(l, Var(v)), z), t, v, ValueIn(t, z))
  BY <1>1, <1>4, PutBecomes
<1>6. Becomes(l, t, Put(l, Var(v), z), t, v, ValueIn(t, z))
  BY <1>4, <1>5
<1>7. Becomes(m, t, Put(l, Var(v), z), t, v, ValueIn(t, z))
  BY <1>4, <1>6, AlikeBecomes
<1> QED
  BY <1>2, <1>7 DEF Says, z

\* i_free_compiled_variables.
LEMMA FreeCVsMeans ==
  ASSUME NEW m, Good(m, UNDEF, UNDEF), Proper(m), NEW t, Valued(m, t)
  PROVE  \E s : Cleared(m, t, FreeCVs(m), s, CalleeVars)
<1> DEFINE n == FreeCVs(m)
<1>0. Shape(m) /\ Sound(m)
  BY DEF Good
<1>1. /\ \A v \in Vars : n[VarCell].at[v] = IF v \in CalleeVars THEN UNDEF ELSE m[VarCell].at[v]
      /\ \E x : /\ Good(x, UNDEF, UNDEF) /\ n = Destroy(x)
                /\ \A c \in Cells : x[c].kind = m[c].kind /\ (c # VarCell => x[c].at = m[c].at)
  BY FreeCVsGood
<1>2. PICK x : /\ Good(x, UNDEF, UNDEF) /\ n = Destroy(x)
               /\ \A c \in Cells : x[c].kind = m[c].kind /\ (c # VarCell => x[c].at = m[c].at)
  BY <1>1
<1> HIDE DEF n
<1>3. Shape(x) /\ Sound(x) /\ Thinned(x, n) /\ Good(n, UNDEF, UNDEF) /\ Shape(n) /\ Sound(n)
  BY <1>2, DestroyThinned, DestroyGood DEF Good
<1>4. \A u \in Vars : Get(x, Var(u)) = IF u \in CalleeVars THEN UNDEF ELSE Get(m, Var(u))
  <2>1. x[VarCell].at = n[VarCell].at
    BY <1>3, Cell DEF Thinned, Shape, CellShape
  <2> QED BY <1>0, <1>1, <1>3, <2>1, VarPlace
<1>5. Valued(x, t)
  <2> SUFFICES ASSUME NEW c \in Cells
               PROVE  t[c] = IF x[c].kind = "array"
                             THEN <<"array", [k \in Keys |-> ValueIn(t, x[c].at[k])]>> ELSE NULL
    BY Zenon DEF Valued
  <2>1. t[c] = IF m[c].kind = "array"
               THEN <<"array", [k \in Keys |-> ValueIn(t, m[c].at[k])]>> ELSE NULL
    BY DEF Valued
  <2>2. x[c].kind = m[c].kind /\ (m[c].kind = "array" => x[c].at = m[c].at)
    BY <1>0, <1>2 DEF Shape, CellShape
  <2> QED BY <2>1, <2>2
<1>6. ASSUME NEW u \in Vars
      PROVE  Read(x, u) = IF u \in CalleeVars THEN NULL ELSE Read(m, u)
  <2>1. CASE u \in CalleeVars
    BY <1>4, <2>1, Undefined, ReadIs
  <2>2. CASE u \notin CalleeVars /\ IsRef(Get(m, Var(u)))
    <3>1. x[Get(m, Var(u))[2]].at = m[Get(m, Var(u))[2]].at
      BY <1>0, <1>2, <2>2, VarHolds
    <3> QED BY <1>4, <2>2, <3>1, ReadIs
  <2>3. CASE u \notin CalleeVars /\ ~IsRef(Get(m, Var(u)))
    BY <1>4, <2>3, ReadIs
  <2> QED BY <2>1, <2>2, <2>3
<1>7. \A u \in Vars : Says(x, t, u) = IF u \in CalleeVars THEN Php!Null ELSE Says(m, t, u)
  <2>1. ValueIn(t, NULL) = Php!Null
    BY Undefined, ValueInCases DEF Php!Null, NULL
  <2> QED BY <1>6, <2>1 DEF Says
<1>8. ASSUME NEW u \in Vars
      PROVE  Same(x, u) = IF u \in CalleeVars THEN {u} ELSE Same(m, u) \ CalleeVars
  <2>1. CASE u \in CalleeVars
    BY <1>4, <2>1, Undefined, SameIs
  <2>2. CASE u \notin CalleeVars
    <3>1. \A y \in Vars : y \in Same(x, u) <=> y \in Same(m, u) /\ y \notin CalleeVars
      BY <1>4, <2>2, Undefined DEF Same
    <3>2. Same(x, u) \subseteq Vars /\ Same(m, u) \subseteq Vars
      BY DEF Same
    <3> QED BY <2>2, <3>1, <3>2
  <2> QED BY <2>1, <2>2
<1>9. Proper(x)
  BY <1>4, Undefined DEF Proper
<1>10. Cleared(m, t, x, t, CalleeVars)
  BY <1>5, <1>7, <1>8, <1>9 DEF Cleared
<1>11. Valued(n, Trim(n, t)) /\ Alike(x, t, n, Trim(n, t))
  BY <1>3, <1>5, ThinnedAlike
<1>12. Cleared(m, t, n, Trim(n, t), CalleeVars)
  BY <1>10, <1>11, ClearedAlike
<1> QED
  BY <1>12 DEF n

LEMMA PutVarSound ==
  ASSUME NEW m, Shape(m), Sound(m), NEW v \in Vars, NEW z, Points(m, z)
  PROVE  Shape(Put(m, Var(v), z)) /\ Sound(Put(m, Var(v), z))
<1> DEFINE n == Put(m, Var(v), z)
<1>1. IsPlace(m, Var(v)) /\ Var(v)[1] = VarCell
  BY VarPlace
<1>2. /\ DOMAIN n = Cells
      /\ \A c \in Cells : /\ DOMAIN n[c] = Fields
                          /\ n[c].kind = m[c].kind /\ n[c].rc = m[c].rc
                          /\ DOMAIN n[c].at = DOMAIN m[c].at
      /\ \A c \in Cells : \A k \in DOMAIN m[c].at :
           n[c].at[k] = IF <<c, k>> = Var(v) THEN z ELSE m[c].at[k]
      /\ \A c \in Cells : c # Var(v)[1] => n[c] = m[c]
      /\ Get(n, Var(v)) = z
  BY <1>1, PutView
<1> HIDE DEF n
<1>3. Shape(n)
  <2>1. \A c \in Cells : CellShape(c, n[c])
    BY <1>2 DEF Shape, CellShape
  <2>2. n[Literal] = m[Literal]
    BY <1>1, <1>2, Cell
  <2> QED BY <1>2, <2>1, <2>2 DEF Shape
<1>4. \A x : Points(m, x) => Points(n, x)
  BY <1>2 DEF Points
<1>5. Sound(n)
  <2> SUFFICES ASSUME NEW c \in Cells, NEW k \in DOMAIN n[c].at
               PROVE  /\ Points(n, n[c].at[k])
                      /\ c # VarCell => ~IsRef(n[c].at[k])
                      /\ n[c].kind = "ref" => n[c].at[k] # UNDEF
    BY DEF Sound
  <2>1. CASE c = VarCell
    <3>1. Points(m, n[c].at[k])
      BY <1>2, <2>1 DEF Sound
    <3> QED BY <1>2, <1>4, <2>1, <3>1 DEF Shape, CellShape
  <2>2. CASE c # VarCell
    BY <1>1, <1>2, <1>4, <2>2 DEF Sound
  <2> QED BY <2>1, <2>2
<1> QED
  BY <1>3, <1>5 DEF n

\* The value of a variable goes to the temporary; the others, which are not its, stay.
LEMMA ReturnedMeans ==
  ASSUME NEW m, Good(m, UNDEF, UNDEF), Proper(m), NEW v \in Vars \ {"tmp"},
         m[VarCell].at["tmp"] = UNDEF, NEW t, Valued(m, t)
  PROVE  LET n == Returned(m, v)
         IN  /\ Valued(n, t) /\ Proper(n)
             /\ \A u \in Vars : /\ Same(n, u) = Same(m, u)
                                /\ u # v => Says(n, t, u) = IF u = "tmp" THEN Says(m, t, v) ELSE Says(m, t, u)
<1> DEFINE z == Get(m, Var(v))
           x == IF z = UNDEF THEN NULL ELSE z
           y == IF Refcounted(z) THEN NULL ELSE z
           l == Put(m, Var("tmp"), x)
           n == Put(l, Var(v), y)
<1>0. Shape(m) /\ Sound(m) /\ "tmp" \in Vars
  BY Variables DEF Good
<1>1. Get(m, Var("tmp")) = UNDEF
  BY <1>0, VarPlace
<1>2. CASE IsRef(z)
  <2>1. Returned(m, v) = CopyTo(m, "tmp", v)
    BY <1>2 DEF Returned
  <2>2. Becomes(m, t, CopyTo(m, "tmp", v), t, "tmp", Says(m, t, v))
    BY <1>0, <1>1, Undefined, CopyToMeans
  <2>3. Same(m, "tmp") = {"tmp"}
    BY <1>0, <1>1, Undefined, SameIs
  <2> QED BY <2>1, <2>2, <2>3 DEF Becomes
<1>3. CASE ~IsRef(z)
  <2>1. Returned(m, v) = n
    BY <1>3 DEF Returned
  <2>2. /\ \A u \in Vars : Get(l, Var(u)) = IF u = "tmp" THEN x ELSE Get(m, Var(u))
        /\ \A d \in Cells : d # VarCell => l[d] = m[d]
        /\ \A u \in Vars \ {"tmp"} : Read(l, u) = Read(m, u)
    BY <1>0, PutVarGets
  <2>3. Points(m, z) /\ Points(m, x) /\ Points(m, y) /\ ~IsRef(x) /\ ~IsRef(y) /\ x # UNDEF
    BY <1>0, <1>3, VarHolds, Undefined DEF Points
  <2>4. x = Read(m, v)
    BY <1>3, ReadIs
  <2>5. IsPlace(m, Var("tmp")) /\ m[Var("tmp")[1]].kind # "array"
    BY <1>0, VarPlace, Cell DEF Shape, CellShape
  <2>6. Valued(l, t)
    BY <1>0, <2>5, PutValued
  <2>7. Shape(l) /\ Sound(l)
    BY <1>0, <2>3, PutVarSound
  <2> HIDE DEF l, x, y
  <2>8. /\ \A u \in Vars : Get(n, Var(u)) = IF u = v THEN y ELSE Get(l, Var(u))
        /\ \A d \in Cells : d # VarCell => n[d] = l[d]
        /\ \A u \in Vars \ {v} : Read(n, u) = Read(l, u)
    BY <2>7, PutVarGets
  <2>9. Valued(n, t)
    <3>1. IsPlace(l, Var(v)) /\ l[Var(v)[1]].kind # "array"
      BY <2>7, VarPlace, Cell DEF Shape, CellShape
    <3> QED BY <2>6, <2>7, <3>1, PutValued
  <2> HIDE DEF n, z
  <2>10. Read(n, "tmp") = Read(m, v)
    <3>1. Get(n, Var("tmp")) = x
      BY <1>0, <2>2, <2>8
    <3> QED BY <2>3, <2>4, <3>1, ReadIs
  <2>11. \A u \in Vars \ {v, "tmp"} : Read(n, u) = Read(m, u) /\ Get(n, Var(u)) = Get(m, Var(u))
    BY <2>2, <2>8
  <2>12. ~IsRef(Get(n, Var("tmp"))) /\ ~IsRef(Get(n, Var(v))) /\ ~IsRef(Get(m, Var("tmp"))) /\ ~IsRef(Get(m, Var(v)))
    BY <1>0, <1>1, <1>3, <2>2, <2>3, <2>8, Undefined DEF z
  <2>13. Proper(n)
    BY <2>11, <2>12 DEF Proper
  <2>14. \A u \in Vars : Same(n, u) = Same(m, u)
    <3>1. ASSUME NEW u \in Vars, IsRef(Get(m, Var(u)))
          PROVE  /\ Get(n, Var(u)) = Get(m, Var(u))
                 /\ \A w \in Vars : Get(n, Var(w)) = Get(m, Var(u)) <=> Get(m, Var(w)) = Get(m, Var(u))
      BY <2>11, <2>12, <3>1
    <3>2. \A u \in Vars : ~IsRef(Get(m, Var(u))) => ~IsRef(Get(n, Var(u)))
      BY <2>11, <2>12
    <3> QED BY <3>1, <3>2 DEF Same
  <2> QED BY <2>1, <2>9, <2>10, <2>11, <2>13, <2>14 DEF Says
<1> QED
  BY <1>2, <1>3

(***************************************************************************)
(* What the opcodes promise, one lemma for each.                           *)
(***************************************************************************)

\* The variables have the values x, and the references y, that are promised.
Seen(m, t, x, y) ==
  /\ Valued(m, t) /\ Proper(m) /\ DOMAIN x = Vars
  /\ \A v \in Vars : Says(m, t, v) = x[v] /\ Same(m, v) = y[v]

LEMMA SeenAssign ==
  ASSUME NEW t, Seen(mem, t, value, linked), NEW v \in Vars, NEW x, NEW s,
         Becomes(mem, t, mem', s, v, x), Php!Assign(v, x, {})
  PROVE  Seen(mem', s, value', linked')
<1>1. /\ linked' = linked /\ DOMAIN value' = Vars
      /\ \A w \in Vars : value'[w] = IF w \in linked[v] THEN x ELSE value[w]
  BY DEF Php!Assign
<1> QED
  BY <1>1 DEF Seen, Becomes

\* The same, when the temporary is used up.
LEMMA SeenAssignTmp ==
  ASSUME NEW t, Seen(mem, t, value, linked), NEW v \in Vars \ {"tmp"}, NEW x, NEW l, NEW r, NEW s,
         ~IsRef(Get(mem, Var("tmp"))), Cleared(mem, t, l, r, {"tmp"}),
         Becomes(l, r, mem', s, v, x), Php!Assign(v, x, {"tmp"})
  PROVE  Seen(mem', s, value', linked')
<1>0. "tmp" \in Vars
  BY Variables
<1>1. /\ linked' = linked /\ DOMAIN value' = Vars
      /\ \A w \in Vars : value'[w] = IF w \in linked[v] THEN x ELSE IF w \in {"tmp"} THEN Php!Null ELSE value[w]
  BY DEF Php!Assign
<1>2. Same(mem, "tmp") = {"tmp"} /\ \A u \in Vars : "tmp" \in Same(mem, u) <=> u = "tmp"
  BY <1>0, SameIs
<1>3. \A u \in Vars : Same(l, u) = Same(mem, u)
  BY <1>2 DEF Cleared
<1>4. \A u \in Vars : Says(l, r, u) = IF u = "tmp" THEN Php!Null ELSE Says(mem, t, u)
  BY DEF Cleared
<1>5. /\ Valued(mem', s) /\ Proper(mem')
      /\ \A u \in Vars : /\ Says(mem', s, u) = IF u \in Same(mem, v) THEN x ELSE Says(l, r, u)
                         /\ Same(mem', u) = Same(mem, u)
  BY <1>3 DEF Becomes
<1> QED
  BY <1>1, <1>4, <1>5 DEF Seen

LEMMA SeenUnset ==
  ASSUME NEW t, Seen(mem, t, value, linked), NEW gone, NEW s, Cleared(mem, t, mem', s, gone), Php!Unset(gone)
  PROVE  Seen(mem', s, value', linked')
<1>1. DOMAIN value' = Vars
  BY DEF Php!Unset
<1>2. \A v \in Vars : /\ value'[v] = IF v \in gone THEN Php!Null ELSE value[v]
                     /\ linked'[v] = IF v \in gone THEN {v} ELSE linked[v] \ gone
  BY PhpUnset
<1>3. /\ Valued(mem', s) /\ Proper(mem')
      /\ \A u \in Vars : /\ Says(mem', s, u) = IF u \in gone THEN Php!Null ELSE Says(mem, t, u)
                         /\ Same(mem', u) = IF u \in gone THEN {u} ELSE Same(mem, u) \ gone
  BY DEF Cleared
<1>4. \A v \in Vars : Says(mem, t, v) = value[v] /\ Same(mem, v) = linked[v]
  BY DEF Seen
<1>5. \A v \in Vars : Says(mem', s, v) = value'[v]
  BY <1>2, <1>3, <1>4
<1>6. \A v \in Vars : Same(mem', v) = linked'[v]
  BY <1>2, <1>3, <1>4
<1> QED
  BY <1>1, <1>3, <1>5, <1>6 DEF Seen

LEMMA SeenLink ==
  ASSUME NEW t, Seen(mem, t, value, linked), NEW v \in Vars, NEW w \in Vars, NEW s,
         Linked(mem, t, mem', s, v, w), Php!Link(v, w)
  PROVE  Seen(mem', s, value', linked')
<1>1. value' = [value EXCEPT ![v] = value[w]]
  BY DEF Php!Link
<1>2. \A u \in Vars : linked'[u] = IF u \in linked[w] \cup {v} THEN linked[w] \cup {v} ELSE linked[u] \ {v}
  BY DEF Php!Link
<1>3. DOMAIN value' = Vars /\ \A u \in Vars : value'[u] = IF u = v THEN value[w] ELSE value[u]
  BY <1>1 DEF Seen
<1> QED
  BY <1>2, <1>3 DEF Seen, Linked

LEMMA LiteralMeans ==
  ASSUME NEW m, Shape(m), NEW t, Valued(m, t)
  PROVE  ValueIn(t, ARR(Literal)) = Php!Empty /\ Points(m, ARR(Literal))
<1>1. m[Literal].kind = "array" /\ m[Literal].at = NoElements /\ Literal \in Cells
  BY Cell DEF Shape
<1>2. t[Literal] = <<"array", [k \in Keys |-> ValueIn(t, m[Literal].at[k])]>>
  BY <1>1, ArrayIs
<1>3. \A k \in Keys : ValueIn(t, m[Literal].at[k]) = Php!Absent
  BY <1>1, ValueInCases DEF NoElements
<1>4. t[Literal] = Php!Empty
  BY <1>2, <1>3 DEF Php!Empty, Php!Array
<1> QED
  BY <1>1, <1>4, Undefined, ValueInCases DEF Points

LEMMA AssignMeans ==
  ASSUME MemInv, NEW t, Seen(mem, t, value, linked), ~tied, ASSIGN
  PROVE  \E s : Seen(mem', s, value', linked')
<1>0. Good(mem, UNDEF, UNDEF) /\ Shape(mem) /\ Sound(mem) /\ Valued(mem, t) /\ Proper(mem)
  BY MemFacts DEF Seen
<1>1. ASSUME NEW v \in CVs, NEW z, NEW x, mem' = AssignTo(mem, Var(v), z, FALSE), Points(mem, z),
             ~IsRef(z), z # UNDEF, x = ValueIn(t, z), Php!Assign(v, x, {})
      PROVE  \E s : Seen(mem', s, value', linked')
  <2>1. v \in Vars
    BY Variables
  <2>2. \E s : Becomes(mem, t, mem', s, v, ValueIn(t, z))
    BY <1>0, <1>1, <2>1, AssignToMeans
  <2> QED BY <1>1, <2>1, <2>2, SeenAssign
<1>2. ASSUME NEW v \in CVs, mem' = AssignTo(mem, Var(v), ARR(Literal), FALSE),
             Php!Assign(v, Php!Empty, {})
      PROVE  \E s : Seen(mem', s, value', linked')
  BY <1>0, <1>1, <1>2, LiteralMeans, Undefined
<1>3. ASSUME NEW v \in CVs, NEW n \in Longs, mem' = AssignTo(mem, Var(v), LONG(n), FALSE),
             Php!Assign(v, Php!Long(n), {})
      PROVE  \E s : Seen(mem', s, value', linked')
  <2>1. ValueIn(t, LONG(n)) = Php!Long(n)
    BY Undefined, ValueInCases DEF LONG, Php!Long
  <2>2. Points(mem, LONG(n)) /\ ~IsRef(LONG(n)) /\ LONG(n) # UNDEF
    BY Undefined DEF Points
  <2> QED BY <1>1, <1>3, <2>1, <2>2
<1>4. ASSUME NEW v \in CVs, NEW w \in CVs, mem' = AssignTo(mem, Var(v), Read(mem, w), FALSE),
             Php!Assign(v, value[w], {})
      PROVE  \E s : Seen(mem', s, value', linked')
  <2>1. w \in Vars
    BY Variables
  <2>2. ValueIn(t, Read(mem, w)) = value[w]
    BY <2>1 DEF Seen, Says
  <2>3. Points(mem, Read(mem, w)) /\ ~IsRef(Read(mem, w)) /\ Read(mem, w) # UNDEF
    BY <1>0, <2>1, ReadGood
  <2> QED BY <1>1, <1>4, <2>2, <2>3
<1> QED
  BY <1>2, <1>3, <1>4, Zenon DEF ASSIGN, Promise

\* The temporary, which is not a reference, and the memory without it.
LEMMA TmpMeans ==
  ASSUME MemInv, NEW t, Seen(mem, t, value, linked)
  PROVE  /\ ~IsRef(Tmp) /\ Cleared(mem, t, WithoutTmp, t, {"tmp"})
         /\ Tmp # UNDEF => ValueIn(t, Tmp) = value["tmp"]
<1>0. Shape(mem) /\ Sound(mem) /\ "tmp" \in Vars /\ ~IsRef(Tmp)
  BY MemFacts, TmpTaken, Variables
<1>1. Cleared(mem, t, WithoutTmp, t, {"tmp"})
  BY <1>0, PutUndefMeans DEF WithoutTmp, Seen
<1>2. ASSUME Tmp # UNDEF PROVE Read(mem, "tmp") = Tmp
  BY <1>0, <1>2, ReadIs DEF Tmp
<1> QED
  BY <1>0, <1>1, <1>2 DEF Seen, Says

LEMMA AssignTmpMeans ==
  ASSUME MemInv, NEW t, Seen(mem, t, value, linked), ~tied, AssignTmp
  PROVE  \E s : Seen(mem', s, value', linked')
<1>1. PICK v \in CVs : /\ mem' = AssignTo(WithoutTmp, Var(v), Tmp, TRUE)
                       /\ Php!Assign(v, value["tmp"], {"tmp"})
  BY Zenon DEF AssignTmp, Promise
<1>2. Tmp # UNDEF /\ v \in Vars \ {"tmp"}
  BY Variables DEF AssignTmp, HasTmp
<1>3. ~IsRef(Tmp) /\ Cleared(mem, t, WithoutTmp, t, {"tmp"}) /\ ValueIn(t, Tmp) = value["tmp"]
  BY <1>2, TmpMeans
<1>4. Good(WithoutTmp, UNDEF, Tmp) /\ Points(WithoutTmp, Tmp)
  BY TmpTaken
<1>5. Valued(WithoutTmp, t) /\ Proper(WithoutTmp)
  BY <1>3 DEF Cleared
<1>6. PICK s : Becomes(WithoutTmp, t, mem', s, v, ValueIn(t, Tmp))
  BY <1>1, <1>2, <1>3, <1>4, <1>5, AssignToMeans
<1>7. Becomes(WithoutTmp, t, mem', s, v, value["tmp"]) /\ ~IsRef(Get(mem, Var("tmp")))
  BY <1>3, <1>6 DEF Tmp
<1> QED
  BY <1>1, <1>2, <1>3, <1>7, SeenAssignTmp

LEMMA AssignRefMeans ==
  ASSUME MemInv, NEW t, Seen(mem, t, value, linked), ~tied, ASSIGN_REF
  PROVE  \E s : Seen(mem', s, value', linked')
<1>0. Good(mem, UNDEF, UNDEF) /\ Valued(mem, t) /\ Proper(mem) /\ Unused(mem) # {}
  BY MemFacts, RoomFor DEF Seen, ASSIGN_REF
<1>1. PICK v \in CVs, w \in CVs : mem' = AssignRefTo(mem, v, w) /\ Php!Link(v, w)
  BY Zenon DEF ASSIGN_REF, Promise
<1>2. v \in Vars /\ w \in Vars
  BY Variables
<1>3. CASE v = w /\ IsRef(Get(mem, Var(v)))
  <2>1. mem' = mem
    BY <1>1, <1>3 DEF AssignRefTo
  <2>2. Linked(mem, t, mem', t, v, w)
    BY <1>0, <1>2, <1>3, <2>1, LinkedItself
  <2> QED BY <1>1, <1>2, <2>2, SeenLink
<1>4. CASE ~(v = w /\ IsRef(Get(mem, Var(v))))
  <2> DEFINE made == MAKE_REF(mem, Var(w))
             ref == Get(made, Var(w))
             l == Put(AddRef(made, ref), Var(v), ref)
  <2>1. mem' = Release(l, Get(made, Var(v)))
    BY <1>1, <1>4, Zenon DEF AssignRefTo
  <2>2. \E s : Linked(mem, t, Release(l, Get(made, Var(v))), s, v, w)
    BY <1>0, <1>2, LinkMeans
  <2> HIDE DEF l, made
  <2>3. PICK s : Linked(mem, t, mem', s, v, w)
    BY <2>1, <2>2
  <2> QED BY <1>1, <1>2, <2>3, SeenLink
<1> QED
  BY <1>3, <1>4

LEMMA UnsetCVMeans ==
  ASSUME MemInv, NEW t, Seen(mem, t, value, linked), ~tied, UNSET_CV
  PROVE  \E s : Seen(mem', s, value', linked')
<1>0. Good(mem, UNDEF, UNDEF) /\ Valued(mem, t) /\ Proper(mem)
  BY MemFacts DEF Seen
<1>1. PICK v \in CVs : /\ mem' = Release(Put(mem, Var(v), UNDEF), Get(mem, Var(v)))
                       /\ Php!Unset({v})
  BY Zenon DEF UNSET_CV, Promise
<1>2. v \in Vars
  BY Variables
<1>3. PICK s : Cleared(mem, t, mem', s, {v})
  BY <1>0, <1>1, <1>2, UnsetMeans
<1> QED
  BY <1>1, <1>3, SeenUnset

\* $v[k] = n; the value is a scalar.
LEMMA AssignDimLongMeans ==
  ASSUME MemInv, NEW t, Seen(mem, t, value, linked), ~tied, AssignDimLong
  PROVE  \E s : Seen(mem', s, value', linked')
<1>0. Good(mem, UNDEF, UNDEF) /\ Valued(mem, t) /\ Proper(mem) /\ Unused(mem) # {}
  BY MemFacts, RoomFor DEF Seen, AssignDimLong
<1>1. PICK v \in CVs, k \in Keys, n \in Longs :
        /\ Assignable(mem, DEREF(mem, Var(v)))
        /\ mem' = StoreDim(mem, DEREF(mem, Var(v)), k, LONG(n), TRUE)
        /\ Php!AssignDim(v, k, Php!Long(n), {})
  BY Zenon DEF AssignDimLong, Promise
<1>2. v \in Vars
  BY Variables
<1> DEFINE z == LONG(n)
<1>3. ~IsArr(z) /\ ~IsRef(z) /\ z # UNDEF /\ ~Refcounted(z) /\ z = Php!Long(n)
  BY Undefined DEF LONG, Php!Long
<1> HIDE DEF z
<1>4. \A s : ValueIn(s, z) = Php!Long(n)
  BY <1>3, ValueInCases
<1>5. Good(mem, UNDEF, z)
  BY <1>0, <1>3, Undefined, Uncounted
<1>6. PICK s : Becomes(mem, t, StoreDim(mem, DEREF(mem, Var(v)), k, z, TRUE), s, v,
                       Php!With(Says(mem, t, v), k, Php!Long(n)))
  BY <1>0, <1>1, <1>2, <1>3, <1>4, <1>5, StoreDimMeans
<1>7. Says(mem, t, v) = value[v]
  BY <1>2 DEF Seen
<1>8. Becomes(mem, t, mem', s, v, Php!With(value[v], k, Php!Long(n)))
  BY <1>1, <1>6, <1>7 DEF z
<1>9. Php!Assign(v, Php!With(value[v], k, Php!Long(n)), {})
  BY <1>1, Zenon DEF Php!AssignDim
<1> QED
  BY <1>2, <1>8, <1>9, SeenAssign

\* $v[k] = $w; when no promise is broken, $w is not the array that is written.
LEMMA AssignDimMeans ==
  ASSUME MemInv, NEW t, Seen(mem, t, value, linked), ~tied, ASSIGN_DIM, ~tied'
  PROVE  \E s : Seen(mem', s, value', linked')
<1>0. Good(mem, UNDEF, UNDEF) /\ Valued(mem, t) /\ Proper(mem) /\ Unused(mem) # {}
  BY MemFacts, RoomFor DEF Seen, ASSIGN_DIM
<1>1. PICK v \in CVs, w \in CVs, k \in Keys :
        /\ Assignable(mem, DEREF(mem, Var(v)))
        /\ LET p == DEREF(mem, Var(v))
               own == ArrayAt(mem, p)
               z == Read(own, w)
           IN  /\ mem' = StoreDim(mem, p, k, z, FALSE)
               /\ ~(IsArr(z) /\ z[2] = Get(own, p)[2])
               /\ Php!AssignDim(v, k, value[w], {})
  BY Zenon DEF ASSIGN_DIM, Promise
<1> DEFINE p == DEREF(mem, Var(v))
           own == ArrayAt(mem, p)
           z == Read(own, w)
           old == OldArray(t, Get(mem, p))
<1>2. v \in Vars /\ w \in Vars
  BY Variables
<1>3. Good(own, UNDEF, UNDEF) /\ DEREF(own, Var(v)) = p /\ IsArr(Get(own, p))
      /\ Get(own, p)[2] \in Cells \ {VarCell, Literal} /\ own[Get(own, p)[2]].rc = 1
  BY <1>0, <1>1, <1>2, OwnFacts
<1>4. mem' = StoreDim(mem, p, k, z, FALSE) /\ ~(IsArr(z) /\ z[2] = Get(own, p)[2])
  BY <1>1
<1>5. Points(own, z) /\ ~IsRef(z) /\ z # UNDEF
  <2> HIDE DEF own
  <2> QED BY <1>2, <1>3, ReadGood DEF Good
<1>6. ASSUME NEW s, Becomes(mem, t, own, s, v, old)
      PROVE  ValueIn(s, z) = value[w]
  <2>1. \A u \in Vars : IsArr(Read(own, u)) /\ Read(own, u)[2] = Get(own, p)[2] <=> u \in Same(own, v)
    <3>1. Proper(own)
      BY <1>6 DEF Becomes
    <3> HIDE DEF own, p
    <3>2. LET y == Get(own, DEREF(own, Var(v))) IN
            IsArr(y) /\ y[2] \in Cells \ {VarCell, Literal} /\ own[y[2]].rc = 1
      BY <1>3
    <3>3. LET y == Get(own, DEREF(own, Var(v)))
          IN  \A u \in Vars : IsArr(Read(own, u)) /\ Read(own, u)[2] = y[2] <=> u \in Same(own, v)
      BY <1>2, <1>3, <3>1, <3>2, HeldByVar
    <3> QED BY <1>3, <3>3
  <2>2. w \notin Same(own, v)
    BY <1>2, <1>4, <2>1
  <2> HIDE DEF own, old, p
  <2>3. Says(own, s, w) = IF w \in Same(mem, v) THEN old ELSE Says(mem, t, w)
    BY <1>2, <1>6 DEF Becomes
  <2>4. Same(own, v) = Same(mem, v)
    BY <1>2, <1>6 DEF Becomes
  <2>5. Says(own, s, w) = Says(mem, t, w)
    BY <2>2, <2>3, <2>4
  <2> QED BY <1>2, <2>5 DEF Seen, Says
<1>7. PICK s : Becomes(mem, t, StoreDim(mem, p, k, z, FALSE), s, v, Php!With(Says(mem, t, v), k, value[w]))
  <2>1. Points(own, z) /\ ~(IsArr(z) /\ z[2] = Get(own, DEREF(mem, Var(v)))[2])
    BY <1>4, <1>5
  <2>2. \A s : /\ Becomes(mem, t, own, s, v, OldArray(t, Get(mem, DEREF(mem, Var(v)))))
               /\ \A x : Points(mem, x) => ValueIn(s, x) = ValueIn(t, x)
               => ValueIn(s, z) = value[w]
    BY <1>6
  <2>3. own = ArrayAt(mem, DEREF(mem, Var(v)))
    OBVIOUS
  <2> HIDE DEF own, z
  <2> QED BY <1>0, <1>1, <1>2, <1>5, <2>1, <2>2, <2>3, StoreDimMeans
<1> HIDE DEF z, own, p
<1>8. Becomes(mem, t, mem', s, v, Php!With(value[v], k, value[w]))
  <2>1. Says(mem, t, v) = value[v]
    BY <1>2 DEF Seen
  <2> QED BY <1>4, <1>7, <2>1
<1>9. Php!Assign(v, Php!With(value[v], k, value[w]), {})
  BY <1>1, Zenon DEF Php!AssignDim
<1> QED
  BY <1>2, <1>8, <1>9, SeenAssign

\* The temporary is released.
LEMMA TmpReleased ==
  ASSUME MemInv, NEW t, Seen(mem, t, value, linked), mem' = Release(WithoutTmp, Tmp), Php!Unset({"tmp"})
  PROVE  \E s : Seen(mem', s, value', linked')
<1>0. Good(mem, UNDEF, UNDEF) /\ Valued(mem, t) /\ Proper(mem) /\ "tmp" \in Vars
  BY MemFacts, Variables DEF Seen
<1>1. mem' = Release(Put(mem, Var("tmp"), UNDEF), Get(mem, Var("tmp")))
  BY DEF WithoutTmp, Tmp
<1>2. PICK s : Cleared(mem, t, mem', s, {"tmp"})
  BY <1>0, <1>1, UnsetMeans
<1> QED
  BY <1>2, SeenUnset

\* $v[k] = the temporary, which is released when $v cannot have elements.
LEMMA AssignDimTmpMeans ==
  ASSUME MemInv, NEW t, Seen(mem, t, value, linked), ~tied, AssignDimTmp
  PROVE  \E s : Seen(mem', s, value', linked')
<1>1. PICK v \in CVs, k \in Keys :
        \/ /\ Assignable(WithoutTmp, DEREF(WithoutTmp, Var(v)))
           /\ mem' = StoreDim(WithoutTmp, DEREF(WithoutTmp, Var(v)), k, Tmp, TRUE)
           /\ Php!AssignDim(v, k, value["tmp"], {"tmp"})
        \/ mem' = Release(WithoutTmp, Tmp) /\ Php!Unset({"tmp"})
  BY Zenon DEF AssignDimTmp, Promise
<1>2. CASE mem' = Release(WithoutTmp, Tmp) /\ Php!Unset({"tmp"})
  BY <1>2, TmpReleased
<1>3. CASE /\ Assignable(WithoutTmp, DEREF(WithoutTmp, Var(v)))
           /\ mem' = StoreDim(WithoutTmp, DEREF(WithoutTmp, Var(v)), k, Tmp, TRUE)
           /\ Php!AssignDim(v, k, value["tmp"], {"tmp"})
  <2> DEFINE m == WithoutTmp
             z == Tmp
             x == value["tmp"]
  <2>1. v \in Vars \ {"tmp"} /\ "tmp" \in Vars /\ z # UNDEF /\ Unused(mem) # {}
    BY Variables, RoomFor DEF AssignDimTmp, HasTmp
  <2>2. Good(m, UNDEF, z) /\ Points(m, z) /\ ~IsRef(z) /\ Unused(m) # {}
    BY <2>1, TmpTaken
  <2>3. ValueIn(t, z) = x /\ Cleared(mem, t, m, t, {"tmp"})
    BY <2>1, TmpMeans
  <2> HIDE DEF x
  <2>4. Valued(m, t) /\ Proper(m) /\ Says(m, t, v) = value[v]
    BY <2>1, <2>3 DEF Cleared, Seen
  <2>5. mem' = StoreDim(m, DEREF(m, Var(v)), k, z, TRUE) /\ Assignable(m, DEREF(m, Var(v)))
    BY <1>3
  <2> HIDE DEF m, z
  <2>6. PICK s : Becomes(m, t, StoreDim(m, DEREF(m, Var(v)), k, z, TRUE), s, v, Php!With(Says(m, t, v), k, x))
    BY <2>1, <2>2, <2>3, <2>4, <2>5, StoreDimMeans
  <2>7. Becomes(m, t, mem', s, v, Php!With(value[v], k, x))
    BY <2>4, <2>5, <2>6
  <2>8. Php!Assign(v, Php!With(value[v], k, x), {"tmp"})
    BY <1>3, Zenon DEF Php!AssignDim, x
  <2>9. ~IsRef(Get(mem, Var("tmp")))
    BY <2>2 DEF Tmp, z
  <2> QED BY <2>1, <2>3, <2>7, <2>8, <2>9, SeenAssignTmp
<1> QED
  BY <1>1, <1>2, <1>3

\* $v[k][l] = n;
LEMMA AssignInnerDimMeans ==
  ASSUME MemInv, NEW t, Seen(mem, t, value, linked), ~tied, AssignInnerDim
  PROVE  \E s : Seen(mem', s, value', linked')
<1>0. Good(mem, UNDEF, UNDEF) /\ Valued(mem, t) /\ Proper(mem) /\ Room(2) /\ Unused(mem) # {}
  BY MemFacts, RoomFor DEF Seen, AssignInnerDim
<1>1. PICK v \in CVs, k \in Keys, l \in Keys, n \in Longs :
        LET p == DEREF(mem, Var(v))
            own == ArrayAt(mem, p)
            inner == <<Get(own, p)[2], k>>
        IN  /\ Assignable(mem, p) /\ Assignable(own, inner)
            /\ mem' = StoreDim(own, inner, l, LONG(n), TRUE)
            /\ Php!AssignInner(v, k, l, Php!Long(n))
  BY Zenon DEF AssignInnerDim, Promise
<1> DEFINE p == DEREF(mem, Var(v))
           own == ArrayAt(mem, p)
           q == <<Get(own, p)[2], k>>
           z == LONG(n)
           y == Php!Long(n)
           x == Php!With(value[v], k, Php!With(Php!Inner(value[v], k), l, y))
<1>2. v \in Vars /\ Assignable(mem, p) /\ Assignable(own, q) /\ mem' = StoreDim(own, q, l, z, TRUE)
  BY <1>1, Variables
<1>3. Unused(own) # {}
  <2>1. IsPlace(mem, p) /\ p[1] # Literal
    BY <1>2, MemFacts
  <2> HIDE DEF p
  <2>2. OwnAt(mem, own, p)
    BY <1>0, <1>2, <2>1, ArrayAtGood
  <2> QED BY <1>0, <2>2, RoomLeft
<1>4. ~IsArr(z) /\ ~IsRef(z) /\ z # UNDEF /\ ValueIn(t, z) = y
  <2>1. ~IsArr(z) /\ ~IsRef(z) /\ z # UNDEF /\ z = y
    BY Undefined DEF LONG, Php!Long
  <2> HIDE DEF z, y
  <2> QED BY <2>1, ValueInCases
<1>5. own = ArrayAt(mem, DEREF(mem, Var(v))) /\ q = <<Get(own, DEREF(mem, Var(v)))[2], k>>
  OBVIOUS
<1>6. Assignable(mem, DEREF(mem, Var(v)))
  BY <1>2
<1> HIDE DEF own, q, z, p
<1>7. PICK s : Becomes(mem, t, StoreDim(own, q, l, z, TRUE), s, v,
                 Php!With(Says(mem, t, v), k, Php!With(Php!Inner(Says(mem, t, v), k), l, ValueIn(t, z))))
  BY <1>0, <1>2, <1>3, <1>4, <1>5, <1>6, StoreInnerMeans
<1>8. Becomes(mem, t, mem', s, v, x)
  <2>1. Says(mem, t, v) = value[v]
    BY <1>2 DEF Seen
  <2> HIDE DEF y
  <2> QED BY <1>2, <1>4, <1>7, <2>1
<1>9. Php!Assign(v, x, {})
  BY <1>1, Zenon DEF Php!AssignDim, Php!AssignInner
<1> HIDE DEF x
<1> QED
  BY <1>2, <1>8, <1>9, SeenAssign

\* The value of a variable is copied to one that is not set.
LEMMA CopiedMeans ==
  ASSUME MemInv, NEW t, Seen(mem, t, value, linked), NEW v \in Vars, NEW w \in Vars,
         Get(mem, Var(v)) = UNDEF, mem' = CopyTo(mem, v, w), Php!Assign(v, value[w], {})
  PROVE  \E s : Seen(mem', s, value', linked')
<1>1. Good(mem, UNDEF, UNDEF) /\ Valued(mem, t) /\ Proper(mem)
  BY MemFacts DEF Seen
<1>2. Becomes(mem, t, CopyTo(mem, v, w), t, v, Says(mem, t, w))
  BY <1>1, Undefined, CopyToMeans
<1>3. Says(mem, t, w) = value[w]
  BY DEF Seen
<1>4. Becomes(mem, t, mem', t, v, value[w])
  BY <1>2, <1>3
<1> QED
  BY <1>4, SeenAssign

LEMMA FetchRMeans ==
  ASSUME MemInv, NEW t, Seen(mem, t, value, linked), ~tied, FETCH_R
  PROVE  \E s : Seen(mem', s, value', linked')
<1>1. PICK w \in CVs : mem' = CopyTo(mem, "tmp", w) /\ Php!Assign("tmp", value[w], {})
  BY Zenon DEF FETCH_R, Promise
<1>2. w \in Vars /\ "tmp" \in Vars /\ Get(mem, Var("tmp")) = UNDEF
  BY Variables DEF FETCH_R, NoTmp, Tmp
<1> QED
  BY <1>1, <1>2, CopiedMeans

LEMMA FreeMeans ==
  ASSUME MemInv, NEW t, Seen(mem, t, value, linked), ~tied, FREE
  PROVE  \E s : Seen(mem', s, value', linked')
<1>1. mem' = Release(WithoutTmp, Tmp) /\ Php!Unset({"tmp"})
  BY Zenon DEF FREE, Promise
<1> QED
  BY <1>1, TmpReleased

LEMMA SendVarMeans ==
  ASSUME MemInv, NEW t, Seen(mem, t, value, linked), ~tied, SEND_VAR
  PROVE  \E s : Seen(mem', s, value', linked')
<1>1. PICK w \in CVs : mem' = CopyTo(mem, Param, w) /\ Php!Assign(Param, value[w], {})
  BY Zenon DEF SEND_VAR, Promise
<1>2. frame = "main" /\ w \in Vars /\ Param \in Vars
  BY Variables DEF SEND_VAR, NoTmp
<1>3. Get(mem, Var(Param)) = UNDEF
  BY <1>2, MemFacts, Variables DEF MemInv, TempsInv
<1> QED
  BY <1>1, <1>2, <1>3, CopiedMeans

LEMMA FeResetMeans ==
  ASSUME MemInv, NEW t, Seen(mem, t, value, linked), ~tied, FE_RESET_R
  PROVE  \E s : Seen(mem', s, value', linked')
<1>1. PICK w \in CVs : mem' = CopyTo(mem, "loop", w) /\ Php!Assign("loop", value[w], {})
  BY Zenon DEF FE_RESET_R, Promise
<1>2. w \in Vars /\ "loop" \in Vars /\ Get(mem, Var("loop")) = UNDEF
  BY Variables DEF FE_RESET_R, Loop
<1> QED
  BY <1>1, <1>2, CopiedMeans

LEMMA FeFreeMeans ==
  ASSUME MemInv, NEW t, Seen(mem, t, value, linked), ~tied, FE_FREE
  PROVE  \E s : Seen(mem', s, value', linked')
<1>0. Good(mem, UNDEF, UNDEF) /\ Valued(mem, t) /\ Proper(mem) /\ "loop" \in Vars
  BY MemFacts, Variables DEF Seen
<1>1. mem' = Release(Put(mem, Var("loop"), UNDEF), Get(mem, Var("loop"))) /\ Php!Unset({"loop"})
  BY Zenon DEF FE_FREE, Promise, Loop
<1>2. PICK s : Cleared(mem, t, mem', s, {"loop"})
  BY <1>0, <1>1, UnsetMeans
<1> QED
  BY <1>1, <1>2, SeenUnset

\* The next element of the array that a foreach runs over.
LEMMA FeFetchMeans ==
  ASSUME MemInv, NEW t, Seen(mem, t, value, linked), ~tied, FE_FETCH_R
  PROVE  \E s : Seen(mem', s, value', linked')
<1>0. Good(mem, UNDEF, UNDEF) /\ Valued(mem, t) /\ Proper(mem) /\ Loop # UNDEF /\ Shape(mem) /\ Sound(mem)
  BY MemFacts DEF Seen, FE_FETCH_R
<1>1. PICK v \in CVs, k \in pos + 1 .. NumKeys :
        /\ Get(mem, <<Loop[2], k>>) # UNDEF
        /\ mem' = AssignTo(mem, Var(v), Get(mem, <<Loop[2], k>>), FALSE)
        /\ Php!Assign(v, Php!Inner(value["loop"], k), {})
  BY Zenon DEF FE_FETCH_R, Promise
<1> DEFINE z == Get(mem, <<Loop[2], k>>)
<1>2. k \in Nat /\ Points(mem, z) /\ ~IsRef(z) /\ z # UNDEF
  BY <1>0, <1>1, LoopElement
<1>3. v \in Vars /\ "loop" \in Vars /\ k \in Keys
  <2>1. pos \in Nat /\ NumKeys \in Nat
    BY MemFacts, BoundsAssumption
  <2>2. k \in Keys
    BY <1>2, <2>1 DEF Keys
  <2> QED BY <2>2, Variables
<1>4. ValueIn(t, z) = Php!Inner(value["loop"], k)
  <2>1. IsArr(Loop) /\ Loop[2] \in Cells /\ mem[Loop[2]].kind = "array" /\ ~IsRef(Loop)
    <3>1. Loop = mem[VarCell].at["loop"] /\ Points(mem, Loop)
      BY <1>3, MemFacts DEF Loop
    <3>2. IsArr(Loop)
      BY <1>0, <3>1 DEF MemInv, TempsInv
    <3> QED BY <3>1, <3>2 DEF Points, IsArr, IsRef
  <2>2. Read(mem, "loop") = Loop
    BY <1>0, <2>1, ReadIs DEF Loop
  <2>3. value["loop"] = t[Loop[2]]
    BY <1>3, <2>1, <2>2, ValueInCases DEF Seen, Says
  <2> DEFINE f == [j \in Keys |-> ValueIn(t, mem[Loop[2]].at[j])]
  <2>4. t[Loop[2]] = <<"array", f>>
    BY <1>0, <2>1, ArrayIs
  <2>5. z = mem[Loop[2]].at[k]
    BY DEF Get
  <2>6. f[k] = ValueIn(t, mem[Loop[2]].at[k])
    BY <1>3
  <2> HIDE DEF z, f
  <2>7. Php!Inner(<<"array", f>>, k) = f[k]
    BY WithOf
  <2> QED BY <2>3, <2>4, <2>5, <2>6, <2>7
<1>5. mem' = AssignTo(mem, Var(v), z, FALSE)
  BY <1>1
<1> HIDE DEF z
<1>6. PICK s : Becomes(mem, t, mem', s, v, ValueIn(t, z))
  BY <1>0, <1>2, <1>3, <1>5, AssignToMeans
<1>7. Becomes(mem, t, mem', s, v, Php!Inner(value["loop"], k))
  BY <1>4, <1>6
<1> QED
  BY <1>1, <1>3, <1>7, SeenAssign

\* The parameter becomes a reference to the argument.
LEMMA SendRefMeans ==
  ASSUME MemInv, NEW t, Seen(mem, t, value, linked), ~tied, SEND_REF
  PROVE  \E s : Seen(mem', s, value', linked')
<1>0. Good(mem, UNDEF, UNDEF) /\ Valued(mem, t) /\ Proper(mem) /\ Unused(mem) # {}
  BY MemFacts, RoomFor DEF Seen, SEND_REF
<1>1. PICK w \in CVs :
        /\ LET made == MAKE_REF(mem, Var(w))
               ref == Get(made, Var(w))
           IN  mem' = Put(AddRef(made, ref), Var(Param), ref)
        /\ Php!Link(Param, w)
  BY Zenon DEF SEND_REF, Promise
<1>2. w \in Vars /\ Param \in Vars
  BY Variables
<1> DEFINE made == MAKE_REF(mem, Var(w))
           ref == Get(made, Var(w))
           l == Put(AddRef(made, ref), Var(Param), ref)
<1>3. /\ \E s : Linked(mem, t, l, s, Param, w)
      /\ \E s : Linked(mem, t, Release(l, Get(made, Var(Param))), s, Param, w)
  BY <1>0, <1>2, LinkMeans
<1>4. mem' = l
  BY <1>1
<1> HIDE DEF l, made
<1>5. PICK s : Linked(mem, t, mem', s, Param, w)
  BY <1>3, <1>4
<1> QED
  BY <1>1, <1>2, <1>5, SeenLink

\* global $v;
LEMMA BindGlobalMeans ==
  ASSUME MemInv, NEW t, Seen(mem, t, value, linked), ~tied, BIND_GLOBAL
  PROVE  \E s : Seen(mem', s, value', linked')
<1>0. Good(mem, UNDEF, UNDEF) /\ Valued(mem, t) /\ Proper(mem) /\ Unused(mem) # {}
  BY MemFacts, RoomFor DEF Seen, BIND_GLOBAL
<1>1. PICK v \in CVs :
        /\ LET made == MAKE_REF(mem, Var(Global))
               ref == Get(made, Var(Global))
           IN  mem' = Release(Put(AddRef(made, ref), Var(v), ref), Get(made, Var(v)))
        /\ Php!Link(v, Global)
  BY Zenon DEF BIND_GLOBAL, Promise
<1>2. v \in Vars /\ Global \in Vars
  BY Variables
<1> DEFINE made == MAKE_REF(mem, Var(Global))
           ref == Get(made, Var(Global))
           l == Put(AddRef(made, ref), Var(v), ref)
<1>3. /\ \E s : Linked(mem, t, l, s, v, Global)
      /\ \E s : Linked(mem, t, Release(l, Get(made, Var(v))), s, v, Global)
  BY <1>0, <1>2, LinkMeans
<1>4. mem' = Release(l, Get(made, Var(v)))
  BY <1>1
<1> HIDE DEF l, made
<1>5. PICK s : Linked(mem, t, mem', s, v, Global)
  BY <1>3, <1>4
<1> QED
  BY <1>1, <1>2, <1>5, SeenLink

\* A variable that is unset first becomes a reference all the same.
LEMMA ClearedLinked ==
  ASSUME NEW m, NEW t, NEW v \in Vars, NEW w \in Vars, v # w,
         NEW l, NEW r, Cleared(m, t, l, r, {v}), NEW n, NEW s, Linked(l, r, n, s, v, w)
  PROVE  Linked(m, t, n, s, v, w)
<1>1. \A u \in Vars : /\ Says(l, r, u) = IF u = v THEN Php!Null ELSE Says(m, t, u)
                      /\ Same(l, u) = IF u = v THEN {u} ELSE Same(m, u) \ {v}
  BY DEF Cleared
<1>2. /\ Valued(n, s) /\ Proper(n)
      /\ \A u \in Vars :
           /\ Says(n, s, u) = IF u = v THEN Says(l, r, w) ELSE Says(l, r, u)
           /\ Same(n, u) = IF u \in Same(l, w) \cup {v} THEN Same(l, w) \cup {v} ELSE Same(l, u) \ {v}
  BY DEF Linked
<1>3. \A u \in Vars : Says(n, s, u) = IF u = v THEN Says(m, t, w) ELSE Says(m, t, u)
  BY <1>1, <1>2
<1>4. Same(l, w) \cup {v} = Same(m, w) \cup {v}
  BY <1>1
<1>5. \A u \in Vars : u # v => Same(l, u) \ {v} = Same(m, u) \ {v}
  BY <1>1
<1>6. \A u \in Vars : Same(n, u) = IF u \in Same(m, w) \cup {v} THEN Same(m, w) \cup {v} ELSE Same(m, u) \ {v}
  BY <1>2, <1>4, <1>5
<1> QED
  BY <1>2, <1>3, <1>6 DEF Linked

\* static $v;
LEMMA BindStaticMeans ==
  ASSUME MemInv, NEW t, Seen(mem, t, value, linked), ~tied, BIND_STATIC
  PROVE  \E s : Seen(mem', s, value', linked')
<1>0. Good(mem, UNDEF, UNDEF) /\ Valued(mem, t) /\ Proper(mem) /\ Unused(mem) # {}
  BY MemFacts, RoomFor DEF Seen, BIND_STATIC
<1>1. PICK v \in CVs :
        /\ LET freed == Release(Put(mem, Var(v), UNDEF), Get(mem, Var(v)))
               made == MAKE_REF(freed, Var("static"))
               ref == Get(made, Var("static"))
           IN  mem' = Put(AddRef(made, ref), Var(v), ref)
        /\ Php!Link(v, "static")
  BY Zenon DEF BIND_STATIC, Promise
<1>2. v \in Vars /\ "static" \in Vars /\ v # "static"
  BY Variables
<1> DEFINE freed == Release(Put(mem, Var(v), UNDEF), Get(mem, Var(v)))
           made == MAKE_REF(freed, Var("static"))
           ref == Get(made, Var("static"))
           l == Put(AddRef(made, ref), Var(v), ref)
<1>3. PICK r : Cleared(mem, t, freed, r, {v})
  BY <1>0, <1>2, UnsetMeans
<1>4. Good(freed, UNDEF, UNDEF) /\ Unused(freed) # {}
  BY <1>0, <1>2, Unset
<1>5. mem' = l
  BY <1>1
<1> HIDE DEF freed
<1>6. Valued(freed, r) /\ Proper(freed)
  BY <1>3 DEF Cleared
<1>7. /\ \E s : Linked(freed, r, l, s, v, "static")
      /\ \E s : Linked(freed, r, Release(l, Get(made, Var(v))), s, v, "static")
  BY <1>2, <1>4, <1>6, LinkMeans
<1> HIDE DEF l, made
<1>8. PICK s : Linked(freed, r, mem', s, v, "static")
  BY <1>5, <1>7
<1>9. Linked(mem, t, mem', s, v, "static")
  BY <1>2, <1>3, <1>8, ClearedLinked
<1> QED
  BY <1>1, <1>2, <1>9, SeenLink

\* The function returns: the value goes to the temporary, and its variables are unset.
LEMMA ReturnMeans ==
  ASSUME MemInv, NEW t, Seen(mem, t, value, linked), ~tied, RETURN
  PROVE  \E s : Seen(mem', s, value', linked')
<1>0. Good(mem, UNDEF, UNDEF) /\ Valued(mem, t) /\ Proper(mem)
  BY MemFacts DEF Seen
<1>1. CASE mem' = FreeCVs(mem) /\ Php!Unset(CalleeVars)
  <2>1. PICK s : Cleared(mem, t, mem', s, CalleeVars)
    BY <1>0, <1>1, FreeCVsMeans
  <2> QED BY <1>1, <2>1, SeenUnset
<1>2. ASSUME NEW v \in CalleeVars, mem' = FreeCVs(Returned(mem, v)), Php!Return("tmp", v, CalleeVars)
      PROVE  \E s : Seen(mem', s, value', linked')
  <2>1. v \in Vars \ {"tmp"} /\ "tmp" \notin CalleeVars /\ CalleeVars \subseteq Vars
    BY Variables
  <2>2. mem[VarCell].at["tmp"] = UNDEF
    BY DEF RETURN, MemInv, TempsInv
  <2> DEFINE m == Returned(mem, v)
  <2>3. Good(m, UNDEF, UNDEF)
    BY <1>0, <2>1, <2>2, ReturnedGood
  <2>4. /\ Valued(m, t) /\ Proper(m)
        /\ \A u \in Vars : /\ Same(m, u) = Same(mem, u)
                           /\ u # v => Says(m, t, u) = IF u = "tmp" THEN Says(mem, t, v) ELSE Says(mem, t, u)
    BY <1>0, <2>1, <2>2, ReturnedMeans
  <2>5. mem' = FreeCVs(m)
    BY <1>2
  <2> HIDE DEF m
  <2>6. PICK s : Cleared(m, t, mem', s, CalleeVars)
    BY <2>3, <2>4, <2>5, FreeCVsMeans
  <2>7. \A u \in Vars : /\ value'[u] = IF u = "tmp" THEN value[v]
                                       ELSE IF u \in CalleeVars THEN Php!Null ELSE value[u]
                        /\ linked'[u] = IF u \in CalleeVars THEN {u} ELSE linked[u] \ CalleeVars
    BY <1>2 DEF Php!Return
  <2>8. DOMAIN value' = Vars
    BY <1>2 DEF Php!Return
  <2>9. /\ Valued(mem', s) /\ Proper(mem')
        /\ \A u \in Vars :
             /\ Says(mem', s, u) = IF u \in CalleeVars THEN Php!Null ELSE Says(m, t, u)
             /\ Same(mem', u) = IF u \in CalleeVars THEN {u} ELSE Same(m, u) \ CalleeVars
    BY <2>6 DEF Cleared
  <2>10. \A u \in Vars : Says(mem, t, u) = value[u] /\ Same(mem, u) = linked[u]
    BY DEF Seen
  <2>11. \A u \in Vars : Says(mem', s, u) = value'[u]
    BY <1>2, <2>1, <2>4, <2>7, <2>9, <2>10
  <2>12. \A u \in Vars : Same(mem', u) = linked'[u]
    BY <2>4, <2>7, <2>9, <2>10
  <2> QED BY <2>8, <2>9, <2>11, <2>12 DEF Seen
<1> QED
  BY <1>1, <1>2, Zenon DEF RETURN, Promise

(***************************************************************************)
(* The values that ValueSemantics computes, round by round, are those that *)
(* the memory means: arrays are nested no deeper than there are cells.     *)
(***************************************************************************)
Meaning(m, s) ==
  [c \in Cells |-> IF m[c].kind = "array" THEN <<"array", [k \in Keys |-> ValueIn(s, m[c].at[k])]>>
                   ELSE NULL]
Wrong(s, t) == {c \in Cells : s[c] # t[c]}

LEMMA ValuesIterate ==
  \E f : /\ f[0] = [c \in Cells |-> NULL]
         /\ \A n \in 1 .. MaxCells : f[n] = Meaning(mem, f[n - 1])
         /\ ArrayValues = f[MaxCells]
<1> DEFINE None == [c \in Cells |-> NULL]
           More(inner) == [c \in Cells |-> IF mem[c].kind = "array"
                             THEN <<"array", [k \in Keys |-> ValueIn(inner, mem[c].at[k])]>>
                             ELSE NULL]
           Rounds(N, f) == f = [n \in 0 .. N |-> IF n = 0 THEN None ELSE More(f[n - 1])]
           Bad == {N \in Nat : ~\E f : Rounds(N, f)}
           after == CHOOSE f : Rounds(MaxCells, f)
<1>0. ArrayValues = after[MaxCells]
  BY Zenon DEF ArrayValues
<1>00. \A s : More(s) = Meaning(mem, s)
  BY Zenon DEF Meaning
<1>01. None = [c \in Cells |-> NULL]
  OBVIOUS
<1> HIDE DEF More, None
<1>1. Bad = {}
  <2> SUFFICES ASSUME Bad # {} PROVE FALSE
    OBVIOUS
  <2>1. PICK N \in Bad : \A y \in Bad : N <= y
    <3> HIDE DEF Rounds
    <3> QED BY Least
  <2>2. CASE N = 0
    <3>1. Rounds(0, [n \in 0 .. 0 |-> None])
      OBVIOUS
    <3> QED
      BY <2>1, <2>2, <3>1
  <2>3. CASE N # 0
    <3>1. N - 1 \in Nat /\ N - 1 \notin Bad
      <4> HIDE DEF Rounds
      <4> QED BY <2>1, <2>3
    <3>2. PICK f : Rounds(N - 1, f)
      BY <3>1
    <3> DEFINE g == [n \in 0 .. N |-> IF n = N THEN More(f[N - 1]) ELSE f[n]]
    <3>3. \A n \in 0 .. N : n = N \/ n \in 0 .. N - 1
      BY <2>1
    <3>4. \A n \in 0 .. N : n # 0 => n - 1 \in 0 .. N - 1 /\ n - 1 # N /\ n - 1 \in 0 .. N
      BY <2>1
    <3>5. \A n \in 0 .. N : g[n] = IF n = 0 THEN None ELSE More(g[n - 1])
      <4> TAKE n \in 0 .. N
      <4>1. CASE n = N
        <5>1. g[n] = More(f[N - 1]) /\ g[n - 1] = f[N - 1]
          BY <4>1, <2>3, <3>4, Zenon
        <5> QED BY <4>1, <5>1, <2>3
      <4>2. CASE n # N
        <5>1. n \in 0 .. N - 1 /\ g[n] = f[n]
          BY <4>2, <3>3, Zenon
        <5>2. n # 0 => g[n - 1] = f[n - 1]
          BY <3>4, Zenon
        <5>3. f[n] = IF n = 0 THEN None ELSE More(f[n - 1])
          BY <3>2, <5>1
        <5> QED BY <5>1, <5>2, <5>3, Zenon
      <4> QED BY <4>1, <4>2
    <3>6. Rounds(N, g)
      BY <3>5
    <3> QED
      BY <3>6, <2>1
  <2> QED
    BY <2>2, <2>3
<1>2. MaxCells \in Nat
  BY BoundsAssumption
<1>3. \E f : Rounds(MaxCells, f)
  BY <1>1, <1>2
<1>4. Rounds(MaxCells, after)
  <2> HIDE DEF Rounds
  <2> QED BY <1>3, Zenon
<1>6. \A n \in 0 .. MaxCells : after[n] = IF n = 0 THEN None ELSE More(after[n - 1])
  <2> HIDE DEF after
  <2> QED BY <1>4
<1> HIDE DEF after
<1>7. after[0] = None
  BY <1>6, <1>2
<1>8. \A n \in 1 .. MaxCells : after[n] = More(after[n - 1])
  BY <1>6, <1>2
<1> QED
  BY <1>0, <1>00, <1>01, <1>7, <1>8

\* A round leaves an array wrong when it contains one that was wrong before.
LEMMA WrongInside ==
  ASSUME NEW m, Shape(m), Sound(m), NEW t, Valued(m, t), NEW s, NEW c \in Cells
  PROVE  c \in Wrong(Meaning(m, s), t) <=>
           m[c].kind = "array" /\ \E k \in Keys : IsArr(m[c].at[k]) /\ m[c].at[k][2] \in Wrong(s, t)
<1>1. CASE m[c].kind # "array"
  BY <1>1 DEF Wrong, Meaning, Valued
<1>2. CASE m[c].kind = "array"
  <2> DEFINE f == [k \in Keys |-> ValueIn(s, m[c].at[k])]
             g == [k \in Keys |-> ValueIn(t, m[c].at[k])]
  <2>1. Meaning(m, s)[c] = <<"array", f>> /\ t[c] = <<"array", g>>
    BY <1>2 DEF Meaning, Valued
  <2>2. f # g <=> \E k \in Keys : ValueIn(s, m[c].at[k]) # ValueIn(t, m[c].at[k])
    OBVIOUS
  <2> HIDE DEF f, g
  <2>3. ASSUME NEW k \in Keys
        PROVE  ValueIn(s, m[c].at[k]) # ValueIn(t, m[c].at[k]) <=>
                 IsArr(m[c].at[k]) /\ m[c].at[k][2] \in Wrong(s, t)
    <3>1. Points(m, m[c].at[k])
      BY <1>2 DEF Shape, CellShape, Sound
    <3> DEFINE z == m[c].at[k]
    <3> HIDE DEF z
    <3>2. Points(m, z)
      BY <3>1 DEF z
    <3>3. ValueIn(s, z) # ValueIn(t, z) <=> IsArr(z) /\ z[2] \in Wrong(s, t)
      BY <3>2, ValueInCases DEF Points, Wrong
    <3> QED BY <3>3 DEF z
  <2>4. c \in Wrong(Meaning(m, s), t) <=> f # g
    BY <2>1 DEF Wrong
  <2> QED BY <1>2, <2>2, <2>3, <2>4
<1> QED
  BY <1>1, <1>2

\* When no array contains itself, of any arrays one contains none of the others.
LEMMA NoneWithoutEnd ==
  ASSUME NEW m, Founded(m), NEW S \in SUBSET Cells, \A c \in S : \E d \in S : Leads(m, c, d)
  PROVE  S = {}
<1> DEFINE Endless(T) == T # {} /\ \A c \in T : \E d \in T : Leads(m, c, d)
           Sizes == {Cardinality(T) : T \in {T \in SUBSET Cells : Endless(T)}}
<1>1. \A T \in SUBSET Cells : IsFiniteSet(T) /\ Cardinality(T) \in Nat
  BY Cell, FS_Subset, FS_CardinalityType
<1> SUFFICES ASSUME S # {} PROVE FALSE
  OBVIOUS
<1>2. Sizes \subseteq Nat /\ Sizes # {}
  <2>1. Endless(S)
    OBVIOUS
  <2> HIDE DEF Endless
  <2> QED BY <1>1, <2>1
<1>3. PICK n \in Sizes : \A j \in Sizes : n <= j
  <2> HIDE DEF Sizes
  <2> QED BY <1>2, Least
<1>4. PICK T \in SUBSET Cells : Endless(T) /\ n = Cardinality(T)
  BY <1>3
<1>5. PICK c \in T : \A d \in T : ~Leads(m, d, c)
  BY <1>4 DEF Founded
<1>6. Endless(T \ {c})
  BY <1>4, <1>5
<1>7. Cardinality(T \ {c}) = n - 1 /\ n \in Nat
  BY <1>1, <1>4, FS_RemoveElement
<1>8. Cardinality(T \ {c}) \in Sizes
  <2> HIDE DEF Endless
  <2> QED BY <1>6
<1> QED
  BY <1>3, <1>7, <1>8

\* As many rounds as there are cells give the value of every array.
LEMMA RoundsSuffice ==
  ASSUME NEW m, Shape(m), Sound(m), Founded(m), NEW t, Valued(m, t),
         NEW f, f[0] = [c \in Cells |-> NULL], \A n \in 1 .. MaxCells : f[n] = Meaning(m, f[n - 1])
  PROVE  \A c \in Cells : f[MaxCells][c] = t[c]
<1> DEFINE W(n) == Wrong(f[n], t)
           Ok(n) == /\ n \in 1 .. MaxCells => W(n) \subseteq W(n - 1)
                    /\ W(n) # {} => Cardinality(W(n)) + n <= MaxCells
           Bad == {n \in 0 .. MaxCells : ~Ok(n)}
<1>0. MaxCells \in Nat
  BY BoundsAssumption
<1>1. \A n : W(n) \subseteq Cells /\ IsFiniteSet(W(n)) /\ Cardinality(W(n)) \in Nat
  BY Cell, FS_Subset, FS_CardinalityType DEF Wrong
<1>2. ASSUME NEW n \in 1 .. MaxCells, NEW c \in Cells
      PROVE  c \in W(n) <=> m[c].kind = "array" /\ \E k \in Keys : IsArr(m[c].at[k]) /\ m[c].at[k][2] \in W(n - 1)
  <2>1. f[n] = Meaning(m, f[n - 1])
    OBVIOUS
  <2> QED BY <2>1, WrongInside
<1>3. \A c \in Cells : c \in W(0) <=> m[c].kind = "array"
  <2> SUFFICES ASSUME NEW c \in Cells PROVE f[0][c] # t[c] <=> m[c].kind = "array"
    BY DEF Wrong
  <2>1. f[0][c] = NULL
    OBVIOUS
  <2>2. CASE m[c].kind = "array"
    <3>1. t[c] = <<"array", [k \in Keys |-> ValueIn(t, m[c].at[k])]>>
      BY <2>2, ArrayIs
    <3> QED BY <2>1, <2>2, <3>1 DEF NULL
  <2>3. CASE m[c].kind # "array"
    BY <2>1, <2>3 DEF Valued
  <2> QED BY <2>2, <2>3
<1> HIDE DEF W
<1>4. Cardinality(W(0)) <= MaxCells
  <2>1. Cardinality(Cells) = MaxCells
    BY <1>0, FS_Interval DEF Cells
  <2> QED BY <1>1, <2>1, Cell, FS_Subset
<1>5. ASSUME NEW n \in 1 .. MaxCells, W(n) = W(n - 1)
      PROVE  W(n) = {}
  <2>1. ASSUME NEW c \in W(n) PROVE \E d \in W(n) : Leads(m, c, d)
    <3>1. PICK k \in Keys : IsArr(m[c].at[k]) /\ m[c].at[k][2] \in W(n)
      BY <1>1, <1>2, <1>5, <2>1
    <3>2. m[c].kind = "array" /\ c \in Cells /\ m[c].at[k][2] \in Cells
      BY <1>1, <1>2, <2>1, <3>1
    <3>3. m[c].at[k][2] # Literal
      <4>1. ~\E j \in Keys : IsArr(m[Literal].at[j])
        BY Undefined DEF Shape, NoElements
      <4> QED BY <1>2, <3>1, <4>1, Cell
    <3>4. Holder(m, <<c, k>>, m[c].at[k][2])
      <4>1. k \in DOMAIN m[c].at
        BY <3>2 DEF Shape, CellShape
      <4>2. IsPlace(m, <<c, k>>)
        BY <3>2, <4>1, PlaceOf
      <4>3. Get(m, <<c, k>>) = m[c].at[k] /\ Refcounted(m[c].at[k])
        BY <3>1, <3>3 DEF Get, Refcounted
      <4> QED BY <4>2, <4>3 DEF Holder
    <3>5. Leads(m, c, m[c].at[k][2])
      BY <3>2, <3>4 DEF Leads
    <3> QED BY <3>1, <3>5
  <2> QED BY <1>1, <2>1, NoneWithoutEnd
<1>6. Bad = {}
  <2> SUFFICES ASSUME Bad # {} PROVE FALSE
    OBVIOUS
  <2>1. PICK n \in Bad : \A j \in Bad : n <= j
    <3>1. Bad \subseteq Nat
      BY <1>0
    <3> HIDE DEF Bad
    <3> QED BY <3>1, Least
  <2>2. n # 0
    <3>1. Cardinality(W(0)) + 0 <= MaxCells /\ 0 \notin 1 .. MaxCells
      BY <1>0, <1>1, <1>4
    <3>2. Ok(0)
      BY <3>1
    <3> QED BY <2>1, <3>2
  <2>3. n \in 1 .. MaxCells /\ n - 1 \in 0 .. MaxCells /\ n - 1 \notin Bad
    BY <1>0, <2>1, <2>2
  <2>4. Ok(n - 1)
    BY <2>3
  <2>5. W(n) \subseteq W(n - 1)
    <3>1. ASSUME NEW c \in W(n) PROVE c \in W(n - 1)
      <4>1. c \in Cells /\ m[c].kind = "array" /\ \E k \in Keys : IsArr(m[c].at[k]) /\ m[c].at[k][2] \in W(n - 1)
        BY <1>1, <1>2, <2>3, <3>1
      <4>2. CASE n - 1 = 0
        BY <1>3, <4>1, <4>2
      <4>3. CASE n - 1 # 0
        <5>1. n - 1 \in 1 .. MaxCells
          BY <2>3, <4>3
        <5>2. W(n - 1) \subseteq W(n - 1 - 1)
          BY <2>4, <5>1
        <5> QED BY <1>2, <4>1, <5>1, <5>2
      <4> QED BY <4>2, <4>3
    <3> QED BY <3>1
  <2>6. W(n) # {} => Cardinality(W(n)) + n <= MaxCells
    <3> SUFFICES ASSUME W(n) # {} PROVE Cardinality(W(n)) + n <= MaxCells
      OBVIOUS
    <3>1. W(n) # W(n - 1) /\ W(n - 1) # {}
      BY <1>5, <2>3, <2>5
    <3>2. Cardinality(W(n)) < Cardinality(W(n - 1))
      <4>1. Cardinality(W(n)) <= Cardinality(W(n - 1)) /\ (Cardinality(W(n)) = Cardinality(W(n - 1)) => W(n) = W(n - 1))
        BY <1>1, <2>5, FS_Subset
      <4> QED BY <1>1, <3>1, <4>1
    <3>3. Cardinality(W(n - 1)) + (n - 1) <= MaxCells
      BY <2>4, <3>1
    <3> QED BY <1>0, <1>1, <2>3, <3>2, <3>3
  <2> QED BY <2>1, <2>5, <2>6
<1>7. W(MaxCells) = {}
  <2>1. Ok(MaxCells)
    BY <1>0, <1>6
  <2>2. SUFFICES ASSUME W(MaxCells) # {} PROVE FALSE
    OBVIOUS
  <2>3. Cardinality(W(MaxCells)) = 0
    BY <1>0, <1>1, <2>1, <2>2
  <2> QED BY <1>1, <2>2, <2>3, FS_EmptySet
<1> QED
  BY <1>7 DEF W, Wrong

LEMMA SeenIs ==
  ASSUME MemInv, Founded(mem), NEW t, Seen(mem, t, value, linked), NEW v \in Vars
  PROVE  ValueIn(ArrayValues, Read(mem, v)) = value[v] /\ LinkedTo(v) = linked[v]
<1>0. Shape(mem) /\ Sound(mem) /\ Valued(mem, t)
  BY MemFacts DEF Seen
<1>1. PICK f : /\ f[0] = [c \in Cells |-> NULL]
               /\ \A n \in 1 .. MaxCells : f[n] = Meaning(mem, f[n - 1])
               /\ ArrayValues = f[MaxCells]
  BY ValuesIterate
<1>2. \A c \in Cells : ArrayValues[c] = t[c]
  BY <1>0, <1>1, RoundsSuffice
<1>3. Points(mem, Read(mem, v)) /\ Read(mem, v) # UNDEF
  BY <1>0, ReadGood
<1>4. ValueIn(ArrayValues, Read(mem, v)) = ValueIn(t, Read(mem, v))
  BY <1>2, <1>3, ValueInCases DEF Points
<1>5. LinkedTo(v) = Same(mem, v)
  BY DEF LinkedTo, Same
<1> QED
  BY <1>4, <1>5 DEF Seen, Says

\* The invariant: the memory means what is promised, unless an array contains itself.
MeansInv == ~tied => \E t : Seen(mem, t, value, linked)

LEMMA MeansInit == Init => MeansInv
<1> SUFFICES ASSUME Init PROVE \E t : Seen(mem, t, value, linked)
  BY DEF MeansInv
<1> DEFINE f == [k \in Keys |-> Php!Absent]
           t == [c \in Cells |-> IF c = Literal THEN <<"array", f>> ELSE NULL]
<1>1. Shape(mem) /\ mem[VarCell].at = [v \in Vars |-> UNDEF]
  BY MemInvInit, MemFacts, Cell DEF Init
<1>2. \A c \in Cells : mem[c].kind = "array" <=> c = Literal
  BY Cell DEF Init, FreeCell
<1>3. Valued(mem, t)
  <2>1. ASSUME NEW c \in Cells
        PROVE  t[c] = IF mem[c].kind = "array" THEN <<"array", [k \in Keys |-> ValueIn(t, mem[c].at[k])]>>
                      ELSE NULL
    <3>1. CASE c # Literal
      BY <1>2, <3>1
    <3>2. CASE c = Literal
      <4>1. mem[c].at = NoElements /\ mem[c].kind = "array"
        BY <1>1, <3>2 DEF Shape
      <4>2. \A k \in Keys : mem[c].at[k] = UNDEF
        BY <4>1 DEF NoElements
      <4>3. t[c] = <<"array", f>>
        BY <3>2
      <4> HIDE DEF t
      <4>4. \A k \in Keys : ValueIn(t, mem[c].at[k]) = Php!Absent
        BY <4>2, ValueInCases
      <4>5. f = [k \in Keys |-> ValueIn(t, mem[c].at[k])]
        BY <4>4
      <4> QED BY <4>1, <4>3, <4>5
    <3> QED BY <3>1, <3>2
  <2>2. DOMAIN t = Cells
    OBVIOUS
  <2> HIDE DEF t
  <2> QED BY <2>1, <2>2 DEF Valued
<1> HIDE DEF t
<1>4. \A v \in Vars : Get(mem, Var(v)) = UNDEF
  BY <1>1, VarPlace
<1>5. \A v \in Vars : Read(mem, v) = NULL /\ Same(mem, v) = {v}
  BY <1>4, Undefined, ReadIs, SameIs
<1>6. Proper(mem)
  BY <1>4, Undefined DEF Proper
<1>7. ValueIn(t, NULL) = Php!Null
  BY Undefined, ValueInCases DEF NULL, Php!Null
<1>8. DOMAIN value = Vars /\ \A v \in Vars : value[v] = Php!Null /\ linked[v] = {v}
  BY DEF Init, Php!Init
<1>9. Seen(mem, t, value, linked)
  BY <1>3, <1>5, <1>6, <1>7, <1>8 DEF Seen, Says
<1> QED
  BY <1>9

LEMMA MeansNext == MemInv /\ MeansInv /\ [Next]_vars => MeansInv'
<1> SUFFICES ASSUME MemInv, MeansInv, [Next]_vars, ~tied' PROVE \E s : Seen(mem', s, value', linked')
  BY DEF MeansInv
<1>1. ~tied
  BY TiedStays
<1>2. PICK t : Seen(mem, t, value, linked)
  BY <1>1 DEF MeansInv
<1>3. CASE UNCHANGED vars
  <2>1. mem' = mem /\ value' = value /\ linked' = linked
    BY <1>3 DEF vars
  <2> QED BY <1>2, <2>1
<1>4. CASE Next
  BY <1>1, <1>2, <1>4, AssignMeans, AssignTmpMeans, AssignRefMeans, UnsetCVMeans, AssignDimLongMeans,
     AssignDimMeans, AssignDimTmpMeans, AssignInnerDimMeans, FetchRMeans, FreeMeans, SendVarMeans,
     SendRefMeans, BindGlobalMeans, BindStaticMeans, ReturnMeans, FeResetMeans, FeFetchMeans,
     FeFreeMeans, Zenon DEF Next
<1> QED
  BY <1>3, <1>4

\* Sharing and copying cannot be seen: after any opcodes every variable has the value and
\* the references that PhpVariables promises, as if each assignment copied the array, unless
\* an array was stored in an element of itself.
THEOREM SharingNotSeen == Spec => []ValueSemantics
<1> DEFINE Inv == MemInv /\ (~tied => Tidy(mem)) /\ MeansInv
<1>1. Init => Inv
  BY MemInvInit, TidyInit, MeansInit
<1>2. Inv /\ [Next]_vars => Inv'
  BY MemInvNext, TidyNext, MeansNext
<1>3. Inv => ValueSemantics
  <2> SUFFICES ASSUME Inv, ~tied PROVE \A v \in Vars : /\ ValueIn(ArrayValues, Read(mem, v)) = value[v]
                                                       /\ LinkedTo(v) = linked[v]
    BY Zenon DEF ValueSemantics
  <2>1. PICK t : Seen(mem, t, value, linked)
    BY DEF MeansInv
  <2>2. MemInv /\ Founded(mem)
    BY DEF Tidy
  <2> QED BY <2>1, <2>2, SeenIs
<1> QED
  BY <1>1, <1>2, <1>3, PTL DEF Spec
================================================================================
