------------------------------ MODULE ZendVariables -----------------------------
(***************************************************************************)
(* Variables of the shipped PHP as its headers implement them: values      *)
(* shared with a reference count, copied only when one holder writes       *)
(* (SEPARATE_ARRAY), references as counted cells of their own, and array   *)
(* literals that are shared without a count (zend_types.h, zend_execute.h, *)
(* zend_variables.h; the opcodes are those of zend_vm_def.h).              *)
(*                                                                         *)
(* Memory is a set of numbered cells.  Cell 0 holds the variables, cell 1  *)
(* is the empty array, which is immutable; the others are reference        *)
(* and array cells.  A zval is a pair of a type and a value or the number  *)
(* of a cell; a zval * is the pair of a cell and a place in it.  One       *)
(* action is one opcode (two where the second uses a pointer of the first).*)
(***************************************************************************)
EXTENDS Integers, FiniteSets

CONSTANTS
  MainVars, CalleeVars,  \* compiled variables of the main script, of a function
  Param,                 \* the parameter of the function
  Global,                \* the main script's variable that the function binds
  NumKeys, Longs,        \* the keys 1 .. NumKeys of arrays, scalars
  MaxCells               \* bound: cells of memory, with the first two

ASSUME VarsAssumption ==
  /\ MainVars \cap CalleeVars = {} /\ Param \in CalleeVars /\ Global \in MainVars
  /\ (MainVars \cup CalleeVars) \cap {"static", "tmp", "loop"} = {}
  /\ IsFiniteSet(MainVars) /\ IsFiniteSet(CalleeVars)
ASSUME BoundsAssumption ==
  NumKeys \in Nat /\ MaxCells \in Nat /\ MaxCells >= 2 /\ Longs \subseteq Int

\* The static variable of the function, a temporary, the variable of a foreach.
Vars == MainVars \cup CalleeVars \cup {"static", "tmp", "loop"}
Keys == 1 .. NumKeys
Cells == 0 .. MaxCells - 1
VarCell == 0
Literal == 1      \* zend_empty_array
REFVAL == 0       \* the place of the value in a reference

UNDEF == <<"undef", 0>>
NULL == <<"null", 0>>
LONG(n) == <<"long", n>>
ARR(c) == <<"array", c>>
REF(c) == <<"ref", c>>
IsArr(z) == z[1] = "array"
IsRef(z) == z[1] = "ref"
Refcounted(z) == IsRef(z) \/ (IsArr(z) /\ z[2] # Literal)

FreeCell == [kind |-> "free", rc |-> 0, at |-> [k \in {} |-> UNDEF]]
ArrayCell(elements) == [kind |-> "array", rc |-> 1, at |-> elements]
NoElements == [k \in Keys |-> UNDEF]

VARIABLES
  mem,      \* the cells
  frame,    \* "main" or "function": whose opcodes are executed
  pos,      \* Z_FE_POS of the foreach loop
  value,    \* history: the values that PhpVariables promises
  linked,   \* history: the references that PhpVariables promises
  tied      \* history: an array was stored in an element of itself

vars == <<mem, frame, pos, value, linked, tied>>

Php == INSTANCE PhpVariables

Init ==
  /\ mem = [c \in Cells |->
       CASE c = VarCell -> [kind |-> "vars", rc |-> 1, at |-> [v \in Vars |-> UNDEF]]
         [] c = Literal -> [kind |-> "array", rc |-> 2, at |-> NoElements]
         [] OTHER -> FreeCell]
  /\ frame = "main"
  /\ pos = 0
  /\ Php!Init
  /\ tied = FALSE

(***************************************************************************)
(* Operations on a memory m.                                               *)
(***************************************************************************)

Var(v) == <<VarCell, v>>
Get(m, p) == m[p[1]].at[p[2]]
Put(m, p, z) == [m EXCEPT ![p[1]].at[p[2]] = z]

\* Z_REFVAL_P and the macros that look through a reference.
DEREF(m, p) == IF IsRef(Get(m, p)) THEN <<Get(m, p)[2], REFVAL>> ELSE p
\* GET_OP_ZVAL_PTR(BP_VAR_R) of a CV: an undefined variable reads as null.
Read(m, v) == LET z == Get(m, DEREF(m, Var(v))) IN IF z = UNDEF THEN NULL ELSE z

Unused(m) == {c \in Cells : m[c].kind = "free"}
NewCell(m) == CHOOSE c \in Unused(m) : \A d \in Unused(m) : c <= d
Room(n) == Cardinality(Unused(mem)) >= n

AddRef(m, z) == IF Refcounted(z) THEN [m EXCEPT ![z[2]].rc = @ + 1] ELSE m

\* rc_dtor_func: cells whose count has come to zero are freed, and what they
\* held loses a holder; again, as long as there are such cells.
Pointers(m, from, c) ==
  {p \in UNION {{d} \X DOMAIN m[d].at : d \in from} :
     Refcounted(Get(m, p)) /\ Get(m, p)[2] = c}
Dead(m) == {c \in Cells : m[c].kind \in {"array", "ref"} /\ m[c].rc = 0}
DestroyDead(m) ==
  LET dead == Dead(m)
  IN  [c \in Cells |-> IF c \in dead THEN FreeCell
                       ELSE [m[c] EXCEPT !.rc = @ - Cardinality(Pointers(m, dead, c))]]
Destroy(m) ==
  LET after[n \in 0 .. MaxCells] ==
        IF n = 0 THEN m ELSE LET before == after[n - 1] IN DestroyDead(before)
  IN  after[MaxCells]

\* i_zval_ptr_dtor of a zval that was in memory.
Release(m, z) ==
  IF ~Refcounted(z) THEN m
  ELSE LET less == [m EXCEPT ![z[2]].rc = @ - 1]
       IN  IF less[z[2]].rc = 0 THEN Destroy(less) ELSE less

\* zend_array_dup.
Dup(m, c) ==
  [d \in Cells |-> IF d = NewCell(m) THEN ArrayCell(m[c].at)
                   ELSE [m[d] EXCEPT !.rc = @ + Cardinality(Pointers(m, {c}, d))]]

\* Faulty variant: an array is copied only when three hold it.
SeparateLate(m, p) ==
  LET c == Get(m, p)[2]
  IN  IF m[c].rc <= 2 THEN m
      ELSE LET dup == Put(Dup(m, c), p, ARR(NewCell(m)))
           IN  IF c = Literal THEN dup ELSE [dup EXCEPT ![c].rc = @ - 1]

\* SEPARATE_ARRAY: an array that others hold too is copied before it is written.
SEPARATE_ARRAY(m, p) ==
  LET c == Get(m, p)[2]
  IN  IF m[c].rc <= 1 THEN m
      ELSE LET dup == Put(Dup(m, c), p, ARR(NewCell(m)))
           IN  IF c = Literal THEN dup ELSE [dup EXCEPT ![c].rc = @ - 1]

\* ZVAL_MAKE_REF_EX(p, 1).
MAKE_REF(m, p) ==
  IF IsRef(Get(m, p)) THEN m
  ELSE LET c == NewCell(m)
           z == IF Get(m, p) = UNDEF THEN NULL ELSE Get(m, p)
       IN  Put([m EXCEPT ![c] = [kind |-> "ref", rc |-> 1, at |-> [x \in {REFVAL} |-> z]]],
               p, REF(c))

\* Faulty variant: the old value is released before the new one is counted.
ReleaseFirst(m, p, z, owned) ==
  LET variable_ptr == DEREF(m, p)
      released == Release(m, Get(m, variable_ptr))
  IN  Put(IF owned THEN released ELSE AddRef(released, z), variable_ptr, z)

\* zend_assign_to_variable: the place p, or what it is a reference to, gets z.  A
\* temporary gives its count away (owned), a variable keeps it.
AssignTo(m, p, z, owned) ==
  LET variable_ptr == DEREF(m, p)
      garbage == Get(m, variable_ptr)
      copied == IF owned THEN m ELSE AddRef(m, z)
  IN  Release(Put(copied, variable_ptr, z), garbage)

\* zend_assign_to_variable_reference.
AssignRefTo(m, v, w) ==
  LET made == MAKE_REF(m, Var(w))
      ref == Get(made, Var(w))
      garbage == Get(made, Var(v))
  IN  IF v = w /\ IsRef(Get(m, Var(v))) THEN m
      ELSE Release(Put(AddRef(made, ref), Var(v), ref), garbage)

(***************************************************************************)
(* Opcodes.  A frame's opcodes use its own compiled variables; temporaries *)
(* are used by the main script, where "tmp" is written only when unused.   *)
(***************************************************************************)

CVs == IF frame = "main" THEN MainVars ELSE CalleeVars
Tmp == Get(mem, Var("tmp"))
NoTmp == frame = "main" /\ Tmp = UNDEF
HasTmp == frame = "main" /\ Tmp # UNDEF
\* The memory without the temporary, whose count goes where it is put next.
WithoutTmp == Put(mem, Var("tmp"), UNDEF)

\* The history: what PhpVariables says of an opcode, or no promise any more once
\* an array contains itself.
Promise(A) ==
  /\ UNCHANGED tied
  /\ IF tied THEN UNCHANGED <<value, linked>> ELSE A

\* $v = 1; $v = []; $v = $w;
ASSIGN ==
  /\ \E v \in CVs :
       \/ /\ mem' = AssignTo(mem, Var(v), ARR(Literal), FALSE)
          /\ Promise(Php!Assign(v, Php!Empty, {}))
       \/ \E n \in Longs :
            /\ mem' = AssignTo(mem, Var(v), LONG(n), FALSE)
            /\ Promise(Php!Assign(v, Php!Long(n), {}))
       \/ \E w \in CVs :
            /\ mem' = AssignTo(mem, Var(v), Read(mem, w), FALSE)
            /\ Promise(Php!Assign(v, value[w], {}))
  /\ UNCHANGED <<frame, pos>>

AssignTmp ==
  /\ HasTmp
  /\ \E v \in CVs :
       /\ mem' = AssignTo(WithoutTmp, Var(v), Tmp, TRUE)
       /\ Promise(Php!Assign(v, value["tmp"], {"tmp"}))
  /\ UNCHANGED <<frame, pos>>

\* $v = &$w;
ASSIGN_REF ==
  /\ Room(1)
  /\ \E v \in CVs, w \in CVs :
       /\ mem' = AssignRefTo(mem, v, w)
       /\ Promise(Php!Link(v, w))
  /\ UNCHANGED <<frame, pos>>

UNSET_CV ==
  /\ \E v \in CVs :
       /\ mem' = Release(Put(mem, Var(v), UNDEF), Get(mem, Var(v)))
       /\ Promise(Php!Unset({v}))
  /\ UNCHANGED <<frame, pos>>

\* The array to write to at p: a new one in place of nothing, or its own copy.
ArrayAt(m, p) ==
  IF IsArr(Get(m, p)) THEN SEPARATE_ARRAY(m, p)
  ELSE Put([m EXCEPT ![NewCell(m)] = ArrayCell(NoElements)], p, ARR(NewCell(m)))
Assignable(m, p) == IsArr(Get(m, p)) \/ Get(m, p) \in {UNDEF, NULL}

\* The array is separated before the value is stored.
StoreDim(m, p, k, z, owned) ==
  LET own == ArrayAt(m, p)
  IN  AssignTo(own, <<Get(own, p)[2], k>>, z, owned)

\* $v[k] = 1;
AssignDimLong ==
  /\ Room(1)
  /\ \E v \in CVs, k \in Keys, n \in Longs :
       LET p == DEREF(mem, Var(v))
       IN  /\ Assignable(mem, p)
           /\ mem' = StoreDim(mem, p, k, LONG(n), TRUE)
           /\ Promise(Php!AssignDim(v, k, Php!Long(n), {}))
  /\ UNCHANGED <<frame, pos>>

\* $v[k] = $w; the compiler takes a copy first (FETCH_R) when $w is $v itself, but
\* through a reference the value may still be the array that is written: it is
\* then stored in an element of itself.
ASSIGN_DIM ==
  /\ Room(1)
  /\ \E v \in CVs, w \in CVs, k \in Keys :
       LET p == DEREF(mem, Var(v))
           own == ArrayAt(mem, p)
           z == Read(own, w)
       IN  /\ v # w /\ Assignable(mem, p)
           /\ mem' = StoreDim(mem, p, k, z, FALSE)
           /\ IF IsArr(z) /\ z[2] = Get(own, p)[2]
              THEN Php!Unset(Vars) /\ tied' = TRUE
              ELSE Promise(Php!AssignDim(v, k, value[w], {}))
  /\ UNCHANGED <<frame, pos>>

AssignDimTmp ==
  /\ HasTmp /\ Room(1)
  /\ \E v \in CVs, k \in Keys :
       LET p == DEREF(WithoutTmp, Var(v))
       IN  \/ /\ Assignable(WithoutTmp, p)
              /\ mem' = StoreDim(WithoutTmp, p, k, Tmp, TRUE)
              /\ Promise(Php!AssignDim(v, k, value["tmp"], {"tmp"}))
           \/ \* zend_use_scalar_as_array, assign_dim_error: FREE_OP_DATA
              /\ ~Assignable(WithoutTmp, p)
              /\ mem' = Release(WithoutTmp, Tmp)
              /\ Promise(Php!Unset({"tmp"}))
  /\ UNCHANGED <<frame, pos>>

\* $v[k][l] = 1: FETCH_DIM_W and ASSIGN_DIM on the element it points to.
AssignInnerDim ==
  /\ Room(2)
  /\ \E v \in CVs, k \in Keys, l \in Keys, n \in Longs :
       LET p == DEREF(mem, Var(v))
           own == ArrayAt(mem, p)
           inner == <<Get(own, p)[2], k>>
       IN  /\ Assignable(mem, p) /\ Assignable(own, inner)
           /\ mem' = StoreDim(own, inner, l, LONG(n), TRUE)
           /\ Promise(Php!AssignInner(v, k, l, Php!Long(n)))
  /\ UNCHANGED <<frame, pos>>

\* Faulty variant: a reference is copied as it is.
CopyPlain(m, v, w) ==
  LET z == Get(m, Var(w)) IN Put(AddRef(m, z), Var(v), IF z = UNDEF THEN NULL ELSE z)

\* ZVAL_COPY_DEREF of a variable to another place, which held nothing.
CopyTo(m, v, w) == Put(AddRef(m, Read(m, w)), Var(v), Read(m, w))

FETCH_R ==
  /\ NoTmp
  /\ \E w \in CVs :
       /\ mem' = CopyTo(mem, "tmp", w)
       /\ Promise(Php!Assign("tmp", value[w], {}))
  /\ UNCHANGED <<frame, pos>>

FREE ==
  /\ HasTmp
  /\ mem' = Release(WithoutTmp, Tmp)
  /\ Promise(Php!Unset({"tmp"}))
  /\ UNCHANGED <<frame, pos>>

(***************************************************************************)
(* Calls: the argument is a copy (SEND_VAR) or a reference (SEND_REF).     *)
(***************************************************************************)

SEND_VAR ==
  /\ NoTmp
  /\ \E w \in CVs :
       /\ mem' = CopyTo(mem, Param, w)
       /\ Promise(Php!Assign(Param, value[w], {}))
  /\ frame' = "function"
  /\ UNCHANGED pos

SEND_REF ==
  /\ NoTmp /\ Room(1)
  /\ \E w \in CVs :
       LET made == MAKE_REF(mem, Var(w))
           ref == Get(made, Var(w))
       IN  /\ mem' = Put(AddRef(made, ref), Var(Param), ref)
           /\ Promise(Php!Link(Param, w))
  /\ frame' = "function"
  /\ UNCHANGED pos

\* global $v;
BIND_GLOBAL ==
  /\ frame = "function" /\ Room(1)
  /\ \E v \in CVs :
       LET made == MAKE_REF(mem, Var(Global))
           ref == Get(made, Var(Global))
       IN  /\ mem' = Release(Put(AddRef(made, ref), Var(v), ref), Get(made, Var(v)))
           /\ Promise(Php!Link(v, Global))
  /\ UNCHANGED <<frame, pos>>

\* static $v; the old value of the variable is released first.
BIND_STATIC ==
  /\ frame = "function" /\ Room(1)
  /\ \E v \in CVs :
       LET freed == Release(Put(mem, Var(v), UNDEF), Get(mem, Var(v)))
           made == MAKE_REF(freed, Var("static"))
           ref == Get(made, Var("static"))
       IN  /\ mem' = Put(AddRef(made, ref), Var(v), ref)
           /\ Promise(Php!Link(v, "static"))
  /\ UNCHANGED <<frame, pos>>

\* Faulty variant: the returned variable keeps its value, too.
ReturnedKept(m, v) ==
  LET z == Get(m, Var(v))
  IN  IF IsRef(z) THEN CopyTo(m, "tmp", v)
      ELSE Put(m, Var("tmp"), IF z = UNDEF THEN NULL ELSE z)

\* RETURN of a variable: its value moves to the result, unless it is a
\* reference, whose value is copied.
Returned(m, v) ==
  LET z == Get(m, Var(v))
  IN  IF IsRef(z) THEN CopyTo(m, "tmp", v)
      ELSE Put(Put(m, Var("tmp"), IF z = UNDEF THEN NULL ELSE z),
               Var(v), IF Refcounted(z) THEN NULL ELSE z)

\* Faulty variant: the variables are cleared, not released.
ForgetCVs(m) ==
  [m EXCEPT ![VarCell].at = [v \in Vars |-> IF v \in CalleeVars THEN UNDEF ELSE @[v]]]

\* i_free_compiled_variables of the function.
FreeCVs(m) ==
  LET held(c) == {v \in CalleeVars : Refcounted(Get(m, Var(v))) /\ Get(m, Var(v))[2] = c}
      cleared == [m EXCEPT ![VarCell].at =
                    [v \in Vars |-> IF v \in CalleeVars THEN UNDEF ELSE @[v]]]
  IN  Destroy([c \in Cells |-> [cleared[c] EXCEPT !.rc = @ - Cardinality(held(c))]])

RETURN ==
  /\ frame = "function"
  /\ \/ \E v \in CalleeVars :
          /\ mem' = FreeCVs(Returned(mem, v))
          /\ Promise(Php!Return("tmp", v, CalleeVars))
     \/ /\ mem' = FreeCVs(mem)
        /\ Promise(Php!Unset(CalleeVars))
  /\ frame' = "main"
  /\ UNCHANGED pos

(***************************************************************************)
(* foreach by value.                                                       *)
(***************************************************************************)

Loop == Get(mem, Var("loop"))

FE_RESET_R ==
  /\ frame = "main" /\ Loop = UNDEF
  /\ \E w \in CVs :
       /\ IsArr(Read(mem, w))
       /\ mem' = CopyTo(mem, "loop", w)
       /\ Promise(Php!Assign("loop", value[w], {}))
  /\ pos' = 0
  /\ UNCHANGED frame

FE_FETCH_R ==
  /\ frame = "main" /\ Loop # UNDEF
  /\ \E v \in CVs, k \in pos + 1 .. NumKeys :
       LET z == Get(mem, <<Loop[2], k>>)
       IN  /\ z # UNDEF
           /\ \A j \in pos + 1 .. k - 1 : Get(mem, <<Loop[2], j>>) = UNDEF
           /\ mem' = AssignTo(mem, Var(v), z, FALSE)
           /\ pos' = k
           /\ Promise(Php!Assign(v, Php!Inner(value["loop"], k), {}))
  /\ UNCHANGED frame

FE_FREE ==
  /\ frame = "main" /\ Loop # UNDEF
  /\ mem' = Release(Put(mem, Var("loop"), UNDEF), Loop)
  /\ pos' = 0
  /\ Promise(Php!Unset({"loop"}))
  /\ UNCHANGED frame

Next ==
  \/ ASSIGN \/ AssignTmp \/ ASSIGN_REF \/ UNSET_CV
  \/ AssignDimLong \/ ASSIGN_DIM \/ AssignDimTmp \/ AssignInnerDim \/ FETCH_R \/ FREE
  \/ SEND_VAR \/ SEND_REF \/ BIND_GLOBAL \/ BIND_STATIC \/ RETURN
  \/ FE_RESET_R \/ FE_FETCH_R \/ FE_FREE

Spec == Init /\ [][Next]_vars

(***************************************************************************)
(* Properties.                                                             *)
(***************************************************************************)

Live == {c \in Cells : mem[c].kind \in {"array", "ref"}}

\* Every count is the number of zvals that point to the cell, and no zval points
\* to a cell that was freed: GC_ADDREF and GC_DELREF of all opcodes together.
RefcountExact ==
  \A c \in Cells \ {VarCell, Literal} :
    mem[c].rc = Cardinality(Pointers(mem, Cells, c))

\* A reference holds a value, never another reference and never UNDEF
\* (ZEND_ASSERT in zend_types.h:1417); an element that is not there is UNDEF.
Flat ==
  \A c \in Live : \A k \in DOMAIN mem[c].at :
    ~IsRef(mem[c].at[k]) /\ (mem[c].kind = "ref" => mem[c].at[k] # UNDEF)

\* The literal, which every request and thread shares, is never written.
LiteralKept == mem[Literal] = [kind |-> "array", rc |-> 2, at |-> NoElements]

\* Cells that can be reached from the variables.
Reached ==
  LET More(S) == {c \in Cells : c \in S \/ Pointers(mem, S, c) # {}}
      within[n \in 0 .. MaxCells] == IF n = 0 THEN {VarCell} ELSE More(within[n - 1])
  IN  within[MaxCells]

\* What no variable leads to any more is freed at once, without the cycle
\* collector, unless an array was stored in itself.
NothingLeaks == ~tied => Live \ {Literal} \subseteq Reached

\* The value that a zval stands for, of arrays nested up to the number of cells.
ValueIn(t, z) ==
  CASE IsArr(z) -> t[z[2]]
    [] z = UNDEF -> <<"absent", 0>>
    [] OTHER -> z
ArrayValues ==
  LET t[n \in 0 .. MaxCells] ==
        IF n = 0 THEN [c \in Cells |-> NULL]
        ELSE LET inner == t[n - 1]
             IN  [c \in Cells |-> IF mem[c].kind = "array"
                    THEN <<"array", [k \in Keys |-> ValueIn(inner, mem[c].at[k])]>>
                    ELSE NULL]
  IN  t[MaxCells]
LinkedTo(v) ==
  {w \in Vars : w = v \/ (IsRef(Get(mem, Var(v))) /\ Get(mem, Var(w)) = Get(mem, Var(v)))}

\* Sharing and copying cannot be seen: after any opcodes the variables have the
\* values, and the references, that PhpVariables promises.
ValueSemantics ==
  ~tied => LET arrays == ArrayValues
           IN  \A v \in Vars : /\ ValueIn(arrays, Read(mem, v)) = value[v]
                              /\ LinkedTo(v) = linked[v]
=============================================================================
