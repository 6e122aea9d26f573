------------------------------ MODULE PhpVariables ------------------------------
(***************************************************************************)
(* What a PHP program may rely on: a variable has a value, and an array is *)
(* a value like any other.  Assigning, passing, returning or iterating an  *)
(* array takes it as it is then; writing an element changes the variable   *)
(* that is written, and those that are references to the same thing.       *)
(***************************************************************************)
EXTENDS Integers

CONSTANTS
  Vars,  \* all variables, with those of functions and the temporaries
  Keys   \* the keys of arrays

Null == <<"null", 0>>
Absent == <<"absent", 0>>
Long(n) == <<"long", n>>
Array(f) == <<"array", f>>
Empty == Array([k \in Keys |-> Absent])
IsArray(x) == x[1] = "array"

\* x with y at key k; what is not set becomes an array.
With(x, k, y) ==
  IF IsArray(x) THEN Array([x[2] EXCEPT ![k] = y])
  ELSE Array([j \in Keys |-> IF j = k THEN y ELSE Absent])
\* The element of x at key k, for writing into it.
Inner(x, k) == IF IsArray(x) THEN x[2][k] ELSE Absent

VARIABLES
  value,   \* the value of each variable; Null when it is not set
  linked   \* the variables that are references to the same thing as it

Init ==
  /\ value = [v \in Vars |-> Null]
  /\ linked = [v \in Vars |-> {v}]

\* v, and what is linked to it, gets the value x; the temporaries in gone are used up.
Assign(v, x, gone) ==
  /\ value' = [w \in Vars |-> IF w \in linked[v] THEN x
                              ELSE IF w \in gone THEN Null ELSE value[w]]
  /\ UNCHANGED linked

AssignDim(v, k, x, gone) == Assign(v, With(value[v], k, x), gone)
AssignInner(v, k, l, x) == AssignDim(v, k, With(Inner(value[v], k), l, x), {})

\* v becomes a reference to what w is.
Link(v, w) ==
  /\ value' = [value EXCEPT ![v] = value[w]]
  /\ linked' = LET all == linked[w] \cup {v}
               IN  [u \in Vars |-> IF u \in all THEN all ELSE linked[u] \ {v}]

\* The variables in gone are unset; those linked to them keep the value.
Unset(gone) ==
  /\ value' = [v \in Vars |-> IF v \in gone THEN Null ELSE value[v]]
  /\ linked' = [v \in Vars |-> IF v \in gone THEN {v} ELSE linked[v] \ gone]

\* A function whose variables are locals returns the value of w in t.
Return(t, w, locals) ==
  /\ value' = [v \in Vars |-> IF v = t THEN value[w]
                              ELSE IF v \in locals THEN Null ELSE value[v]]
  /\ linked' = [v \in Vars |-> IF v \in locals THEN {v} ELSE linked[v] \ locals]
=============================================================================
