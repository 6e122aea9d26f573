---------------------------- MODULE MCZendVariables ----------------------------
(***************************************************************************)
(* Two variables of the script, one of them global to the function, and    *)
(* the function's parameter.                                               *)
(***************************************************************************)
EXTENDS ZendVariables

\* Bound: nothing is explored past the opcode that stores an array in itself, from
\* where on nothing is promised.
Untied == ~tied
=============================================================================
