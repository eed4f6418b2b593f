---------------------------- MODULE MCCodeIndex ----------------------------
(* CodeIndex on small projects: one version has two symbols, the other has  *)
(* one that keeps the id of the first and calls something else.  The path   *)
(* a2 is another spelling of a.                                             *)
EXTENDS CodeIndex

CONSTANTS a, b, a2, f, g, h, v1, v2, p1

Symbol(place, name, calls) == [at |-> place, name |-> name, calls |-> calls]

MCFileOf == [path \in Spellings |-> IF path = a2 THEN a ELSE path]

MCDefs == (v1 :> {Symbol(1, f, {g}), Symbol(2, g, {h})}) @@ (v2 :> {Symbol(1, f, {f}), Symbol(2, h, {})})
=============================================================================
