-------------------------------- MODULE Sums --------------------------------
(***************************************************************************)
(* Sums over finite sets of naturals, as the size of a set: it is by its   *)
(* elements that a sum is then reasoned about.                             *)
(***************************************************************************)
EXTENDS Integers, FiniteSets

(* The sum of f over S: x stands in the set f[x] times.                    *)
Numbered(f, S) == UNION {{x} \X (1 .. f[x]) : x \in S}
SumOn(f, S) == Cardinality(Numbered(f, S))
=============================================================================
