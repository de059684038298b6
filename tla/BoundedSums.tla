---------------------------- MODULE BoundedSums ----------------------------
(***************************************************************************)
(* The sum of a function with values in 0..N, counted as the cells of its  *)
(* bar chart: column x holds the cells <<x, 1>>, ..., <<x, f[x]>>.  Being a  *)
(* cardinality and not a recursion, it can be reasoned about in TLAPS with *)
(* the library's facts on finite sets.                                     *)
(***************************************************************************)
EXTENDS Integers, FiniteSets

Cells(f, N) == {c \in (DOMAIN f) \X (1..N) : c[2] <= f[c[1]]}

SumOf(f, N) == Cardinality(Cells(f, N))
=============================================================================
