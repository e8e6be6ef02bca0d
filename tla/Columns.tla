------------------------------ MODULE Columns ------------------------------
(* What statements and loops do with many rows at once, whether these are of *)
(* a database table or of a list in memory: a table is a function from the   *)
(* keys to the rows, and a column one to the values.                         *)
EXTENDS FiniteSetsExt, Functions

\* WHERE: only the rows of keys.
Keep(t, keys) == [k \in keys |-> t[k]]

\* SUM.
SumOf(column) == MapThenSumSet(LAMBDA k : column[k], DOMAIN column)

\* ORDER BY: some order of rows in which none is after one it comes before.
Sorted(rows, before(_, _)) ==
    CHOOSE s \in [1 .. Cardinality(rows) -> rows] :
        /\ IsInjective(s)
        /\ \A i, j \in DOMAIN s : i < j => ~before(s[j], s[i])
=============================================================================
