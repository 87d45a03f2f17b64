------------------------------- MODULE Sums --------------------------------
(***************************************************************************)
(* SELECT SUM(...) over the rows of a table.                               *)
(***************************************************************************)
EXTENDS FiniteSetsExt

(* The sum of f over the finite set S. *)
Total(f, S) == MapThenSumSet(LAMBDA x : f[x], S)
=============================================================================
