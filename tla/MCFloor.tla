------------------------------ MODULE MCFloor ------------------------------
(***************************************************************************)
(* Small instances of Floor for TLC: one pick face, one reserve location,  *)
(* goods of the first batch in the reserve.                                *)
(***************************************************************************)
EXTENDS Floor, TLC

CONSTANTS pick, reserve, c1, c2

MCOnShelf == [x \in Rows |-> IF x = <<reserve, 1>> THEN 3 ELSE 0]
MCUnitsOf == c1 :> 1 @@ c2 :> 2

(* No levels, and refilling an empty pick face to one. *)
MCLevels == {[min |-> -1, max |-> 0], [min |-> 0, max |-> 1]}

MCSymmetry == Permutations(Sessions)
=============================================================================
