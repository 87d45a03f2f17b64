----------------------------- MODULE Resolution -----------------------------
(***************************************************************************)
(* What the goods of a scanned code are taken to be: resolve_scanned_code  *)
(* of services/putaway.py, from the stored tree of marking codes and       *)
(* without asking the registry.  What comes out is what receipts and       *)
(* reservations are made of.                                               *)
(***************************************************************************)
EXTENDS MarkingTree

CONSTANTS
    NoGoods,     \* no product is found
    GoodsRead,   \* per code, the product with the trade unit of the GTIN in it
    LevelsDown   \* max_depth of _resolve_via_local_tree

(* A transport code has no GTIN in it. *)
ASSUME ResolutionAssumption == LevelsDown \in Nat \ {0}

-----------------------------------------------------------------------------

Children(codes) == {d \in Stored : mark[d].parent \in codes}

(* The codes so many levels below. *)
Below(c, depth) ==
    LET level[n \in 1..(LevelsDown + 1)] ==
          IF n = 1 THEN Children({c}) ELSE Children(level[n - 1])
    IN level[depth]

GoodsOf(codes) == {GoodsRead[d] : d \in codes} \ {NoGoods}

(* The code's own GTIN, or else the first product on the first level below *)
(* that has one.                                                           *)
ResolvedGoods(c) ==
    LET with == {n \in 1..LevelsDown : GoodsOf(Below(c, n)) # {}} IN
    IF GoodsRead[c] # NoGoods THEN {GoodsRead[c]}
    ELSE IF with = {} THEN {NoGoods}
    ELSE GoodsOf(Below(c, CHOOSE n \in with : \A m \in with : n <= m))

(* _compute_counts: the children are looked at only if the code's own GTIN *)
(* told nothing; a code without any counts as one box.                     *)
Counted(children) == IF children = {} THEN 1 ELSE Cardinality(children)

SingleBox(c) == 1
BoxCount(c) == Counted(IF GoodsRead[c] # NoGoods THEN {} ELSE Children({c}))
=============================================================================
