------------------------------ MODULE MCOffice ------------------------------
(***************************************************************************)
(* Small instances of Office for TLC.  A pallet of two boxes and an empty  *)
(* one; a registry that answers for all, for all but the first pallet, or  *)
(* for nothing; and a pick of two codes.                                   *)
(***************************************************************************)
EXTENDS Office, TLC

CONSTANTS pallet, box1, box2, juice, other, p1, c1, c2

MCFlows == {<<"orders", "products">>, <<"products", "orders", "inputs">>}
MCDueFlows == {{"products"}, {"orders", "products", "reconciliation"}}

MCAbove == [c \in Marks |-> IF c \in {pallet, other} THEN NoMark ELSE pallet]
MCAnswers == {Marks, Marks \ {pallet}, {}}

MCGoodsRead == [c \in Marks |-> IF c \in {pallet, other} THEN NoGoods ELSE juice]

MCPlannedCodes == [p \in Picks |-> {c1, c2}]

MCSymmetry == Permutations(Sessions) \cup Permutations(Places) \cup Permutations({box1, box2})
=============================================================================
