----------------------------- MODULE MCPicking -----------------------------
(***************************************************************************)
(* Small instances of Picking for TLC: two storage cells with two boxes    *)
(* each and orders whose lines fit one cell, span both, or exceed what     *)
(* there is; for the serial run, one cell and the bench for open pallets.  *)
(***************************************************************************)
EXTENDS OrderPlans, TLC

CONSTANTS l1, l2, bench, none, b1, b2, o1, o2, group, unit

(* b1 expires before b2, l1's boxes of a batch came before l2's, and the   *)
(* bench's goods before either.                                            *)
MCRank == [x \in Cells |-> (IF x[1] = l1 THEN 1 ELSE IF x[1] = l2 THEN 2 ELSE 0)
                             + (IF x[2] = b2 THEN 3 ELSE 0)]

MCInitialQty ==
    [x \in Cells |-> IF x[1] = l1 /\ x[2] # b2 THEN 2
                      ELSE IF x[1] = l2 /\ x[2] # b1 THEN 2 ELSE 0]
(* Three boxes on the bench, too few to deduct an order of two lines from  *)
(* twice, and the one that makes them enough in the cell.                  *)
MCBenchQty == [x \in Cells |-> IF x[1] = l1 THEN 1 ELSE 3]

(* The bench is the last stop of every route. *)
MCStop == [route \in SUBSET Locations |->
             [l \in Locations |-> IF l = l1 THEN 1 ELSE IF l = l2 THEN 2 ELSE 3]]

(* One order of two lines, one of one. *)
MCLines == [o \in Orders |-> IF o = o1 THEN <<1, 2>> ELSE <<2>>]
MCOneLine == [o \in Orders |-> <<1>>]

(* The goods are on record as boxes and as pieces, twelve to a box.  Of    *)
(* Smartup's lines one names the pieces by its code with a suffix, one     *)
(* names the boxes by their GTIN.                                          *)
MCRecordOf == [b \in Batches |-> IF b = b2 THEN unit ELSE group]
MCTradeUnit == [r \in Records |-> "juice"]
MCCodeOf == [r \in Records |-> IF r = unit THEN "A" ELSE "none"]
MCGtinOf == [r \in Records |-> IF r = unit THEN "034" ELSE "134"]
MCBase == [c \in {"A_1", "134"} |-> IF c = "A_1" THEN "A" ELSE c]
MCOrderLines == {[code |-> "A_1", amount |-> 14, pack |-> 12],
                 [code |-> "A_1", amount |-> 48, pack |-> 12],
                 [code |-> "134", amount |-> 3, pack |-> 1]}

MCSymmetry == Permutations(Sessions)
=============================================================================
