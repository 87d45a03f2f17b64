------------------------------- MODULE Floor -------------------------------
(***************************************************************************)
(* The warehouse floor: receiving, putaway by tasks, counting,             *)
(* replenishment, movements, write-offs and returns on the same stock.     *)
(***************************************************************************)
EXTENDS Receiving, Counting, Replenishing

Next ==
    \/ \E s \in Sessions : Operate(s) \/ Receive(s) \/ Tally(s) \/ Replenish(s)
    \/ Manage

Spec == Init /\ [][Next]_vars

-----------------------------------------------------------------------------
(* Properties *)

(* The stock cache equals the sum of the ledger, unless an entry took more *)
(* than the row held (the clamp at 0) or an inventory count was posted on  *)
(* an old copy of the row (_adjust_stock, create_inventory_count).         *)
CacheIsLedger == \A x \in Rows \ adrift : stock[x] = ledger[x]

(* The cache tells what stands on the shelf: a count makes it true again   *)
(* whatever was wrong before, unless the row was written between counting  *)
(* and posting; otherwise only overdrawn movements and returns scrapped on *)
(* arrival make it false (record_count, create_inventory_count).           *)
StockIsOnShelf == \A x \in Rows \ apart : stock[x] = shelf[x]

(* The goods of a putaway task are placed once, unless two confirmations   *)
(* of it overlapped or a manager set its status (putaway_confirm).         *)
PlacedOnce == \A t \in Tasks \ excused : placements[t] <= 1

(* Received goods are never lost between dock and shelf: a putaway task    *)
(* whose status nobody set by hand is open, or its goods were placed.      *)
ReceivedIsPlaced ==
    \A t \in Tasks \ excused :
      task[t].kind = "putaway" /\ ~Open(t) => placements[t] > 0

(* Receipts of a date share one AVAILABLE batch row, so that its lookup    *)
(* does not raise, unless two receipts created it at once or a batch was   *)
(* released (_get_or_create_batch).                                        *)
OneAvailableBatch ==
    Cardinality({b \in Batches \ excused : batch[b] = "available"}) <= 1
=============================================================================
