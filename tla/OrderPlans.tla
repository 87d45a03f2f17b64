----------------------------- MODULE OrderPlans -----------------------------
(***************************************************************************)
(* What an order line asks of the stock before anything is booked: the     *)
(* list of Smartup's orders (get_shipment_orders), the pick task's lines   *)
(* (create_pick_task), and the plan of a wave of orders (build_wave_plan). *)
(* They only read: everything is a function of Picking's state, whose      *)
(* cells hold the goods of one trade unit.  The warehouse may know that    *)
(* unit under several product records, by the package, and a batch is one  *)
(* of either of them.                                                      *)
(***************************************************************************)
EXTENDS Picking

CONSTANTS
    Records,     \* product records of the warehouse
    RecordOf,    \* per batch, the record its stock is bound to
    TradeUnit,   \* per record, the trade unit in its GTIN
    CodeOf,      \* per record, smartup_product_code
    GtinOf,      \* per record, gtin
    Base,        \* per product code, the code without its suffix "_N"
    OrderLines   \* what Smartup's orders ask for

(* A line is for amount boxes, or pieces of which pack make a box.         *)
ASSUME OrdersAssumption ==
    /\ RecordOf \in [Batches -> Records]
    /\ DOMAIN TradeUnit = Records /\ DOMAIN CodeOf = Records /\ DOMAIN GtinOf = Records
    /\ \A line \in OrderLines :
         /\ {"code", "amount", "pack"} \subseteq DOMAIN line
         /\ line.amount \in Nat /\ line.pack \in Nat \ {0}
         /\ line.code \in DOMAIN Base

-----------------------------------------------------------------------------
(* _resolve_product: by Smartup's code, by that without the suffix, and by *)
(* either taken for a GTIN; any record that matches first.                 *)
Resolved(line) ==
    LET exact == {r \in Records : CodeOf[r] = line.code}
        based == {r \in Records : CodeOf[r] = Base[line.code]}
        gtin == {r \in Records : GtinOf[r] \in {line.code, Base[line.code]}} IN
    IF exact # {} THEN exact ELSE IF based # {} THEN based ELSE gtin

Siblings(r) == {q \in Records : TradeUnit[q] = TradeUnit[r]}

(* Pieces are rounded up to boxes. *)
BoxesFor(line) == (line.amount + line.pack - 1) \div line.pack

-----------------------------------------------------------------------------
(* Boxes on rows of the records *)

CellsOf(records) == {x \in Cells : RecordOf[x[2]] \in records}

(* _availability_map counts a row whatever the status of its batch.        *)
RowQty(row) == row.qty
RowFree(row) == Avail(row)
Shown(r) == Total([x \in Cells |-> RowFree(stock[x])], CellsOf(Siblings(r)))

(* _blocked_batches_note *)
Blocked(r) ==
    Total([x \in Cells |-> Max({0, Avail(stock[x])})],
          {x \in CellsOf(Siblings(r)) : x[2] \notin available \cup {NoBatch}})

(* build_pick_plan on the rows of some records: boxes taken per row.       *)
NoStock == [qty |-> 0, booked |-> 0, open |-> FALSE]
PlanFrom(records, n) ==
    LET rows == [x \in Cells |-> IF x \in CellsOf(records) THEN stock[x] ELSE NoStock] IN
    [x \in Cells |-> Take(x, n, rows, available)]

(* A pick task's plan, and the plan of a wave, line by line.               *)
TaskPlan(r, n) == PlanFrom(Siblings(r), n)
WavePlan(r, n) == PlanFrom({r}, n)

-----------------------------------------------------------------------------
(* Properties *)

(* A pick task finds no more than the order list showed, and less than was *)
(* asked for and shown only for boxes of blocked batches, as it tells the  *)
(* picker; the pieces of a line get just the boxes that hold them.  Three  *)
(* queries count the stock (_availability_map, _load_available_stock,      *)
(* _blocked_batches_note), over the same sibling records.  A wave plans no *)
(* more for a line, and lines of different records share no box.           *)
OrdersFindTheirStock ==
    \A line \in OrderLines : \A r \in Resolved(line) :
      LET n == BoxesFor(line)
          taken == Total(TaskPlan(r, n), Cells) IN
      /\ taken <= Shown(r)
      /\ Min({n, Shown(r)}) - taken <= Blocked(r)
      /\ taken = n => line.amount \in (n - 1) * line.pack + 1 .. n * line.pack \cup {0}
      /\ Total(WavePlan(r, n), Cells) <= taken
      /\ \A other \in OrderLines : \A q \in Resolved(other) \ {r} : \A x \in Cells :
           WavePlan(r, n)[x] + WavePlan(q, BoxesFor(other))[x] <= Max({0, Avail(stock[x])})
=============================================================================
