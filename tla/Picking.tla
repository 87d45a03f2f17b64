------------------------------ MODULE Picking ------------------------------
(***************************************************************************)
(* Outbound stock: app/services/picking.py with the shipment endpoints     *)
(* that call it, and the two ways goods move inside a warehouse, POST      *)
(* /operations/movement and POST /replenishment/execute.  The goods of one *)
(* trade unit in one warehouse.                                            *)
(*                                                                         *)
(* A pick task reads the stock without a lock to plan, and locks the       *)
(* planned rows only to book them, so it is two steps.  Confirming a       *)
(* shipment reads and writes one route item after the other, an item being *)
(* what one line was given of one row.  The two movements read every row   *)
(* under its lock and hold it to the commit: such a transaction is one     *)
(* step.  Rows of stock_items are taken to exist, with quantity 0 where    *)
(* nothing was stored yet.                                                 *)
(***************************************************************************)
EXTENDS Integers, Sequences, FiniteSets, Sums

CONSTANTS
    Sessions,     \* requests that can be in flight together
    Orders,       \* shipment documents, each with its pick task
    Locations,    \* cells of the warehouse
    OpenLoc,      \* the bench of the OPEN_PALLET zone, or a value not in Locations
    Batches,      \* batches in stock, NoBatch among them if some stock has none
    NoBatch,      \* batch_id IS NULL
    Rank,         \* the FEFO, then FIFO, position of a stock row
    InitialQty,   \* boxes received into each row
    Lines,        \* per order, the boxes each of its lines asks for
    Stop,         \* optimise_route's number of a location, on a route of a set of locations
    MoveQtys,     \* quantities of a movement
    MaxBoxes,     \* bound: a movement leaves no more than this in its destination
    Handlers      \* which endpoints are used beside POST /shipment/pick-task

Cells == Locations \X Batches

ASSUME PickingAssumption ==
    /\ IsFiniteSet(Locations) /\ IsFiniteSet(Batches) /\ IsFiniteSet(Orders)
    /\ Rank \in [Cells -> Nat]
    /\ \A x, y \in Cells : Rank[x] = Rank[y] => x = y
    /\ InitialQty \in [Cells -> Nat]
    /\ Lines \in [Orders -> Seq(Nat)]
    /\ Stop \in [SUBSET Locations -> [Locations -> Nat]]
    /\ MoveQtys \subseteq Nat \ {0}
    /\ MaxBoxes \in Nat
    /\ Handlers \subseteq {"ship", "move", "replenish", "quarantine", "release"}

VARIABLES
    stock,      \* stock_items: quantity, booked quantity, pallet_open
    available,  \* batches whose status is AVAILABLE
    orders,     \* the documents: status, boxes booked per row (the route), and line by line
    ledger,     \* per batch, the sum of qty_delta over its ledger entries
    req         \* per session, the transaction it has open

vars == <<stock, available, orders, ledger, req>>

Idle == [pc |-> "idle"]
NoOrder == [status |-> "none", route |-> [x \in Cells |-> 0], items |-> <<>>]

Boxes(route) == Total(route, Cells)
BatchSum(f, b) == Total([l \in Locations |-> f[<<l, b>>]], Locations)

Init ==
    /\ stock = [x \in Cells |-> [qty |-> InitialQty[x], booked |-> 0, open |-> FALSE]]
    /\ available = Batches
    /\ orders = [o \in Orders |-> NoOrder]
    /\ ledger = [b \in Batches |-> BatchSum(InitialQty, b)]
    /\ req = [s \in Sessions |-> Idle]

Avail(row) == row.qty - row.booked

(* The CHECK constraints of stock_items. *)
Valid(row) == row.qty >= 0 /\ 0 <= row.booked /\ row.booked <= row.qty

(* UPDATE writes the columns that differ from what the session loaded. *)
Merge(loaded, object, row) ==
    [qty    |-> IF object.qty = loaded.qty THEN row.qty ELSE object.qty,
     booked |-> IF object.booked = loaded.booked THEN row.booked ELSE object.booked,
     open   |-> IF object.open = loaded.open THEN row.open ELSE object.open]

(* The rows a shipment has written but not committed. *)
Written(s) == IF req[s].pc \in {"shipping", "deducting"} THEN DOMAIN req[s].mine ELSE {}
RowLocked(x) == \E s \in Sessions : x \in Written(s)
LockedByOther(s, x) == \E t \in Sessions \ {s} : x \in Written(t)

End(s) == req' = [req EXCEPT ![s] = Idle]

Open == {o \in Orders : orders[o].status = "in_progress"}

-----------------------------------------------------------------------------
(* build_pick_plan: from the available rows, open pallets first, then FEFO *)

ByRankReversed(x, y, st) == Rank[x] > Rank[y]
Before(x, y, st) ==
    \/ st[x].open /\ ~st[y].open
    \/ st[x].open = st[y].open /\ Rank[x] < Rank[y]

Pickable(st, ok) == {x \in Cells : x[2] \in ok \cup {NoBatch} /\ Avail(st[x]) > 0}

(* Boxes of x that a line asking for n takes: what the rows before it leave. *)
TakeWholeRow(x, n, st, ok) == IF x \in Pickable(st, ok) THEN Avail(st[x]) ELSE 0
Take(x, n, st, ok) ==
    LET earlier == {y \in Pickable(st, ok) : Before(y, x, st)} IN
    IF x \in Pickable(st, ok)
      THEN Min({Avail(st[x]),
                Max({0, n - Total([y \in Cells |-> Avail(st[y])], earlier)})})
      ELSE 0

Plan(n, q) == [x \in Cells |-> Take(x, n, q.seen, q.ok)]

(* Every line is planned, against one and the same stock, before any is    *)
(* booked.  The document is the request's own: it creates it.              *)
PlanOrder(s, o) ==
    /\ req[s] = Idle
    /\ orders[o].status = "none"
    /\ \A t \in Sessions : req[t].pc = "picking" => req[t].order # o
    /\ req' = [req EXCEPT ![s] =
                 [pc |-> "picking", order |-> o, seen |-> stock, ok |-> available]]
    /\ UNCHANGED <<stock, available, orders, ledger>>

-----------------------------------------------------------------------------
(* execute_pick_plan and open_partial_pallet *)

Planned(q) == {x \in Cells : \E i \in DOMAIN Lines[q.order] : Plan(Lines[q.order][i], q)[x] > 0}

(* A pallet is partial if the plan leaves boxes on it or it is open already. *)
Partial(x, plan, q) == plan[x] > 0 /\ (plan[x] < Avail(q.seen[x]) \/ q.seen[x].open)

(* The row after the booking of k boxes. *)
Book(row, k, partial) ==
    LET left == Avail(row) - k IN
    IF k = 0 THEN row
    ELSE [row EXCEPT !.booked = @ + k,
                     !.open = IF left <= 0 THEN FALSE ELSE partial \/ @]

(* Boxes that leave a broken pallet for the bench. *)
Leftover(x, row, partial) ==
    IF partial /\ OpenLoc \in Locations /\ x[1] # OpenLoc THEN Max({0, Avail(row)}) ELSE 0

(* The quantity of the BOOK entry. *)
BookPlanned(planned, taken) == planned
BookTaken(planned, taken) == taken

(* One line: book what its plan says, clamped to what is still there, then *)
(* open its partial pallets: the bench gains the leftover.                 *)
BookLine(acc, plan, q) ==
    LET take == [x \in Cells |-> Min({plan[x], Max({0, Avail(acc.objects[x])})})]
        booked == [x \in Cells |-> Book(acc.objects[x], take[x], Partial(x, plan, q))]
        left == [x \in Cells |-> Leftover(x, booked[x], Partial(x, plan, q))]
        gain(x) == IF x[1] = OpenLoc THEN BatchSum(left, x[2]) ELSE 0 IN
    [objects |-> [x \in Cells |->
                    [booked[x] EXCEPT !.qty = @ + gain(x),
                                      !.open = @ \/ Partial(x, plan, q) \/ gain(x) > 0]],
     route |-> [x \in Cells |-> acc.route[x] + take[x]],
     items |-> Append(acc.items, take),
     ledger |-> [b \in Batches |->
                   acc.ledger[b] + BatchSum(left, b)
                     - BatchSum([x \in Cells |-> BookTaken(plan[x], take[x])], b)]]

(* The planned rows are locked and selected again, but the session still   *)
(* has the objects it loaded when it planned and does not refresh them.    *)
Loaded(q) == [x \in Cells |-> IF x \in Planned(q) THEN q.seen[x] ELSE stock[x]]

Booked(q) ==
    LET n == Len(Lines[q.order])
        acc[i \in 0..n] ==
          IF i = 0 THEN [objects |-> Loaded(q), route |-> NoOrder.route,
                         items |-> NoOrder.items, ledger |-> ledger]
          ELSE BookLine(acc[i - 1], Plan(Lines[q.order][i], q), q) IN
    acc[n]

BookedStock(q) ==
    LET objects == Booked(q).objects IN
    [x \in Cells |-> Merge(Loaded(q)[x], objects[x], stock[x])]

BookOrder(s) ==
    LET q == req[s] IN
    /\ q.pc = "picking"
    /\ LET new == BookedStock(q) IN
       /\ \A x \in Cells : new[x] # stock[x] \/ x \in Planned(q) => ~RowLocked(x)
       /\ \A x \in Cells : Valid(new[x])
       /\ stock' = new
    /\ ledger' = Booked(q).ledger
    /\ orders' = [orders EXCEPT ![q.order].status = "in_progress",
                                ![q.order].route = Booked(q).route,
                                ![q.order].items = Booked(q).items]
    /\ End(s)
    /\ UNCHANGED available

-----------------------------------------------------------------------------
(* POST /shipment/confirm/{document_id}: the items of the route, what each *)
(* line was given of each row, stop by stop and at a stop line by line.    *)
(* An item of no boxes writes nothing.                                     *)

Items(order) ==
    {item \in [line : DOMAIN order.items, row : Cells] : order.items[item.line][item.row] > 0}

(* The S shape turns with the locations on the route.  The items of one    *)
(* line on different rows of a location come in any order.                 *)
Following(order, left) ==
    LET stop == Stop[{item.row[1] : item \in Items(order)}] IN
    {a \in left : \A b \in left :
       \/ stop[a.row[1]] < stop[b.row[1]]
       \/ stop[a.row[1]] = stop[b.row[1]] /\ a.line <= b.line}

ShipOrder(s, o) ==
    /\ "ship" \in Handlers
    /\ req[s] = Idle
    /\ orders[o].status = "in_progress"
    /\ req' = [req EXCEPT ![s] =
                 [pc |-> "shipping", order |-> o,
                  left |-> Items(orders[o]),
                  mine |-> [x \in {} |-> stock[x]]]]
    /\ UNCHANGED <<stock, available, orders, ledger>>

View(q, x) == IF x \in DOMAIN q.mine THEN q.mine[x] ELSE stock[x]

(* The endpoint passes no batch: the row looked for is the one without. *)
ShippedRow(x) == <<x[1], NoBatch>>

ShipRead(s) ==
    LET q == req[s] IN
    /\ q.pc = "shipping"
    /\ \E item \in Following(orders[q.order], q.left) :
         req' = [req EXCEPT ![s] =
                   [pc |-> "deducting", order |-> q.order, left |-> q.left, mine |-> q.mine,
                    item |-> item, seen |-> View(q, ShippedRow(item.row))]]
    /\ UNCHANGED <<stock, available, orders, ledger>>

(* confirm_shipment's own update of the row, and the one ledger.record     *)
(* makes for the SHIPMENT entry.                                           *)
DeductOnly(row, k) == [row EXCEPT !.qty = Max({0, @ - k})]
Deduct(row, k) == [row EXCEPT !.qty = Max({0, @ - k}), !.booked = Max({0, @ - k})]
Adjust(row, k) == [row EXCEPT !.qty = Max({0, @ + k})]

(* The row of the item at hand as the two updates write it.                *)
RowsWritten(q, view) ==
    LET k == orders[q.order].items[q.item.line][q.item.row]
        first == Deduct(q.seen, k) IN
    <<Merge(q.seen, first, view), Merge(q.seen, Adjust(first, -k), view)>>

(* A CHECK constraint refuses a row that the updates write. *)
Refused(s) ==
    LET q == req[s] IN
    \/ /\ q.pc = "picking"
       /\ \E x \in Cells : ~Valid(BookedStock(q)[x])
    \/ /\ q.pc = "deducting"
       /\ \E i \in 1..2 : ~Valid(RowsWritten(q, View(q, ShippedRow(q.item.row)))[i])

ShipWrite(s) ==
    LET q == req[s]
        x == ShippedRow(q.item.row)
        rows == RowsWritten(q, View(q, x)) IN
    /\ q.pc = "deducting"
    /\ ~LockedByOther(s, x)
    /\ ~Refused(s)
    /\ req' = [req EXCEPT ![s] =
                 [pc |-> "shipping", order |-> q.order, left |-> q.left \ {q.item},
                  mine |-> [y \in DOMAIN q.mine \cup {x} |->
                              IF y = x THEN rows[2] ELSE q.mine[y]]]]
    /\ UNCHANGED <<stock, available, orders, ledger>>

Complete(order) == [order EXCEPT !.status = "completed"]

ShipCommit(s) ==
    LET q == req[s] IN
    /\ q.pc = "shipping"
    /\ q.left = {}
    /\ stock' = [x \in Cells |-> View(q, x)]
    /\ ledger' = [b \in Batches |->
                    IF b = NoBatch
                      THEN ledger[b] - Boxes(orders[q.order].route)
                      ELSE ledger[b]]
    /\ orders' = [orders EXCEPT ![q.order] = Complete(@)]
    /\ End(s)
    /\ UNCHANGED available

-----------------------------------------------------------------------------
(* POST /stock/release-bookings, for all products: the open documents and  *)
(* the booked rows are read without a lock; the ledger is not written.     *)

ReleaseRead(s) ==
    /\ "release" \in Handlers
    /\ req[s] = Idle
    /\ req' = [req EXCEPT ![s] =
                 [pc |-> "releasing", docs |-> Open,
                  rows |-> {x \in Cells : stock[x].booked > 0}]]
    /\ UNCHANGED <<stock, available, orders, ledger>>

ReleaseCommit(s) ==
    LET q == req[s] IN
    /\ q.pc = "releasing"
    /\ \A x \in q.rows : ~RowLocked(x)
    /\ stock' = [x \in Cells |-> IF x \in q.rows THEN [stock[x] EXCEPT !.booked = 0] ELSE stock[x]]
    /\ orders' = [o \in Orders |->
                    IF o \in q.docs THEN [orders[o] EXCEPT !.status = "cancelled"] ELSE orders[o]]
    /\ End(s)
    /\ UNCHANGED <<available, ledger>>

-----------------------------------------------------------------------------
(* Moving goods, one locked transaction each *)

(* Two ledger entries, -n at from and +n at to. *)
Move(x, y, n) ==
    LET src == Adjust(stock[x], -n) IN
    /\ x # y
    /\ ~RowLocked(x) /\ ~RowLocked(y)
    /\ Valid(src)
    /\ stock' = [stock EXCEPT ![x] = src, ![y] = Adjust(@, n)]
    /\ UNCHANGED <<available, orders, ledger, req>>

(* POST /operations/movement *)
CreateMovement(b, from, to, n) ==
    /\ "move" \in Handlers
    /\ stock[<<to, b>>].qty + n <= MaxBoxes
    /\ Move(<<from, b>>, <<to, b>>, n)

NoCheck(x, n) == TRUE
Sufficient(x, n) == Avail(stock[x]) >= n

(* POST /replenishment/execute *)
ExecuteMove(b, from, to, n) ==
    /\ "replenish" \in Handlers
    /\ Sufficient(<<from, b>>, n)
    /\ Move(<<from, b>>, <<to, b>>, n)

(* POST /quarantine/{batch}/block and /release *)
BlockBatch(b) ==
    /\ "quarantine" \in Handlers
    /\ b # NoBatch
    /\ available' = available \ {b}
    /\ UNCHANGED <<stock, orders, ledger, req>>

ReleaseBatch(b) ==
    /\ "quarantine" \in Handlers
    /\ available' = available \cup {b}
    /\ UNCHANGED <<stock, orders, ledger, req>>

Rollback(s) ==
    /\ req[s] # Idle
    /\ End(s)
    /\ UNCHANGED <<stock, available, orders, ledger>>

-----------------------------------------------------------------------------

Pick(s) == (\E o \in Orders : PlanOrder(s, o)) \/ BookOrder(s)

Ship(s) ==
    \/ \E o \in Orders : ShipOrder(s, o)
    \/ ShipRead(s)
    \/ ShipWrite(s)
    \/ ShipCommit(s)

Release(s) == ReleaseRead(s) \/ ReleaseCommit(s)

MoveGoods ==
    \E b \in Batches, from, to \in Locations, n \in MoveQtys :
        CreateMovement(b, from, to, n) \/ ExecuteMove(b, from, to, n)

Next ==
    \/ \E s \in Sessions : Pick(s) \/ Ship(s) \/ Release(s) \/ Rollback(s)
    \/ MoveGoods
    \/ \E b \in Batches : BlockBatch(b) \/ ReleaseBatch(b)

Spec == Init /\ [][Next]_vars

-----------------------------------------------------------------------------
(* Properties *)

Shipped == {o \in Orders : orders[o].status = "completed"}

OrderedBoxes(o) == Total(Lines[o], DOMAIN Lines[o])

(* What is booked on a row is what the open orders were given of it: no    *)
(* booking is lost, made twice, or left behind by a shipment or by orders  *)
(* that release_bookings cancelled.                                        *)
BookingsBacked ==
    \A x \in Cells :
      stock[x].booked = Total([o \in Orders |-> orders[o].route[x]], Open)

(* No order is given more boxes than its lines ask for, whatever is booked *)
(* or moved between its plan and its bookings.                             *)
NeverOverfilled == \A o \in Orders : Boxes(orders[o].route) <= OrderedBoxes(o)

(* Boxes received are in stock or were shipped: picking, shipping and      *)
(* moving goods neither create nor destroy any.                            *)
BoxesConserved ==
    \A b \in Batches :
      BatchSum([x \in Cells |-> stock[x].qty], b)
          + Total([o \in Orders |-> BatchSum(orders[o].route, b)], Shipped)
        = BatchSum(InitialQty, b)

(* What reconciliation sums over the ledger (_ledger_sums) is the stock    *)
(* less what orders were ever promised of it, until something is shipped:  *)
(* BOOK entries count, for as much as was booked after the re-check, and   *)
(* release_bookings takes none back.                                       *)
LedgerCountsPromises ==
    Shipped = {} =>
      \A b \in Batches :
        ledger[b] = BatchSum([x \in Cells |-> stock[x].qty], b)
                      - Total([o \in Orders |-> BatchSum(orders[o].route, b)], Orders)

(* A pick takes nothing from a closed pallet while it leaves boxes on one  *)
(* that FEFO puts before it (_load_available_stock's order), unless that   *)
(* one was changed between the plan and the bookings.                      *)
FefoRespected ==
    [][\A s \in Sessions :
         LET q == req[s] IN
         q.pc = "picking" =>
           \A x, y \in Cells :
             /\ orders[q.order].status = "none" /\ orders'[q.order].route[y] > 0
             /\ ~q.seen[y].open
             /\ Rank[x] < Rank[y]
             /\ x[1] # OpenLoc
             => Avail(stock'[x]) = 0 \/ stock[x] # q.seen[x]
                \/ x[2] \notin q.ok \cup {NoBatch}]_vars

-----------------------------------------------------------------------------
(* Liveness *)

(* Requests come to an end, the operator confirms a picked order again     *)
(* until the server commits it, and from some time on a request fails only *)
(* if the database refuses it.                                             *)
Fairness ==
    \A s \in Sessions :
      /\ []<>(req[s] = Idle)
      /\ \A o \in Orders : SF_vars(ShipOrder(s, o))
      /\ <>[][~(Rollback(s) /\ ~Refused(s))]_vars

FairSpec == Spec /\ Fairness

(* Boxes of row x that the lines up to i were given. *)
GivenUpTo(o, i, x) == Total([j \in 1..i |-> orders[o].items[j][x]], 1..i)

(* Deducted twice, the items of these lines leave the row fewer boxes than *)
(* the order's other lines have booked on it.                              *)
Short(o) ==
    \E i \in DOMAIN orders[o].items, x \in Cells :
      LET given == GivenUpTo(o, i, x) IN
      Max({0, stock[x].qty - 2 * given}) < orders[o].route[x] - given

(* An order that is picked leaves the warehouse or is cancelled, as long   *)
(* as no other was picked: its confirmation is not refused for good        *)
(* (confirm_shipment_endpoint), unless two of its lines share a row and    *)
(* what the first line's double deduction leaves there is too little.      *)
LoneOrderShips ==
    \A o \in Orders :
      LET others == {p \in Orders \ {o} : orders[p].status # "none"} IN
      orders[o].status = "in_progress" /\ others = {}
        ~> orders[o].status \in {"completed", "cancelled"} \/ others # {} \/ Short(o)
=============================================================================
