------------------------------ MODULE Putaway ------------------------------
(***************************************************************************)
(* The reserve / confirm-by-scan putaway flow: app/services/putaway.py,    *)
(* its endpoints and the reservation-expiry worker.                        *)
(*                                                                         *)
(* Every HTTP request and every sweep of the worker is one database        *)
(* transaction at READ COMMITTED.  It is modelled as a step that reads     *)
(* (and makes the handler's checks) and a later step that commits what the *)
(* handler decided on what it read; other transactions may commit in       *)
(* between.  Confirming has a third step between the two, the one that     *)
(* takes the row lock of the stock item.  A check that fails rolls the     *)
(* transaction back and changes nothing, so it is no step at all.          *)
(***************************************************************************)
EXTENDS Integers, FiniteSets, Sums

CONSTANTS
    Sessions,       \* HTTP requests that can be in flight together
    Workers,        \* reservation-expiry workers, one per server process
    Locations,      \* storage cells of one warehouse
    Products,       \* (product, batch) pairs
    Codes,          \* transport codes an operator scans
    Reservations,   \* identifiers of reservation rows
    NoProduct,      \* a code whose product is unknown
    NoCode, NoLoc,  \* null values
    ProductOf,      \* what a code resolves to
    QtyOf,          \* the quantity the scanner sends for a code, in boxes
    Unbatched,      \* the pairs whose batch_id is NULL
    ArticleOf,      \* the product of a pair
    BoxesPerPallet, \* Product.boxes_per_pallet
    MaxPallets,     \* Location.max_pallets
    AllowMixed,     \* locations whose zone allows mixed products
    PatchStatuses   \* statuses a manager sets with PATCH .../locations/{id}

Procs == Sessions \cup Workers

LocationStatus == {"empty", "partial", "occupied", "blocked"}
ReservationStatus == {"pending", "confirmed", "cancelled", "expired"}
Terminal == {"confirmed", "cancelled", "expired"}

ASSUME PutawayAssumption ==
    /\ Sessions \cap Workers = {}
    /\ IsFiniteSet(Locations) /\ IsFiniteSet(Products) /\ IsFiniteSet(Reservations)
    /\ NoProduct \notin Products
    /\ NoCode \notin Codes
    /\ NoLoc \notin Locations
    /\ ProductOf \in [Codes -> Products \cup {NoProduct}]
    /\ QtyOf \in [Codes -> Nat]
    /\ Unbatched \subseteq Products
    /\ DOMAIN ArticleOf = Products
    /\ BoxesPerPallet \in [{ArticleOf[p] : p \in Products} -> Nat \ {0}]
    /\ MaxPallets \in [Locations -> Nat \ {0}]
    /\ AllowMixed \subseteq Locations
    /\ PatchStatuses \subseteq LocationStatus

VARIABLES
    resv,      \* the putaway_reservations table
    status,    \* Location.status
    rows,      \* the stock_items rows that exist
    stock,     \* StockItem.qty, 0 where there is no row
    extra,     \* boxes in further rows of the same location and product
    ledger,    \* per location and product, the sum of the ledger's deltas
    placed,    \* per reservation, its number of PUTAWAY ledger entries
    codeLoc,   \* MarkingCode.location_id of a code and all below it
    bypassed,  \* locations an operator override was used on (history)
    req        \* per process, the transaction it has open

vars == <<resv, status, rows, stock, extra, ledger, placed, codeLoc, bypassed, req>>

(* Rows the handlers write; bypassed is set with them. *)
tables == <<resv, status, rows, stock, extra, ledger, placed, codeLoc, bypassed>>

Idle == [pc |-> "idle"]
NoReservation == [status |-> "none", code |-> NoCode, loc |-> NoLoc, overdue |-> FALSE]

Rows == Locations \X Products

(* A reservation is of at least one box whatever the scanner sent. *)
Boxes(c) == IF QtyOf[c] >= 1 THEN QtyOf[c] ELSE 1

Known(c) == ProductOf[c] \in Products

Requests ==
    [pc : {"idle"}]
    \cup [pc : {"reserving"}, code : Codes, loc : Locations,
          stale : SUBSET Reservations, override : BOOLEAN]
    \cup [pc : {"confirming"}, res : Reservations, loc : Locations,
          redirect : BOOLEAN, seen : LocationStatus]
    \cup [pc : {"placing"}, res : Reservations, loc : Locations,
          redirect : BOOLEAN, seen : LocationStatus, fresh : BOOLEAN,
          qty : Nat, full : BOOLEAN]
    \cup [pc : {"cancelling"}, res : Reservations]
    \cup [pc : {"sweeping"}, stale : SUBSET Reservations]

TypeOK ==
    /\ resv \in [Reservations ->
                   [status : ReservationStatus, code : Codes, loc : Locations,
                    overdue : BOOLEAN] \cup {NoReservation}]
    /\ status \in [Locations -> LocationStatus]
    /\ rows \subseteq Rows
    /\ stock \in [Rows -> Nat]
    /\ extra \in [Rows -> Nat]
    /\ ledger \in [Rows -> Nat]
    /\ placed \in [Reservations -> Nat]
    /\ codeLoc \in [Codes -> Locations \cup {NoLoc}]
    /\ bypassed \subseteq Locations
    /\ req \in [Procs -> Requests]

Init ==
    /\ resv = [r \in Reservations |-> NoReservation]
    /\ status = [l \in Locations |-> "empty"]
    /\ rows = {}
    /\ stock = [x \in Rows |-> 0]
    /\ extra = [x \in Rows |-> 0]
    /\ ledger = [x \in Rows |-> 0]
    /\ placed = [r \in Reservations |-> 0]
    /\ codeLoc = [c \in Codes |-> NoLoc]
    /\ bypassed = {}
    /\ req = [p \in Procs |-> Idle]

-----------------------------------------------------------------------------
(* Helpers *)

Pending == {r \in Reservations : resv[r].status = "pending"}

(* Pending rows whose expires_at lies in the past. *)
Overdue == {r \in Pending : resv[r].overdue}

Begin(p, request) == req[p] = Idle /\ req' = [req EXCEPT ![p] = request]
End(p) == req' = [req EXCEPT ![p] = Idle]

(* resv with the status of every row of the set R overwritten. *)
Overwrite(R, st) ==
    [r \in Reservations |-> IF r \in R THEN [resv[r] EXCEPT !.status = st] ELSE resv[r]]

(* Boxes of a product at a location, in however many rows. *)
OnHand == [x \in Rows |-> stock[x] + extra[x]]

StockAt(l) == Total([p \in Products |-> OnHand[<<l, p>>]], Products)
HeldAt(l, R) ==
    Total([r \in R |-> Boxes(resv[r].code)], {r \in R : resv[r].loc = l})

(* What the location takes if all its pallets are of p's product.          *)
CapacityBoxes(l, p) == MaxPallets[l] * BoxesPerPallet[ArticleOf[p]]

RemainingIgnoringHolds(l, p, R) == CapacityBoxes(l, p) - StockAt(l)

(* Room for p, boxes of every product and of the reservations R, those     *)
(* that count as pending, taken off alike.                                 *)
RemainingBoxes(l, p, R) == CapacityBoxes(l, p) - StockAt(l) - HeldAt(l, R)

(* The location has rows of nothing but p, or of p's product when p has no *)
(* batch.                                                                  *)
SameOnly(l, p) ==
    \A x \in rows :
      x[1] = l => x[2] = p \/ (p \in Unbatched /\ ArticleOf[x[2]] = ArticleOf[p])

(* The stock item a confirmation is adjusting. *)
RowOf(request) == <<request.loc, ProductOf[resv[request.res].code]>>

(* A row of stock_items stays locked from SELECT ... FOR UPDATE to the end *)
(* of the transaction; so does the row of the code it has updated.         *)
Placing(p) == req[p].pc = "placing"
NeverLocked(x) == FALSE
RowLocked(x) == \E p \in Procs : Placing(p) /\ ~req[p].fresh /\ RowOf(req[p]) = x
CodeLocked(c) == \E p \in Procs : Placing(p) /\ resv[req[p].res].code = c

-----------------------------------------------------------------------------
(* POST /putaway/reserve *)

NotReserved(c, R) == \A r \in R : resv[r].code # c

(* The handler's own sweep comes first, so the rows it expires do not      *)
(* count; an unknown product or force skips capacity and mixing.           *)
ReserveRead(s, c, l, force) ==
    LET live == Pending \ Overdue IN
    /\ status[l] # "blocked"
    /\ Known(c) /\ ~force =>
         /\ RemainingBoxes(l, ProductOf[c], live) >= Boxes(c)
         /\ l \in AllowMixed \/ SameOnly(l, ProductOf[c])
    /\ NotReserved(c, live)
    /\ Begin(s, [pc |-> "reserving", code |-> c, loc |-> l, stale |-> Overdue,
                 override |-> force \/ ~Known(c)])
    /\ UNCHANGED tables

(* Identifiers no row has yet. *)
UnusedOrExpired == {r \in Reservations : resv[r].status \in {"none", "expired"}}
Unused == {r \in Reservations : resv[r].status = "none"}

ReserveCommit(s) ==
    /\ req[s].pc = "reserving"
    /\ \E new \in Unused :
         resv' = [Overwrite(req[s].stale, "expired") EXCEPT
                    ![new] = [status |-> "pending", code |-> req[s].code,
                              loc |-> req[s].loc, overdue |-> FALSE]]
    /\ bypassed' = IF req[s].override THEN bypassed \cup {req[s].loc} ELSE bypassed
    /\ End(s)
    /\ UNCHANGED <<status, rows, stock, extra, ledger, placed, codeLoc>>

-----------------------------------------------------------------------------
(* POST /putaway/confirm with a reservation *)

Confirmable(r) == resv[r].status = "pending"

(* Scanning another location redirects the reservation there, unless that  *)
(* location is blocked.  The reserved location itself is not checked.      *)
ConfirmRead(s, r, l) ==
    /\ Confirmable(r)
    /\ l # resv[r].loc => status[l] # "blocked"
    /\ Begin(s, [pc |-> "confirming", res |-> r, loc |-> l,
                 redirect |-> l # resv[r].loc, seen |-> status[l]])
    /\ UNCHANGED tables

(* Confirmations stored for a location, plus the one being made. *)
PalletsWithout(l, request) ==
    Cardinality({r \in Reservations : resv[r].status = "confirmed" /\ resv[r].loc = l})
PalletsWith(l, request) ==
    1 + Cardinality({r \in Reservations :
                       /\ resv[r].status = "confirmed"
                       /\ \/ resv[r].loc = l
                          \/ r = request.res /\ request.redirect})

(* scalar_one_or_none raises where there are two rows, for ever. *)
Readable(x) == extra[x] = 0

(* The stock item is read FOR UPDATE, or found missing and inserted.       *)
ConfirmPlace(s) ==
    LET q == req[s]
        c == resv[q.res].code IN
    /\ q.pc = "confirming"
    /\ ~CodeLocked(c)
    /\ Known(c) => Readable(RowOf(q)) /\ ~RowLocked(RowOf(q))
    /\ req' = [req EXCEPT ![s] =
                 [pc |-> "placing", res |-> q.res, loc |-> q.loc,
                  redirect |-> q.redirect, seen |-> q.seen,
                  fresh |-> Known(c) /\ RowOf(q) \notin rows,
                  qty |-> IF Known(c) THEN stock[RowOf(q)] ELSE 0,
                  full |-> PalletsWith(q.loc, q) >= MaxPallets[q.loc]]]
    /\ UNCHANGED tables

(* Two transactions found the stock item missing and insert it.            *)
Upserted(q) == FALSE
InsertedAgain(q) == q.fresh /\ RowOf(q) \in rows

(* The unique constraint fails the later one, which is rolled back; but    *)
(* NULLs are never equal, so it lets a second row without a batch in.      *)
InsertConflict(q) == InsertedAgain(q) /\ RowOf(q)[2] \notin Unbatched

(* location_id of the reservation after the commit, and the one stamped on *)
(* the marking codes.                                                      *)
LocBefore(q) == resv[q.res].loc
LocAfter(q) == IF q.redirect THEN q.loc ELSE resv[q.res].loc
StampedLoc(q) == q.loc

(* Only a column whose value differs from what was read is written: a      *)
(* status that was changed meanwhile survives if it was not to change.     *)
ConfirmCommit(s) ==
    LET q == req[s]
        c == resv[q.res].code
        x == RowOf(q)
        newStatus == IF q.full THEN "occupied" ELSE "partial" IN
    /\ q.pc = "placing"
    /\ ~InsertConflict(q)
    /\ IF Known(c)
         THEN /\ rows' = rows \cup {x}
              /\ IF InsertedAgain(q)
                   THEN /\ extra' = [extra EXCEPT ![x] = @ + Boxes(c)]
                        /\ UNCHANGED stock
                   ELSE /\ stock' = [stock EXCEPT ![x] = q.qty + Boxes(c)]
                        /\ UNCHANGED extra
              /\ ledger' = [ledger EXCEPT ![x] = @ + Boxes(c)]
         ELSE UNCHANGED <<rows, stock, extra, ledger>>
    /\ placed' = [placed EXCEPT ![q.res] = @ + 1]
    /\ codeLoc' = [codeLoc EXCEPT ![c] = StampedLoc(q)]
    /\ status' = [status EXCEPT ![q.loc] = IF newStatus = q.seen THEN @ ELSE newStatus]
    /\ resv' = [resv EXCEPT ![q.res].status = "confirmed",
                            ![q.res].loc = LocAfter(q)]
    /\ bypassed' = IF q.redirect THEN bypassed \cup {q.loc} ELSE bypassed
    /\ End(s)

ConfirmConflict(s) ==
    /\ Placing(s)
    /\ InsertConflict(req[s])
    /\ End(s)
    /\ UNCHANGED tables

-----------------------------------------------------------------------------
(* POST /putaway/cancel *)

CancelRead(s, r) ==
    /\ resv[r].status = "pending"
    /\ Begin(s, [pc |-> "cancelling", res |-> r])
    /\ UNCHANGED tables

CancelCommit(s) ==
    /\ req[s].pc = "cancelling"
    /\ resv' = Overwrite({req[s].res}, "cancelled")
    /\ End(s)
    /\ UNCHANGED <<status, rows, stock, extra, ledger, placed, codeLoc, bypassed>>

-----------------------------------------------------------------------------
(* The expiry sweep, by the worker and by GET /putaway/reservations *)

SweepRead(p) ==
    /\ Overdue # {}
    /\ Begin(p, [pc |-> "sweeping", stale |-> Overdue])
    /\ UNCHANGED tables

SweepUncommitted(p) ==
    /\ req[p].pc = "sweeping"
    /\ End(p)
    /\ UNCHANGED tables

SweepCommit(p) ==
    /\ req[p].pc = "sweeping"
    /\ resv' = Overwrite(req[p].stale, "expired")
    /\ End(p)
    /\ UNCHANGED <<status, rows, stock, extra, ledger, placed, codeLoc, bypassed>>

-----------------------------------------------------------------------------
(* The environment *)

(* RESERVATION_TTL_MINUTES go by without a confirmation. *)
TtlElapses(r) ==
    /\ r \in Pending \ Overdue
    /\ resv' = [resv EXCEPT ![r].overdue = TRUE]
    /\ UNCHANGED <<status, rows, stock, extra, ledger, placed, codeLoc, bypassed, req>>

(* PATCH /warehouses/{id}/locations/{id} *)
UpdateLocation(l, st) ==
    /\ status[l] # st
    /\ status' = [status EXCEPT ![l] = st]
    /\ UNCHANGED <<resv, rows, stock, extra, ledger, placed, codeLoc, bypassed, req>>

(* A transaction dies with its connection, its process or an exception. *)
Rollback(p) ==
    /\ req[p] # Idle
    /\ End(p)
    /\ UNCHANGED tables

-----------------------------------------------------------------------------

Reserve(s) ==
    \/ \E c \in Codes, l \in Locations, force \in BOOLEAN : ReserveRead(s, c, l, force)
    \/ ReserveCommit(s)

Confirm(s) ==
    \/ \E r \in Reservations, l \in Locations : ConfirmRead(s, r, l)
    \/ ConfirmPlace(s)
    \/ ConfirmCommit(s)
    \/ ConfirmConflict(s)

Cancel(s) == (\E r \in Reservations : CancelRead(s, r)) \/ CancelCommit(s)

Sweep(p) == SweepRead(p) \/ SweepCommit(p)

Next ==
    \/ \E s \in Sessions : Reserve(s) \/ Confirm(s) \/ Cancel(s)
    \/ \E p \in Procs : Sweep(p) \/ Rollback(p)
    \/ \E r \in Reservations : TtlElapses(r)
    \/ \E l \in Locations, st \in PatchStatuses : UpdateLocation(l, st)

Spec == Init /\ [][Next]_vars

-----------------------------------------------------------------------------
(* Properties that hold however requests overlap *)

(* The StockItem rows of a location and product add up to the ledger's     *)
(* entries, and nothing is held where there is no row, although            *)
(* confirmations read and write the cache in separate statements, and may  *)
(* insert two rows of goods without a batch (ledger._adjust_stock).        *)
LedgerMatchesStock ==
    /\ \A x \in Rows : OnHand[x] = ledger[x]
    /\ \A x \in Rows \ rows : OnHand[x] = 0

(* Every box of a product on a shelf was put there by a confirmation that  *)
(* wrote its own ledger entry: nothing is created or lost when confirms    *)
(* overlap or are rolled back (putaway.confirm_putaway).                   *)
StockComesFromConfirmations ==
    \A p \in Products :
      Total([l \in Locations |-> OnHand[<<l, p>>]], Locations)
        = Total([r \in Reservations |-> placed[r] * Boxes(resv[r].code)],
                {r \in Reservations : /\ resv[r].status # "none"
                                      /\ ProductOf[resv[r].code] = p})

(* A confirmed reservation names the location its goods stand on, even     *)
(* when overlapping confirmations redirected it to different locations.    *)
ConfirmedGoodsAreInPlace ==
    \A r \in Reservations :
      resv[r].status = "confirmed" =>
        /\ placed[r] >= 1
        /\ Known(resv[r].code) =>
             OnHand[<<resv[r].loc, ProductOf[resv[r].code]>>] >= Boxes(resv[r].code)

(* The location stamped on a marking code holds at least that code's boxes *)
(* (confirm_putaway's update of marking_codes goes with the stock).        *)
CodeIsWhereItsStockIs ==
    \A c \in Codes :
      codeLoc[c] # NoLoc /\ Known(c) =>
        OnHand[<<codeLoc[c], ProductOf[c]>>] >= Boxes(c)

(* A reservation that was closed never holds capacity again: no commit     *)
(* based on an old read makes it pending (or another code's) again.        *)
ClosedStaysClosed ==
    [][\A r \in Reservations :
         resv[r].status \in Terminal =>
           resv'[r].status \in Terminal /\ resv'[r].code = resv[r].code]_vars

-----------------------------------------------------------------------------
(* Properties that hold when requests do not overlap *)

(* The products whose boxes are on the location, or held there by R. *)
GoodsAt(l, R) ==
    {p \in Products : \/ OnHand[<<l, p>>] > 0
                      \/ \E r \in R : resv[r].loc = l /\ ProductOf[resv[r].code] = p}

Fits(l, R) ==
    GoodsAt(l, R) # {} =>
      \E p \in GoodsAt(l, R) : StockAt(l) + HeldAt(l, R) <= CapacityBoxes(l, p)

(* Where no operator override was used, goods on the shelf and goods on    *)
(* their way never exceed what the location takes of one of the products   *)
(* among them, whichever of the holds are released first                   *)
(* (_remaining_boxes; of which product depends on the order they came in). *)
NoOverbooking ==
    \A l \in Locations \ bypassed : \A R \in SUBSET Pending : Fits(l, R)

(* A location all of whose pallet places are confirmed is marked occupied  *)
(* (or blocked), so that slotting stops offering it.                       *)
FullIsOccupied ==
    \A l \in Locations :
      Cardinality({r \in Reservations : resv[r].status = "confirmed" /\ resv[r].loc = l})
          >= MaxPallets[l]
        => status[l] \in {"occupied", "blocked"}

-----------------------------------------------------------------------------
(* Liveness *)

(* The worker is scheduled every CHECK_INTERVAL and its transactions do    *)
(* not fail for ever; time passes.  Nothing is assumed of the operators.   *)
Fairness ==
    /\ \A r \in Reservations : WF_vars(TtlElapses(r))
    /\ \A w \in Workers : WF_vars(SweepRead(w)) /\ SF_vars(SweepCommit(w))

FairSpec == Spec /\ Fairness

(* A reservation nobody confirms or cancels is released all the same       *)
(* (worker/reservation_expiry.py).                                         *)
HoldsAreReleased ==
    \A r \in Reservations :
      resv[r].status = "pending" ~> resv[r].status \in Terminal
=============================================================================
