----------------------------- MODULE Stockroom -----------------------------
(***************************************************************************)
(* The stock of one product in one warehouse and the requests that write   *)
(* it through services/ledger.py: movements, write-offs, returns and RMAs  *)
(* (endpoints/operations.py, services/rma.py), the states of batches       *)
(* (endpoints/quarantine.py) and of tasks (endpoints/tasks.py).  The       *)
(* modules Receiving, Counting and Replenishing add their own requests to  *)
(* the same tables, and Floor puts all of them together.                   *)
(*                                                                         *)
(* A request is one transaction at READ COMMITTED.  What it reads without  *)
(* a lock is a step of its own.  _adjust_stock locks the row it writes     *)
(* until the commit, so lock and commit are one step, unless a row is      *)
(* missing: it is inserted, and others may insert it too before the        *)
(* commit.  Booked quantities are the business of Picking; here none is.   *)
(***************************************************************************)
EXTENDS Requests, Integers, FiniteSets

CONSTANTS
    Locations,
    Batches,      \* identifiers of batch rows, all of one product and expiry date
    NoBatch,      \* batch_id NULL
    Tasks,        \* identifiers of task rows, numbers
    NoTask,
    Codes,        \* transport codes
    NoLoc,
    OnShelf,      \* what the warehouse holds at the start, of one batch at most
    Amounts,      \* quantities an operator enters
    ReturnZone,   \* first location of the RETURN zone, or NoLoc
    QuarantineZone,   \* first location of the QUARANTINE zone, or NoLoc
    PatchStatuses     \* statuses a manager gives to tasks

Rows == Locations \X (Batches \cup {NoBatch})

(* "pending" stands for IN_PROGRESS too: no request tells the two apart.   *)
TaskStatus == {"none", "pending", "assigned", "completed", "cancelled"}
BatchStatus == {"none", "available", "quarantine", "blocked"}

ASSUME StockroomAssumption ==
    /\ NoBatch \notin Batches
    /\ IsFiniteSet(Batches)
    /\ Tasks \subseteq Nat
    /\ NoTask \notin Tasks
    /\ NoLoc \notin Locations
    /\ OnShelf \in [Rows -> Nat]
    /\ \A x, y \in Rows : OnShelf[x] > 0 /\ OnShelf[y] > 0 /\ NoBatch \notin {x[2], y[2]}
                           => x[2] = y[2]
    /\ Amounts \subseteq Nat \ {0}
    /\ {ReturnZone, QuarantineZone} \subseteq Locations \cup {NoLoc}
    /\ PatchStatuses \subseteq TaskStatus \ {"none"}

VARIABLES
    copies,     \* how many stock_items rows there are for a location and batch
    stock,      \* the sum of their qty
    held,       \* rows whose status is BLOCKED
    ledger,     \* the sum of the ledger's deltas at a location, per batch
    batch,      \* Batch.status
    task,       \* the tasks table
    code,       \* per marking code: known, its batch, its location
    occupied,   \* locations whose status is not EMPTY
    shelf,      \* what really stands there (history)
    apart,      \* rows whose stock may differ from it (history)
    adrift,     \* rows whose stock may differ from the ledger (history)
    overtaken,  \* sessions whose counted row was written meanwhile (history)
    placements, \* per task, its PUTAWAY ledger entries (history)
    excused     \* tasks and batches that two requests raced for, or that a
                \* manager's decision brought back (history)

stockVars == <<copies, stock, ledger, shelf, apart, adrift, overtaken>>
tables == <<stockVars, held, batch, task, code, occupied, placements, excused>>
vars == <<tables, req, begun>>

NoRow == [kind |-> "none", status |-> "none", batch |-> NoBatch, qty |-> 0,
          from |-> NoLoc, to |-> NoLoc, code |-> NoLoc]

Init ==
    /\ copies = [x \in Rows |-> IF OnShelf[x] > 0 THEN 1 ELSE 0]
    /\ stock = OnShelf
    /\ held = {}
    /\ ledger = OnShelf
    /\ batch = [b \in Batches |->
                  IF \E x \in Rows : x[2] = b /\ OnShelf[x] > 0 THEN "available" ELSE "none"]
    /\ task = [t \in Tasks |-> NoRow]
    /\ code = [c \in Codes |-> [known |-> FALSE, batch |-> NoBatch, at |-> NoLoc]]
    /\ occupied = {}
    /\ NoRequests
    /\ shelf = OnShelf
    /\ apart = {}
    /\ adrift = {}
    /\ overtaken = {}
    /\ placements = [t \in Tasks |-> 0]
    /\ excused = {}

-----------------------------------------------------------------------------
(* Transactions *)

Open(t) == task[t].status \in {"pending", "assigned"}

(* The next read of a request that is under way, or its first. *)
Reads(s, request) == Becomes(s, request) /\ UNCHANGED tables

(* Rows a transaction has locked while it waits to commit an insertion. *)
Locked(x) == \E s \in Sessions : req[s].pc = "inserting" /\ x \in DOMAIN req[s].delta \ req[s].fresh

Clamp(n) == IF n > 0 THEN n ELSE 0
Lesser(m, n) == IF m < n THEN m ELSE n

(* What a request posts to the ledger, per row, and sets with it: the task *)
(* it closes, and whether the row or its batch is held back.               *)
Posting(kind, delta) ==
    [kind |-> kind, delta |-> delta, task |-> NoTask, hold |-> "no"]

At(x, n) == [y \in {x} |-> n]
Move(x, y, n) == [z \in {x, y} |-> IF z = y THEN n ELSE -n]

(* Goods that really move with the entries: no more leaves a place than    *)
(* stands there, and of a movement no more arrives than left.              *)
Arriving(delta) ==
    LET sources == {x \in DOMAIN delta : delta[x] < 0} IN
    [x \in DOMAIN delta |->
       IF delta[x] > 0 /\ sources # {}
         THEN Lesser(delta[x], shelf[CHOOSE y \in sources : TRUE])
         ELSE delta[x]]

Carried(q) ==
    IF q.kind \in {"count", "inventory", "scrap"} THEN [x \in DOMAIN q.delta |-> 0]
    ELSE Arriving(q.delta)

(* A count of one of the rows D is under way. *)
Counting(s, D) ==
    LET q == req[s] IN
    \/ q.pc \in {"counted", "expected"} /\ q.row \in D
    \/ q.pc = "inserting" /\ q.kind = "count" /\ q.fresh \cap D # {}

(* _adjust_stock for each entry: qty = max(0, qty + delta). *)
NewQtyStrict(n) == IF n > 1 THEN n ELSE 0
NewQty(n) == Clamp(n)

(* The commit of posting q, where qty is what the session takes the rows'  *)
(* qty to be: what is stored, unless it holds an older copy of the row.    *)
Write(s, q, qty, fresh) ==
    LET D == DOMAIN q.delta
        moved == Carried(q)
        late == s \in overtaken IN
    /\ copies' = [x \in Rows |-> IF x \in fresh THEN copies[x] + 1 ELSE copies[x]]
    /\ stock' = [x \in Rows |-> IF x \in fresh THEN stock[x] + NewQty(q.delta[x])
                                ELSE IF x \in D THEN NewQty(qty[x] + q.delta[x]) ELSE stock[x]]
    /\ ledger' = [x \in Rows |-> IF x \in D THEN ledger[x] + q.delta[x] ELSE ledger[x]]
    /\ shelf' = [x \in Rows |-> IF x \in D THEN Clamp(shelf[x] + moved[x]) ELSE shelf[x]]
    /\ adrift' = adrift \cup {x \in D : \/ (IF x \in fresh THEN 0 ELSE qty[x]) + q.delta[x] < 0
                                      \/ (q.kind = "inventory" /\ late)}
    /\ apart' = IF q.kind \in {"count", "inventory"}
                  THEN IF late THEN apart \cup D ELSE apart \ D
                  ELSE apart \cup {x \in D : moved[x] # q.delta[x]}
                             \cup {x \in fresh : copies[x] > 0}
    /\ overtaken' = overtaken \cup {r \in Sessions \ {s} : Counting(r, D)}

(* What goes with the entries in the same commit. *)
Settle(q) ==
    LET batches == {x[2] : x \in DOMAIN q.delta} \ {NoBatch} IN
    /\ held' = IF q.hold = "row" THEN held \cup DOMAIN q.delta ELSE held
    /\ batch' = IF q.hold = "batch"
                  THEN [b \in Batches |-> IF b \in batches THEN "quarantine" ELSE batch[b]]
                  ELSE batch
    /\ IF q.task = NoTask THEN UNCHANGED <<task, placements>>
       ELSE /\ task' = [task EXCEPT ![q.task].status = "completed"]
            /\ placements' = IF q.kind = "putaway"
                               THEN [placements EXCEPT ![q.task] = @ + 1] ELSE placements
    /\ IF q.kind = "putaway"
         THEN LET l == (CHOOSE x \in DOMAIN q.delta : TRUE)[1]
                  c == task[q.task].code IN
              /\ occupied' = occupied \cup {l}
              /\ code' = IF c \in Codes /\ code[c].known
                           THEN [code EXCEPT ![c].at = l] ELSE code
         ELSE UNCHANGED <<occupied, code>>
    /\ UNCHANGED excused

(* Of two rows with the same key, scalar_one_or_none raises. *)
Readable(x) == copies[x] <= 1

(* The request posts q and commits, or goes on to insert what is missing.  *)
Post(s, q, qty) ==
    LET D == DOMAIN q.delta
        missing == {x \in D : copies[x] = 0} IN
    /\ \A x \in D : Readable(x) /\ ~Locked(x)
    /\ IF missing = {}
         THEN Write(s, q, qty, {}) /\ Settle(q) /\ Ends(s)
         ELSE /\ Becomes(s, [pc |-> "inserting", kind |-> q.kind, delta |-> q.delta,
                             task |-> q.task, hold |-> q.hold, fresh |-> missing])
              /\ UNCHANGED tables

(* The unique constraint does not hold for rows without a batch. *)
Unique(x) == x[2] # NoBatch

(* If somebody else has inserted a row without a batch, there are two from *)
(* now on, and stock is their sum.  Holding a row back reads it again.     *)
Insert(s) ==
    LET q == req[s] IN
    /\ q.pc = "inserting"
    /\ \A x \in q.fresh : Unique(x) \/ q.hold = "row" => copies[x] = 0
    /\ Write(s, q, stock, q.fresh)
    /\ Settle(q)
    /\ Ends(s)
    /\ UNCHANGED begun

(* The constraint fails the insertion, a handler raises, or the connection *)
(* dies.                                                                   *)
Rollback(s) ==
    /\ req[s] # Idle
    /\ Ends(s)
    /\ UNCHANGED <<tables, begun>>

-----------------------------------------------------------------------------
(* Requests that post what the operator enters *)

Stored == stock

(* POST /operations/movement *)
CreateMovement(s, x, y, n) ==
    /\ Arrives(s)
    /\ x[1] # y[1] /\ x[2] = y[2]
    /\ Post(s, Posting("move", Move(x, y, n)), Stored)

(* POST /operations/writeoff *)
CreateWriteoff(s, x, n) ==
    /\ Arrives(s)
    /\ Post(s, Posting("writeoff", At(x, -n)), Stored)

(* POST /operations/return.  Goods written off on arrival are deducted     *)
(* from the location of the request, though they never stood there.        *)
CreateReturn(s, x, n, disposition) ==
    /\ Arrives(s)
    /\ Post(s, CASE disposition = "restock" -> Posting("return", At(x, n))
                 [] disposition = "quarantine" ->
                      [Posting("return", At(x, n)) EXCEPT !.hold = "row"]
                 [] disposition = "writeoff" -> Posting("scrap", At(x, -n)), Stored)

(* POST /rma.  Scrap gets a ledger entry without a location; the rest goes *)
(* to the location of the line, or to its zone's first location.           *)
ProcessRma(s, l, b, n, disposition) ==
    LET zone == IF disposition = "restock" THEN ReturnZone ELSE QuarantineZone
        x == <<IF l = NoLoc THEN zone ELSE l, b>>
        q == Posting("return", At(x, n)) IN
    /\ Arrives(s)
    /\ x \in Rows
    /\ Post(s, IF disposition = "quarantine" THEN [q EXCEPT !.hold = "batch"] ELSE q, Stored)

-----------------------------------------------------------------------------
(* Decisions of managers, each one short transaction *)

(* POST /quarantine/{id}/block and /release *)
BlockBatch(b) ==
    /\ batch[b] \notin {"none", "blocked"}
    /\ batch' = [batch EXCEPT ![b] = "blocked"]
    /\ UNCHANGED <<stockVars, held, task, code, occupied, placements, excused, req, begun>>

ReleaseBatch(b) ==
    /\ batch[b] \in {"quarantine", "blocked"}
    /\ batch' = [batch EXCEPT ![b] = "available"]
    /\ excused' = excused \cup {b}
    /\ UNCHANGED <<stockVars, held, task, code, occupied, placements, req, begun>>

(* PATCH /tasks/{id}: any status, whatever the task's own. *)
UpdateTask(t, st) ==
    /\ task[t].kind # "none"
    /\ task[t].status # st
    /\ task' = [task EXCEPT ![t].status = st]
    /\ excused' = excused \cup {t}
    /\ UNCHANGED <<stockVars, held, batch, code, occupied, placements, req, begun>>

-----------------------------------------------------------------------------

(* Batches a request can name, and rows. *)
Known == {NoBatch} \cup {b \in Batches : batch[b] # "none"}
Nameable == Locations \X Known

Operate(s) ==
    \/ \E x, y \in Nameable, n \in Amounts : CreateMovement(s, x, y, n)
    \/ \E x \in Nameable, n \in Amounts : CreateWriteoff(s, x, n)
    \/ \E x \in Nameable, n \in Amounts, d \in {"restock", "quarantine", "writeoff"} :
         CreateReturn(s, x, n, d)
    \/ \E l \in Locations \cup {NoLoc}, b \in Known, n \in Amounts,
          d \in {"restock", "quarantine"} : ProcessRma(s, l, b, n, d)
    \/ Insert(s)
    \/ Rollback(s)

Manage ==
    \/ \E b \in Batches : BlockBatch(b) \/ ReleaseBatch(b)
    \/ \E t \in Tasks, st \in PatchStatuses : UpdateTask(t, st)
=============================================================================
