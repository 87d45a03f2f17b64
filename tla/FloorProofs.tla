----------------------------- MODULE FloorProofs -----------------------------
(***************************************************************************)
(* Proofs about Floor, for any number of overlapping requests, locations,  *)
(* batches, tasks and codes.                                               *)
(***************************************************************************)
EXTENDS Floor, SumTheorems

-----------------------------------------------------------------------------
(* The inductive invariant.                                                *)
(*                                                                         *)
(* What a request has read or is about to write is typed; of a posting     *)
(* that closes a putaway task the kinds agree, so that no count and no     *)
(* movement closes a putaway task without placing its goods.               *)

TaskRow ==
    {m \in [kind : {"none", "putaway", "count", "replenish"}, status : TaskStatus,
            batch : Batches \cup {NoBatch}, qty : Nat,
            from : Locations \cup {NoLoc}, to : Locations \cup {NoLoc},
            code : Codes \cup {NoLoc}] :
       m.kind = "replenish" => m.from \in Locations /\ m.to \in Locations}

CodeRow == [known : BOOLEAN, batch : Batches \cup {NoBatch}, at : Locations \cup {NoLoc}]

StockTypes ==
    /\ copies \in [Rows -> Nat]
    /\ stock \in [Rows -> Nat]
    /\ ledger \in [Rows -> Int]
    /\ shelf \in [Rows -> Nat]
    /\ apart \subseteq Rows
    /\ adrift \subseteq Rows
    /\ overtaken \subseteq Sessions

TaskTypes ==
    /\ held \subseteq Rows
    /\ batch \in [Batches -> BatchStatus]
    /\ task \in [Tasks -> TaskRow]
    /\ code \in [Codes -> CodeRow]
    /\ occupied \subseteq Locations
    /\ placements \in [Tasks -> Nat]
    /\ excused \subseteq Tasks \cup Batches

TypeOK == StockTypes /\ TaskTypes

PostingOK(q) ==
    /\ q.delta \in [DOMAIN q.delta -> Int]
    /\ DOMAIN q.delta \subseteq Rows
    /\ q.task \in Tasks \cup {NoTask}
    /\ q.kind = "putaway" => q.task \in Tasks /\ DOMAIN q.delta # {}

RequestOK(q) ==
    \/ q.pc = "idle"
    \/ q.pc = "inserting" /\ PostingOK(q) /\ q.fresh \subseteq DOMAIN q.delta
    \/ q.pc = "receiving" /\ q.code \in Codes /\ q.batch \in Batches \cup {NoBatch}
    \/ q.pc = "confirming" /\ q.task \in Tasks /\ q.loc \in Locations
    \/ q.pc = "planning" /\ q.tasks \subseteq {r \in TaskRow : r.kind # "none" /\ r.kind # "putaway"}
    \/ q.pc = "counted" /\ q.row \in Rows /\ q.qty \in Nat /\ q.task \in Tasks \cup {NoTask}
    \/ q.pc = "expected" /\ q.row \in Rows /\ q.qty \in Nat /\ q.seen \in Nat \cup {-1}

RequestsOK ==
    /\ req = [s \in Sessions |-> req[s]]
    /\ \A s \in Sessions : RequestOK(req[s])

(* Unless it was overtaken, a count still holds what is on the shelf, and  *)
(* an inventory count what is stored; a count that inserts its row found   *)
(* none.                                                                   *)
Sees(q, late) ==
    /\ q.pc = "counted" /\ ~late => q.qty = shelf[q.row]
    /\ q.pc = "expected" =>
         /\ q.seen # -1 => copies[q.row] > 0
         /\ ~late => /\ q.qty = shelf[q.row]
                     /\ q.seen = IF copies[q.row] = 0 THEN -1 ELSE stock[q.row]
    /\ q.pc = "inserting" =>
         /\ \A x \in DOMAIN q.delta \ q.fresh : copies[x] > 0
         /\ q.kind # "inventory"
         /\ q.kind = "count" /\ ~late =>
              \A x \in DOMAIN q.delta : x \in q.fresh /\ copies[x] = 0 /\ q.delta[x] = shelf[x]

SeenIsStored == \A s \in Sessions : Sees(req[s], s \in overtaken)

NoRowNoStock == \A x \in Rows : copies[x] = 0 => stock[x] = 0

(* The task that posting q closes is of the kind of the posting.           *)
Fits(q) ==
    q.task \in Tasks =>
      /\ task[q.task].kind # "none"
      /\ q.kind = "putaway" <=> task[q.task].kind = "putaway"

FitsRequest(q) ==
    /\ q.pc = "inserting" => Fits(q)
    /\ q.pc = "confirming" => task[q.task].kind = "putaway"
    /\ q.pc = "counted" /\ q.task \in Tasks => task[q.task].kind = "count"

KindsFit == \A s \in Sessions : FitsRequest(req[s])

(* A confirmation of putaway task t is under way.                          *)
Places(q, t) ==
    \/ q.pc = "confirming" /\ q.task = t
    \/ q.pc = "inserting" /\ q.kind = "putaway" /\ q.task = t

(* Nobody places the goods of a task again; two that would are excused.    *)
PlacedBefore(t) ==
    task[t].status # "pending" /\ \A s \in Sessions : ~Places(req[s], t)

OneConfirmation(t) ==
    \A r, s \in Sessions : Places(req[r], t) /\ Places(req[s], t) => r = s

TaskPlaced(t) ==
    /\ task[t].kind = "none" => placements[t] = 0
    /\ t \notin excused =>
         /\ placements[t] <= 1
         /\ placements[t] = 1 => PlacedBefore(t)
         /\ OneConfirmation(t)
         /\ task[t].kind = "putaway" /\ ~Open(t) => placements[t] > 0

TasksPlaced == \A t \in Tasks : TaskPlaced(t)

StockInv == /\ StockTypes
            /\ CacheIsLedger
            /\ StockIsOnShelf
            /\ NoRowNoStock
            /\ SeenIsStored
TaskInv == TaskTypes /\ KindsFit /\ TasksPlaced
FloorInv == StockInv /\ TaskInv /\ RequestsOK

-----------------------------------------------------------------------------

LEMMA FloorStart == Init => FloorInv
<1> SUFFICES ASSUME Init PROVE FloorInv
  OBVIOUS
<1> USE StockroomAssumption DEF StockroomAssumption, Init
<1>1. TypeOK
  <2>1. NoRow \in TaskRow
    BY DEF NoRow, TaskRow, TaskStatus
  <2>2. [known |-> FALSE, batch |-> NoBatch, at |-> NoLoc] \in CodeRow
    BY DEF CodeRow
  <2> QED BY <2>1, <2>2 DEF TypeOK, StockTypes, TaskTypes, BatchStatus
<1>2. \A s \in Sessions : req[s].pc = "idle"
  BY DEF NoRequests, Idle
<1>3. RequestsOK
  BY <1>2 DEF RequestsOK, RequestOK, NoRequests
<1>4. CacheIsLedger /\ StockIsOnShelf /\ NoRowNoStock
  BY DEF CacheIsLedger, StockIsOnShelf, NoRowNoStock
<1>5. SeenIsStored /\ KindsFit
  BY <1>2 DEF SeenIsStored, Sees, KindsFit, FitsRequest
<1>6. TasksPlaced
  <2> SUFFICES ASSUME NEW t \in Tasks PROVE TaskPlaced(t)
    BY DEF TasksPlaced
  <2>1. placements[t] = 0 /\ task[t].kind = "none" /\ \A s \in Sessions : ~Places(req[s], t)
    BY <1>2 DEF Places, NoRow
  <2> QED BY <2>1 DEF TaskPlaced, OneConfirmation
<1> QED BY <1>1, <1>3, <1>4, <1>5, <1>6 DEF FloorInv, StockInv, TaskInv, TypeOK

-----------------------------------------------------------------------------
(* Writing the stock.                                                      *)

LEMMA CarriedTypes ==
    ASSUME StockTypes, NEW STATE q, PostingOK(q)
    PROVE  \A x \in DOMAIN q.delta : Carried(q)[x] \in Int
<1> SUFFICES ASSUME NEW x \in DOMAIN q.delta PROVE Carried(q)[x] \in Int
  OBVIOUS
<1> DEFINE sources == {y \in DOMAIN q.delta : q.delta[y] < 0}
<1>1. q.delta[x] \in Int
  BY DEF PostingOK
<1>2. CASE sources = {}
  BY <1>1, <1>2 DEF Carried, Arriving
<1>3. CASE sources # {}
  <2>1. (CHOOSE y \in sources : TRUE) \in Rows
    BY <1>3 DEF PostingOK
  <2>2. shelf[CHOOSE y \in sources : TRUE] \in Int
    BY <2>1 DEF StockTypes
  <2> QED BY <1>1, <2>2 DEF Carried, Arriving, Lesser
<1> QED BY <1>2, <1>3

LEMMA WriteTypes ==
    ASSUME StockTypes, NEW s \in Sessions, NEW STATE q, PostingOK(q),
           NEW STATE qty, qty \in [Rows -> Nat],
           NEW STATE fresh, fresh \subseteq DOMAIN q.delta,
           Write(s, q, qty, fresh)
    PROVE  StockTypes'
<1> DEFINE D == DOMAIN q.delta
<1>1. D \subseteq Rows /\ \A x \in D : q.delta[x] \in Int /\ Carried(q)[x] \in Int
  BY CarriedTypes DEF PostingOK
<1> QED BY <1>1 DEF StockTypes, Write, NewQty, Clamp

(* What session s takes the rows of q to hold: what is stored, unless it   *)
(* counted the inventory and was overtaken.                                *)
Current(s, q, qty) ==
    \A x \in DOMAIN q.delta :
      qty[x] = stock[x] \/ (q.kind = "inventory" /\ s \in overtaken)

(* What a count that was not overtaken makes of its row is on the shelf.   *)
Truthful(s, q, qty) ==
    q.kind \in {"count", "inventory"} /\ s \notin overtaken =>
      \A x \in DOMAIN q.delta : qty[x] + q.delta[x] = shelf[x]

(* A count is of one row, an inventory count of one that is there.         *)
OfOneRow(q) ==
    /\ q.kind = "inventory" => \A x \in DOMAIN q.delta : copies[x] > 0
    /\ q.kind = "count" => \A x, y \in DOMAIN q.delta : x = y

(* Rows to be inserted, and the rest of a posting.                         *)
Missing(s, q, fresh) ==
    /\ \A x \in DOMAIN q.delta \ fresh : copies[x] > 0
    /\ q.kind \in {"count", "inventory"} /\ s \notin overtaken => \A x \in fresh : copies[x] = 0

(* Whoever counts a row that is written is overtaken, so that no count     *)
(* holds an old copy of it unnoticed; and a row that is written without    *)
(* being clamped, from what is stored, changes as the ledger does.         *)
LEMMA WriteKeepsStock ==
    ASSUME StockInv, RequestsOK, NEW s \in Sessions, NEW STATE q, PostingOK(q),
           NEW STATE qty, qty \in [Rows -> Nat],
           NEW STATE fresh, fresh \subseteq DOMAIN q.delta,
           Current(s, q, qty), Truthful(s, q, qty), Missing(s, q, fresh),
           Write(s, q, qty, fresh), Ends(s)
    PROVE  StockInv'
<1> DEFINE D == DOMAIN q.delta
<1>1. D \subseteq Rows /\ \A x \in D : q.delta[x] \in Int
  BY DEF PostingOK
<1>2. StockTypes'
  BY WriteTypes DEF StockInv
<1>3. CacheIsLedger'
  <2> SUFFICES ASSUME NEW x \in Rows \ adrift' PROVE stock'[x] = ledger'[x]
    BY DEF CacheIsLedger
  <2>1. stock[x] \in Nat /\ ledger[x] \in Int /\ qty[x] \in Nat /\ stock[x] = ledger[x]
    BY DEF StockInv, StockTypes, CacheIsLedger, Write
  <2>2. CASE x \in fresh
    <3>1. q.delta[x] \in Int /\ ~(q.delta[x] < 0)
      BY <1>1, <2>2 DEF Write
    <3>2. stock'[x] = stock[x] + NewQty(q.delta[x]) /\ ledger'[x] = ledger[x] + q.delta[x]
      BY <2>2 DEF Write
    <3> QED BY <2>1, <3>1, <3>2 DEF NewQty, Clamp
  <2>3. CASE x \in D \ fresh
    <3>1. q.delta[x] \in Int /\ ~(qty[x] + q.delta[x] < 0) /\ qty[x] = stock[x]
      BY <1>1, <2>3 DEF Write, Current
    <3>2. stock'[x] = NewQty(qty[x] + q.delta[x]) /\ ledger'[x] = ledger[x] + q.delta[x]
      BY <2>3 DEF Write
    <3> QED BY <2>1, <3>1, <3>2 DEF NewQty, Clamp
  <2>4. CASE x \notin D
    <3>1. stock'[x] = stock[x] /\ ledger'[x] = ledger[x]
      BY <2>4 DEF Write
    <3> QED BY <2>1, <3>1
  <2> QED BY <2>2, <2>3, <2>4
<1>4. SeenIsStored'
  <2> SUFFICES ASSUME NEW r \in Sessions PROVE Sees(req[r], r \in overtaken)'
    BY DEF SeenIsStored
  <2>1. CASE r = s
    BY <2>1 DEF Sees, Ends, Becomes, Idle, RequestsOK
  <2>2. CASE r # s
    <3>1. req'[r] = req[r]
      BY <2>2 DEF Ends, Becomes, RequestsOK
    <3>2. Sees(req[r], r \in overtaken) /\ RequestOK(req[r])
      BY DEF StockInv, SeenIsStored, RequestsOK
    <3>3. r \notin overtaken' => r \notin overtaken /\ ~Counting(r, D)
      BY <2>2 DEF Write
    <3>4. \A x \in Rows : copies[x] \in Nat /\ (copies[x] > 0 => copies'[x] > 0)
      BY DEF StockInv, StockTypes, Write
    <3>5. \A x \in Rows \ D : stock'[x] = stock[x] /\ shelf'[x] = shelf[x] /\ copies'[x] = copies[x]
      BY DEF Write
    <3>6. CASE req[r].pc = "counted"
      BY <3>1, <3>2, <3>3, <3>5, <3>6 DEF Sees, Counting, RequestOK
    <3>7. CASE req[r].pc = "expected"
      BY <3>1, <3>2, <3>3, <3>4, <3>5, <3>7 DEF Sees, Counting, RequestOK
    <3>8. CASE req[r].pc = "inserting"
      <4>1. DOMAIN req[r].delta \subseteq Rows
        BY <3>2, <3>8 DEF RequestOK, PostingOK
      <4>2. ASSUME req[r].kind = "count", r \notin overtaken', NEW x \in DOMAIN req[r].delta
            PROVE  x \in req[r].fresh /\ copies'[x] = 0 /\ req[r].delta[x] = shelf'[x]
        <5>1. x \in req[r].fresh /\ copies[x] = 0 /\ req[r].delta[x] = shelf[x]
          BY <3>2, <3>3, <3>8, <4>2 DEF Sees
        <5>2. x \notin D
          BY <3>3, <3>8, <4>2, <5>1 DEF Counting
        <5> QED BY <3>5, <4>1, <5>1, <5>2
      <4> QED BY <3>1, <3>2, <3>4, <3>8, <4>1, <4>2 DEF Sees
    <3> QED BY <3>1, <3>6, <3>7, <3>8 DEF Sees
  <2> QED BY <2>1, <2>2
<1>5. StockIsOnShelf'
  <2> SUFFICES ASSUME NEW x \in Rows \ apart' PROVE stock'[x] = shelf'[x]
    BY DEF StockIsOnShelf
  <2> DEFINE counts == q.kind \in {"count", "inventory"}
             moved == Carried(q)
  <2>1. /\ stock[x] \in Nat /\ shelf[x] \in Nat /\ copies[x] \in Nat /\ qty[x] \in Nat
        /\ copies[x] = 0 => stock[x] = 0
    BY DEF StockInv, StockTypes, NoRowNoStock
  <2>2. stock' = [y \in Rows |-> IF y \in fresh THEN stock[y] + NewQty(q.delta[y])
                                ELSE IF y \in D THEN NewQty(qty[y] + q.delta[y]) ELSE stock[y]]
    BY DEF Write
  <2>3. shelf' = [y \in Rows |-> IF y \in D THEN Clamp(shelf[y] + moved[y]) ELSE shelf[y]]
    BY DEF Write
  <2>4. apart' = IF counts THEN IF s \in overtaken THEN apart \cup D ELSE apart \ D
                 ELSE apart \cup {y \in D : moved[y] # q.delta[y]}
                            \cup {y \in fresh : copies[y] > 0}
    BY DEF Write
  <2>5. x \notin D => x \notin apart
    BY <2>4
  <2>6. x \notin apart => stock[x] = shelf[x]
    BY DEF StockInv, StockIsOnShelf
  <2>7. CASE x \notin D
    BY <2>2, <2>3, <2>5, <2>6, <2>7
  <2>8. CASE x \in D /\ counts
    <3>1. s \notin overtaken
      BY <2>4, <2>8
    <3>2. qty[x] + q.delta[x] = shelf[x] /\ (x \in fresh => copies[x] = 0)
      BY <2>8, <3>1 DEF Truthful, Missing
    <3>3. moved[x] = 0
      BY <2>8 DEF Carried
    <3>4. shelf'[x] = shelf[x]
      BY <2>1, <2>3, <2>8, <3>3 DEF Clamp
    <3>5. CASE x \in fresh
      <4>1. qty[x] = stock[x]
        BY <2>8, <3>1 DEF Current
      <4>2. stock'[x] = NewQty(q.delta[x])
        BY <1>1, <2>1, <2>2, <2>8, <3>2, <3>5 DEF NewQty, Clamp
      <4> QED BY <1>1, <2>1, <2>8, <3>2, <3>4, <3>5, <4>1, <4>2 DEF NewQty, Clamp
    <3>6. CASE x \notin fresh
      BY <2>1, <2>2, <2>8, <3>2, <3>4, <3>6 DEF NewQty, Clamp
    <3> QED BY <3>5, <3>6
  <2>9. CASE x \in D /\ ~counts
    <3>1. x \notin apart /\ moved[x] = q.delta[x] /\ (x \in fresh => copies[x] = 0)
      BY <2>1, <2>4, <2>9
    <3>2. shelf'[x] = Clamp(stock[x] + q.delta[x])
      BY <2>3, <2>6, <2>9, <3>1
    <3>3. CASE x \in fresh
      BY <1>1, <2>1, <2>2, <2>9, <3>1, <3>2, <3>3 DEF NewQty, Clamp
    <3>4. CASE x \notin fresh
      <4>1. qty[x] = stock[x]
        BY <2>9 DEF Current
      <4> QED BY <2>2, <2>9, <3>2, <3>4, <4>1 DEF NewQty
    <3> QED BY <3>3, <3>4
  <2> QED BY <2>7, <2>8, <2>9
<1>6. NoRowNoStock'
  <2> SUFFICES ASSUME NEW x \in Rows, copies'[x] = 0 PROVE stock'[x] = 0
    BY DEF NoRowNoStock
  <2>1. copies[x] \in Nat /\ (copies[x] = 0 => stock[x] = 0)
    BY DEF StockInv, StockTypes, NoRowNoStock
  <2>2. x \notin fresh /\ copies[x] = 0
    BY <2>1 DEF Write
  <2>3. x \notin D
    BY <2>2 DEF Missing
  <2> QED BY <2>1, <2>2, <2>3 DEF Write
<1> QED BY <1>2, <1>3, <1>4, <1>5, <1>6 DEF StockInv

(* A request that writes nothing of the stock. *)
LEMMA StockUntouched ==
    ASSUME StockInv, RequestsOK, UNCHANGED stockVars, NEW s \in Sessions,
           NEW STATE r, Becomes(s, r), Sees(r, s \in overtaken)
    PROVE  StockInv'
<1> USE DEF stockVars
<1>1. StockTypes' /\ CacheIsLedger' /\ StockIsOnShelf' /\ NoRowNoStock'
  BY DEF StockInv, StockTypes, CacheIsLedger, StockIsOnShelf, NoRowNoStock
<1>2. SeenIsStored'
  <2> SUFFICES ASSUME NEW o \in Sessions PROVE Sees(req[o], o \in overtaken)'
    BY DEF SeenIsStored
  <2>1. CASE o = s
    <3>1. req'[o] = r
      BY <2>1 DEF Becomes, RequestsOK
    <3> QED BY <2>1, <3>1 DEF Sees
  <2>2. CASE o # s
    <3>1. req'[o] = req[o]
      BY <2>2 DEF Becomes, RequestsOK
    <3> QED BY <3>1 DEF Sees, StockInv, SeenIsStored
  <2> QED BY <2>1, <2>2
<1> QED BY <1>1, <1>2 DEF StockInv

(* A decision, or a task that opens, with no request involved. *)
LEMMA StockStays ==
    ASSUME StockInv, UNCHANGED <<stockVars, req>>
    PROVE  StockInv'
BY DEF StockInv, StockTypes, CacheIsLedger, StockIsOnShelf, NoRowNoStock, SeenIsStored, Sees,
       stockVars

LEMMA RequestsFollow ==
    ASSUME RequestsOK, NEW s \in Sessions, NEW STATE r, Becomes(s, r), RequestOK(r)
    PROVE  RequestsOK'
<1>1. req' = [o \in Sessions |-> IF o = s THEN r ELSE req[o]]
  BY DEF RequestsOK, Becomes
<1>2. ASSUME NEW o \in Sessions PROVE RequestOK(req[o])'
  <2>1. CASE o = s
    <3>1. req'[o] = r
      BY <1>1, <2>1
    <3> QED BY <3>1 DEF RequestOK, PostingOK
  <2>2. CASE o # s
    <3>1. req'[o] = req[o] /\ RequestOK(req[o])
      BY <1>1, <2>2 DEF RequestsOK
    <3> QED BY <3>1 DEF RequestOK, PostingOK
  <2> QED BY <2>1, <2>2
<1> QED BY <1>1, <1>2 DEF RequestsOK

-----------------------------------------------------------------------------
(* The tasks.                                                              *)

taskVars == <<held, batch, task, code, occupied, placements, excused>>

(* The requests after s went on to r, or ended. *)
LEMMA OthersWait ==
    ASSUME RequestsOK, NEW s \in Sessions, NEW STATE r, Becomes(s, r)
    PROVE  /\ req'[s] = r
           /\ \A o \in Sessions : o # s => req'[o] = req[o]
BY DEF RequestsOK, Becomes

LEMMA TasksUntouched ==
    ASSUME TaskInv, RequestsOK, UNCHANGED taskVars, NEW s \in Sessions,
           NEW STATE r, Becomes(s, r), FitsRequest(r),
           \A t \in Tasks : Places(r, t) => Places(req[s], t)
    PROVE  TaskInv'
<1> USE DEF taskVars
<1>1. TaskTypes'
  BY DEF TaskInv, TaskTypes
<1>2. KindsFit'
  <2> SUFFICES ASSUME NEW o \in Sessions PROVE FitsRequest(req[o])'
    BY DEF KindsFit
  <2>1. req'[o] = r \/ req'[o] = req[o]
    BY OthersWait
  <2>2. FitsRequest(r) /\ FitsRequest(req[o])
    BY DEF TaskInv, KindsFit
  <2> QED BY <2>1, <2>2 DEF FitsRequest, Fits
<1>3. TasksPlaced'
  <2> SUFFICES ASSUME NEW t \in Tasks PROVE TaskPlaced(t)'
    BY DEF TasksPlaced
  <2>1. \A o \in Sessions : Places(req'[o], t) => Places(req[o], t)
    BY OthersWait
  <2>2. TaskPlaced(t)
    BY DEF TaskInv, TasksPlaced
  <2> QED BY <2>1, <2>2 DEF TaskPlaced, PlacedBefore, OneConfirmation, Open
<1> QED BY <1>1, <1>2, <1>3 DEF TaskInv

LEMMA SettleTypes ==
    ASSUME TaskTypes, NEW STATE q, PostingOK(q), Settle(q)
    PROVE  /\ TaskTypes'
           /\ \A t \in Tasks : task'[t].kind = task[t].kind
<1>1. held' \subseteq Rows
  BY DEF TaskTypes, Settle, PostingOK
<1>2. batch' \in [Batches -> BatchStatus]
  BY DEF TaskTypes, Settle, BatchStatus
<1>3. /\ task' \in [Tasks -> TaskRow]
      /\ placements' \in [Tasks -> Nat]
      /\ \A t \in Tasks : task'[t].kind = task[t].kind
  <2>1. CASE q.task = NoTask
    BY <2>1 DEF TaskTypes, Settle
  <2>2. CASE q.task # NoTask
    <3>1. q.task \in Tasks
      BY <2>2 DEF PostingOK
    <3>2. task' = [task EXCEPT ![q.task].status = "completed"]
      BY <2>2 DEF Settle
    <3>3. placements' \in [Tasks -> Nat]
      BY <2>2, <3>1 DEF Settle, TaskTypes
    <3>4. task \in [Tasks -> TaskRow]
      BY DEF TaskTypes
    <3>5. ASSUME NEW t \in Tasks
          PROVE  task'[t] \in TaskRow /\ task'[t].kind = task[t].kind
      <4>1. task[t] \in TaskRow
        BY <3>4
      <4>2. task'[t] = task[t] \/ task'[t] = [task[t] EXCEPT !.status = "completed"]
        BY <3>1, <3>2, <3>4
      <4> QED BY <4>1, <4>2 DEF TaskRow, TaskStatus
    <3> QED BY <3>2, <3>3, <3>4, <3>5
  <2> QED BY <2>1, <2>2
<1>4. occupied' \subseteq Locations /\ code' \in [Codes -> CodeRow]
  <2>1. CASE q.kind = "putaway"
    <3> DEFINE l == (CHOOSE x \in DOMAIN q.delta : TRUE)[1]
    <3>1. l \in Locations
      BY <2>1 DEF PostingOK, Rows
    <3> HIDE DEF l
    <3>2. occupied' = occupied \cup {l}
      BY <2>1 DEF Settle, l
    <3>3. \/ code' = code
          \/ \E c \in Codes : code' = [code EXCEPT ![c].at = l]
      BY <2>1 DEF Settle, l
    <3> QED BY <3>1, <3>2, <3>3 DEF TaskTypes, CodeRow
  <2>2. CASE q.kind # "putaway"
    BY <2>2 DEF TaskTypes, Settle
  <2> QED BY <2>1, <2>2
<1>5. excused' = excused
  BY DEF Settle
<1> QED BY <1>1, <1>2, <1>3, <1>4, <1>5 DEF TaskTypes

(* Whoever places the goods of a task is the only one to confirm it, and   *)
(* nobody begins to once it is completed.                                  *)
LEMMA SettleKeepsTasks ==
    ASSUME TaskInv, RequestsOK, NEW s \in Sessions, NEW STATE q, PostingOK(q), Fits(q),
           q.kind = "putaway" => Places(req[s], q.task),
           Settle(q), Ends(s)
    PROVE  TaskInv'
<1>1. TaskTypes' /\ \A t \in Tasks : task'[t].kind = task[t].kind
  BY SettleTypes DEF TaskInv
<1>2. req'[s] = Idle /\ \A o \in Sessions : o # s => req'[o] = req[o]
  BY OthersWait DEF Ends
<1>3. KindsFit'
  <2> SUFFICES ASSUME NEW o \in Sessions PROVE FitsRequest(req[o])'
    BY DEF KindsFit
  <2>1. CASE o = s
    BY <1>2, <2>1 DEF FitsRequest, Idle
  <2>2. CASE o # s
    <3>1. req'[o] = req[o] /\ FitsRequest(req[o])
      BY <1>2, <2>2 DEF TaskInv, KindsFit
    <3>2. req[o].pc = "confirming" => req[o].task \in Tasks
      BY DEF RequestsOK, RequestOK
    <3> QED BY <1>1, <3>1, <3>2 DEF FitsRequest, Fits
  <2> QED BY <2>1, <2>2
<1>4. TasksPlaced'
  <2> SUFFICES ASSUME NEW t \in Tasks PROVE TaskPlaced(t)'
    BY DEF TasksPlaced
  <2>0. TaskPlaced(t) /\ placements[t] \in Nat /\ excused' = excused
    BY DEF TaskInv, TasksPlaced, TaskTypes, Settle
  <2>1. \A o \in Sessions : Places(req'[o], t) => o # s /\ Places(req[o], t)
    BY <1>2 DEF Places, Idle
  <2>2. OneConfirmation(t) => OneConfirmation(t)'
    BY <2>1 DEF OneConfirmation
  <2>3. CASE t = q.task /\ q.kind = "putaway"
    <3>1. task'[t].status = "completed" /\ placements'[t] = placements[t] + 1
      BY <2>3, StockroomAssumption DEF Settle, TaskInv, TaskTypes, StockroomAssumption, TaskRow
    <3>2. task'[t].kind # "none"
      BY <1>1, <2>3 DEF Fits
    <3> SUFFICES ASSUME t \notin excused
                 PROVE  placements'[t] = 1 /\ PlacedBefore(t)' /\ OneConfirmation(t)'
      BY <2>0, <3>2 DEF TaskPlaced
    <3>3. Places(req[s], t) /\ OneConfirmation(t)
      BY <2>0, <2>3 DEF TaskPlaced
    <3>4. placements[t] = 0
      BY <2>0, <3>3 DEF TaskPlaced, PlacedBefore
    <3>5. \A o \in Sessions : ~Places(req'[o], t)
      BY <2>1, <3>3 DEF OneConfirmation
    <3> QED BY <2>2, <3>1, <3>3, <3>4, <3>5 DEF PlacedBefore
  <2>4. CASE t = q.task /\ q.kind # "putaway"
    <3>1. task'[t].status = "completed" /\ placements'[t] = placements[t]
      BY <2>4, StockroomAssumption DEF Settle, TaskInv, TaskTypes, StockroomAssumption, TaskRow
    <3>2. task'[t].kind # "none" /\ task'[t].kind # "putaway"
      BY <1>1, <2>4 DEF Fits
    <3> QED BY <2>0, <2>1, <2>2, <3>1, <3>2 DEF TaskPlaced, PlacedBefore
  <2>5. CASE t # q.task
    <3>1. task'[t] = task[t] /\ placements'[t] = placements[t]
      BY <2>5 DEF Settle, TaskInv, TaskTypes
    <3> QED BY <2>0, <2>1, <2>2, <3>1 DEF TaskPlaced, PlacedBefore, Open
  <2> QED BY <2>3, <2>4, <2>5
<1> QED BY <1>1, <1>3, <1>4 DEF TaskInv

-----------------------------------------------------------------------------
(* Posting and committing.                                                 *)

LEMMA PostKeeps ==
    ASSUME FloorInv, NEW s \in Sessions, NEW STATE q, PostingOK(q), Fits(q),
           q.kind = "putaway" => Places(req[s], q.task),
           NEW STATE qty, qty \in [Rows -> Nat],
           Current(s, q, qty), Truthful(s, q, qty), OfOneRow(q),
           Post(s, q, qty)
    PROVE  FloorInv'
<1> USE DEF FloorInv
<1> DEFINE missing == {x \in DOMAIN q.delta : copies[x] = 0}
           r == [pc |-> "inserting", kind |-> q.kind, delta |-> q.delta,
                 task |-> q.task, hold |-> q.hold, fresh |-> missing]
<1>1. CASE missing = {}
  <2>1. Write(s, q, qty, {}) /\ Settle(q) /\ Ends(s)
    BY <1>1 DEF Post
  <2>0. Missing(s, q, {})
    BY <1>1 DEF Missing, PostingOK, StockInv, StockTypes
  <2>2. StockInv'
    BY <2>0, <2>1, WriteKeepsStock
  <2>3. TaskInv'
    BY <2>1, SettleKeepsTasks
  <2>4. RequestsOK'
    <3>1. RequestOK(Idle)
      BY DEF RequestOK, Idle
    <3> QED BY <2>1, <3>1, RequestsFollow DEF Ends
  <2> QED BY <2>2, <2>3, <2>4
<1>2. CASE missing # {}
  <2>1. Becomes(s, r) /\ UNCHANGED stockVars /\ UNCHANGED taskVars
    BY <1>2 DEF Post, tables, taskVars
  <2>2. r.pc = "inserting" /\ r.kind = q.kind /\ r.delta = q.delta /\ r.task = q.task
        /\ r.fresh = missing
    OBVIOUS
  <2>3. missing \subseteq DOMAIN q.delta
    OBVIOUS
  <2>9. missing = {x \in DOMAIN q.delta : copies[x] = 0}
    OBVIOUS
  <2> HIDE DEF r, missing
  <2>4. RequestOK(r)
    BY <2>2, <2>3 DEF RequestOK, PostingOK
  <2>5. Sees(r, s \in overtaken)
    <3>1. \A x \in DOMAIN q.delta : /\ x \in Rows /\ q.delta[x] \in Int /\ copies[x] \in Nat
                                     /\ stock[x] \in Nat /\ (copies[x] = 0 => stock[x] = 0)
      BY DEF PostingOK, StockInv, StockTypes, NoRowNoStock
    <3>2. \A x \in DOMAIN r.delta \ r.fresh : copies[x] > 0
      BY <2>2, <2>9, <3>1
    <3>3. r.kind # "inventory"
      BY <1>2, <2>2, <2>9, <3>1 DEF OfOneRow
    <3>4. ASSUME r.kind = "count", s \notin overtaken, NEW x \in DOMAIN r.delta
          PROVE  x \in r.fresh /\ copies[x] = 0 /\ r.delta[x] = shelf[x]
      <4>1. x \in r.fresh /\ copies[x] = 0
        BY <1>2, <2>2, <2>9, <3>4 DEF OfOneRow
      <4>2. qty[x] = stock[x] /\ qty[x] + q.delta[x] = shelf[x]
        BY <2>2, <3>4 DEF Current, Truthful
      <4> QED BY <2>2, <3>1, <3>4, <4>1, <4>2
    <3> QED BY <2>2, <3>2, <3>3, <3>4 DEF Sees
  <2>6. FitsRequest(r) /\ \A t \in Tasks : Places(r, t) => Places(req[s], t)
    BY <2>2 DEF FitsRequest, Fits, Places
  <2>7. StockInv'
    BY <2>1, <2>5, StockUntouched
  <2>8. TaskInv'
    BY <2>1, <2>6, TasksUntouched
  <2> QED BY <2>1, <2>4, <2>7, <2>8, RequestsFollow
<1> QED BY <1>1, <1>2

LEMMA InsertKeeps ==
    ASSUME FloorInv, NEW s \in Sessions, Insert(s)
    PROVE  FloorInv'
<1> USE DEF FloorInv
<1> DEFINE q == req[s]
           now == stock
           fresh == q.fresh
<1>1. PostingOK(q) /\ fresh \subseteq DOMAIN q.delta
  BY DEF Insert, RequestsOK, RequestOK
<1>2. Write(s, q, now, fresh) /\ Settle(q) /\ Ends(s)
  BY DEF Insert
<1>3. Fits(q) /\ (q.kind = "putaway" => Places(req[s], q.task))
  BY DEF Insert, TaskInv, KindsFit, FitsRequest, Places
<1>4. now \in [Rows -> Nat]
  BY DEF StockInv, StockTypes
<1>8. Current(s, q, now)
  BY DEF Current
<1>9. Sees(q, s \in overtaken) /\ q.pc = "inserting"
  BY DEF Insert, StockInv, SeenIsStored
<1>11. Missing(s, q, fresh)
  BY <1>1, <1>9 DEF Sees, Missing
<1>5. RequestOK(Idle)
  BY DEF RequestOK, Idle
<1> HIDE DEF q, now, fresh
<1>12. Truthful(s, q, now)
  <2> SUFFICES ASSUME q.kind \in {"count", "inventory"}, s \notin overtaken,
                      NEW x \in DOMAIN q.delta
               PROVE  now[x] + q.delta[x] = shelf[x]
    BY DEF Truthful
  <2>1. copies[x] = 0 /\ q.delta[x] = shelf[x]
    BY <1>9 DEF Sees
  <2>2. x \in Rows /\ q.delta[x] \in Int
    BY <1>1 DEF PostingOK
  <2>3. now[x] = 0
    BY <2>1, <2>2 DEF now, StockInv, NoRowNoStock
  <2> QED BY <2>1, <2>2, <2>3
<1>6. StockInv'
  BY <1>1, <1>2, <1>4, <1>8, <1>11, <1>12, WriteKeepsStock
<1>7. TaskInv'
  BY <1>1, <1>2, <1>3, SettleKeepsTasks
<1> QED BY <1>2, <1>5, <1>6, <1>7, RequestsFollow DEF Ends

(* A request reads, and nothing else changes. *)
LEMMA ReadKeeps ==
    ASSUME FloorInv, NEW s \in Sessions, NEW STATE r, Becomes(s, r), UNCHANGED tables,
           RequestOK(r), Sees(r, s \in overtaken), FitsRequest(r),
           \A t \in Tasks : Places(r, t) => Places(req[s], t)
    PROVE  FloorInv'
<1>1. UNCHANGED stockVars /\ UNCHANGED taskVars
  BY DEF tables, taskVars
<1> QED BY <1>1, StockUntouched, TasksUntouched, RequestsFollow DEF FloorInv

LEMMA EndKeeps ==
    ASSUME FloorInv, NEW s \in Sessions, Ends(s), UNCHANGED tables
    PROVE  FloorInv'
<1>1. /\ RequestOK(Idle) /\ Sees(Idle, s \in overtaken) /\ FitsRequest(Idle)
      /\ \A t \in Tasks : ~Places(Idle, t)
  BY DEF RequestOK, Sees, FitsRequest, Places, Idle
<1> QED BY <1>1, ReadKeeps DEF Ends

(* A posting that closes no task. *)
LEMMA FreePostKeeps ==
    ASSUME FloorInv, NEW s \in Sessions, NEW STATE q,
           q.task = NoTask, q.kind \notin {"putaway", "count", "inventory"},
           q.delta \in [DOMAIN q.delta -> Int], DOMAIN q.delta \subseteq Rows,
           Post(s, q, stock)
    PROVE  FloorInv'
<1>1. PostingOK(q) /\ Fits(q)
  BY StockroomAssumption DEF PostingOK, Fits, StockroomAssumption
<1> DEFINE now == stock
<1>2. now \in [Rows -> Nat]
  BY DEF FloorInv, StockInv, StockTypes
<1>3. Current(s, q, now)
  BY DEF Current
<1>4. Post(s, q, now)
  OBVIOUS
<1>5. Truthful(s, q, now) /\ OfOneRow(q)
  BY DEF Truthful, OfOneRow
<1> HIDE DEF now
<1> QED BY <1>1, <1>2, <1>3, <1>4, <1>5, PostKeeps

LEMMA Deltas ==
    /\ \A x \in Rows, n \in Int : DOMAIN At(x, n) = {x} /\ At(x, n) \in [{x} -> Int]
    /\ \A x, y \in Rows, n \in Int :
         DOMAIN Move(x, y, n) = {x, y} /\ Move(x, y, n) \in [{x, y} -> Int]
BY DEF At, Move

LEMMA OperateKeeps ==
    ASSUME FloorInv, NEW s \in Sessions, Operate(s)
    PROVE  FloorInv'
<1> USE DEF FloorInv
<1>0. Nameable \subseteq Rows /\ Amounts \subseteq Int /\ \A n \in Amounts : -n \in Int
  BY StockroomAssumption DEF StockroomAssumption, Nameable, Known, Rows
<1>1. ASSUME NEW x \in Nameable, NEW y \in Nameable, NEW n \in Amounts, CreateMovement(s, x, y, n)
      PROVE  FloorInv'
  <2> DEFINE q == Posting("move", Move(x, y, n))
  <2>1. q.task = NoTask /\ q.kind \notin {"putaway", "count", "inventory"} /\ q.delta = Move(x, y, n)
    BY DEF Posting
  <2>2. Post(s, q, stock)
    BY <1>1 DEF CreateMovement, Stored
  <2>0. x \in Rows /\ y \in Rows /\ n \in Int /\ -n \in Int
    BY <1>0
  <2> HIDE DEF q
  <2>3. DOMAIN q.delta \subseteq Rows /\ q.delta \in [DOMAIN q.delta -> Int]
    <3>1. DOMAIN Move(x, y, n) = {x, y} /\ Move(x, y, n) \in [{x, y} -> Int]
      BY <2>0, Deltas
    <3> QED BY <2>0, <2>1, <3>1
  <2> QED BY <2>1, <2>2, <2>3, FreePostKeeps
<1>2. ASSUME NEW x \in Nameable, NEW n \in Amounts, CreateWriteoff(s, x, n)
      PROVE  FloorInv'
  <2> DEFINE q == Posting("writeoff", At(x, -n))
  <2>1. q.task = NoTask /\ q.kind \notin {"putaway", "count", "inventory"} /\ q.delta = At(x, -n)
    BY DEF Posting
  <2>2. Post(s, q, stock)
    BY <1>2 DEF CreateWriteoff, Stored
  <2>0. x \in Rows /\ n \in Int /\ -n \in Int
    BY <1>0
  <2> HIDE DEF q
  <2>3. DOMAIN q.delta \subseteq Rows /\ q.delta \in [DOMAIN q.delta -> Int]
    BY <2>0, <2>1, Deltas, ZenonT(40)
  <2> QED BY <2>1, <2>2, <2>3, FreePostKeeps
<1>3. ASSUME NEW x \in Nameable, NEW n \in Amounts,
             NEW d \in {"restock", "quarantine", "writeoff"}, CreateReturn(s, x, n, d)
      PROVE  FloorInv'
  <2> DEFINE q == CASE d = "restock" -> Posting("return", At(x, n))
                    [] d = "quarantine" -> [Posting("return", At(x, n)) EXCEPT !.hold = "row"]
                    [] d = "writeoff" -> Posting("scrap", At(x, -n))
  <2>1. /\ q.task = NoTask /\ q.kind \notin {"putaway", "count", "inventory"}
        /\ q.delta = At(x, n) \/ q.delta = At(x, -n)
    <3>1. CASE d = "restock"
      BY <3>1 DEF Posting
    <3>2. CASE d = "quarantine"
      BY <3>2 DEF Posting
    <3>3. CASE d = "writeoff"
      BY <3>3 DEF Posting
    <3> QED BY <3>1, <3>2, <3>3
  <2>2. Post(s, q, stock)
    BY <1>3 DEF CreateReturn, Stored
  <2>0. x \in Rows /\ n \in Int /\ -n \in Int
    BY <1>0
  <2> HIDE DEF q
  <2>3. DOMAIN q.delta \subseteq Rows /\ q.delta \in [DOMAIN q.delta -> Int]
    <3>1. PICK m \in {n, -n} : q.delta = At(x, m)
      BY <2>1
    <3>2. DOMAIN At(x, m) = {x} /\ At(x, m) \in [{x} -> Int]
      BY <2>0, Deltas
    <3> QED BY <2>0, <3>1, <3>2
  <2> QED BY <2>1, <2>2, <2>3, FreePostKeeps
<1>4. ASSUME NEW l \in Locations \cup {NoLoc}, NEW b \in Known, NEW n \in Amounts,
             NEW d \in {"restock", "quarantine"}, ProcessRma(s, l, b, n, d)
      PROVE  FloorInv'
  <2> DEFINE zone == IF d = "restock" THEN ReturnZone ELSE QuarantineZone
             x == <<IF l = NoLoc THEN zone ELSE l, b>>
             p == Posting("return", At(x, n))
             q == IF d = "quarantine" THEN [p EXCEPT !.hold = "batch"] ELSE p
  <2>1. q.task = NoTask /\ q.kind \notin {"putaway", "count", "inventory"} /\ q.delta = At(x, n)
    BY DEF Posting
  <2>2. Post(s, q, stock) /\ x \in Rows
    BY <1>4 DEF ProcessRma, Stored
  <2> HIDE DEF q, x
  <2>3. DOMAIN q.delta \subseteq Rows /\ q.delta \in [DOMAIN q.delta -> Int]
    <3>1. DOMAIN At(x, n) = {x} /\ At(x, n) \in [{x} -> Int]
      BY <1>0, <2>2, Deltas
    <3> QED BY <2>1, <2>2, <3>1
  <2> QED BY <2>1, <2>2, <2>3, FreePostKeeps
<1>5. ASSUME Rollback(s) PROVE FloorInv'
  BY <1>5, EndKeeps DEF Rollback
<1> QED BY <1>1, <1>2, <1>3, <1>4, <1>5, InsertKeeps DEF Operate

-----------------------------------------------------------------------------
(* Tasks that open, and decisions of managers.                             *)

LEMMA TasksChange ==
    ASSUME TaskInv, RequestsOK, TaskTypes',
           \A t \in Tasks :
             \/ task'[t] = task[t]
             \/ /\ task[t].kind = "none"
                /\ task'[t].kind # "none"
                /\ task'[t].kind = "putaway" => Open(t)'
             \/ task'[t].kind = task[t].kind /\ t \in excused',
           placements' = placements,
           excused \subseteq excused',
           \A o \in Sessions : req'[o] = req[o] \/ req'[o] = Idle
    PROVE  TaskInv'
<1>1. KindsFit'
  <2> SUFFICES ASSUME NEW o \in Sessions PROVE FitsRequest(req[o])'
    BY DEF KindsFit
  <2>1. CASE req'[o] = Idle
    BY <2>1 DEF FitsRequest, Idle
  <2>2. CASE req'[o] = req[o]
    <3>1. FitsRequest(req[o]) /\ RequestOK(req[o])
      BY DEF TaskInv, KindsFit, RequestsOK
    <3>2. \A t \in Tasks : task[t].kind # "none" => task'[t].kind = task[t].kind
      OBVIOUS
    <3>3. req[o].pc = "confirming" => req[o].task \in Tasks
      BY <3>1 DEF RequestOK
    <3> QED BY <2>2, <3>1, <3>2, <3>3 DEF FitsRequest, Fits
  <2> QED BY <2>1, <2>2
<1>2. TasksPlaced'
  <2> SUFFICES ASSUME NEW t \in Tasks PROVE TaskPlaced(t)'
    BY DEF TasksPlaced
  <2>1. TaskPlaced(t)
    BY DEF TaskInv, TasksPlaced
  <2>2. \A o \in Sessions : Places(req'[o], t) => Places(req[o], t)
    BY DEF Places, Idle
  <2>3. CASE task'[t] = task[t]
    BY <2>1, <2>2, <2>3 DEF TaskPlaced, PlacedBefore, OneConfirmation, Open
  <2>4. CASE /\ task[t].kind = "none"
             /\ task'[t].kind # "none"
             /\ task'[t].kind = "putaway" => Open(t)'
    <3>1. placements'[t] = 0
      BY <2>1, <2>4 DEF TaskPlaced
    <3>2. t \notin excused' => OneConfirmation(t)'
      BY <2>1, <2>2 DEF TaskPlaced, OneConfirmation
    <3> QED BY <2>4, <3>1, <3>2 DEF TaskPlaced
  <2>5. CASE task'[t].kind = task[t].kind /\ t \in excused'
    BY <2>1, <2>5 DEF TaskPlaced
  <2> QED BY <2>3, <2>4, <2>5
<1> QED BY <1>1, <1>2 DEF TaskInv

LEMMA NewTaskIsFree ==
    ASSUME TasksLeft
    PROVE  NewTask \in Tasks /\ task[NewTask].kind = "none"
<1> DEFINE free == {t \in Tasks : task[t].kind = "none"}
<1>1. free \in SUBSET Nat /\ free # {}
  BY StockroomAssumption DEF StockroomAssumption, TasksLeft
<1>2. \E t \in free : \A u \in free : t <= u
  BY <1>1, Smallest
<1> QED BY <1>2 DEF NewTask

LEMMA ManageKeeps ==
    ASSUME FloorInv, Manage
    PROVE  FloorInv'
<1> USE DEF FloorInv
<1>1. ASSUME NEW b \in Batches, BlockBatch(b) \/ ReleaseBatch(b)
      PROVE  FloorInv'
  <2>1. UNCHANGED <<stockVars, req>> /\ UNCHANGED <<task, placements, held, code, occupied>>
    BY <1>1 DEF BlockBatch, ReleaseBatch
  <2>2. /\ excused' \in {excused, excused \cup {b}}
        /\ \E st \in {"blocked", "available"} : batch' = [batch EXCEPT ![b] = st]
    BY <1>1 DEF BlockBatch, ReleaseBatch
  <2>3. TaskTypes'
    BY <2>1, <2>2 DEF TaskInv, TaskTypes, BatchStatus
  <2>4. TaskInv'
    BY <2>1, <2>2, <2>3, TasksChange
  <2>5. RequestsOK'
    BY <2>1 DEF RequestsOK, RequestOK, PostingOK
  <2> QED BY <2>1, <2>4, <2>5, StockStays
<1>2. ASSUME NEW t \in Tasks, NEW st \in PatchStatuses, UpdateTask(t, st)
      PROVE  FloorInv'
  <2>1. UNCHANGED <<stockVars, req>> /\ UNCHANGED <<batch, placements, held, code, occupied>>
    BY <1>2 DEF UpdateTask
  <2>2. excused' = excused \cup {t} /\ task' = [task EXCEPT ![t].status = st]
    BY <1>2 DEF UpdateTask
  <2>3. st \in TaskStatus
    BY StockroomAssumption DEF StockroomAssumption
  <2>4. ASSUME NEW u \in Tasks
        PROVE  /\ task'[u] \in TaskRow
               /\ task'[u].kind = task[u].kind
               /\ task'[u] = task[u] \/ u = t
    <3>1. task[u] \in TaskRow
      BY DEF TaskInv, TaskTypes
    <3>2. task'[u] = task[u] \/ (u = t /\ task'[u] = [task[u] EXCEPT !.status = st])
      BY <2>2 DEF TaskInv, TaskTypes
    <3> QED BY <2>3, <3>1, <3>2 DEF TaskRow
  <2>5. TaskTypes'
    <3>1. task' \in [Tasks -> TaskRow]
      BY <2>2, <2>4 DEF TaskInv, TaskTypes
    <3> QED BY <2>1, <2>2, <3>1 DEF TaskInv, TaskTypes
  <2>6. TaskInv'
    BY <2>1, <2>2, <2>4, <2>5, TasksChange
  <2>7. RequestsOK'
    BY <2>1 DEF RequestsOK, RequestOK, PostingOK
  <2> QED BY <2>1, <2>6, <2>7, StockStays
<1> QED BY <1>1, <1>2 DEF Manage

-----------------------------------------------------------------------------
(* Receiving.                                                              *)

LEMMA ReceiptReadKeeps ==
    ASSUME FloorInv, NEW s \in Sessions, NEW c \in Codes,
           NEW mapped \in BOOLEAN, NEW dated \in BOOLEAN, ReceiptRead(s, c, mapped, dated)
    PROVE  FloorInv'
<1> DEFINE r == [pc |-> "receiving", code |-> c, mapped |-> mapped,
                 isNew |-> mapped /\ dated /\ Found = {},
                 codeNew |-> ~code[c].known,
                 batch |-> IF mapped /\ dated /\ Found # {} THEN CHOOSE b \in Found : TRUE
                           ELSE NoBatch]
<1>1. Becomes(s, r) /\ UNCHANGED tables
  BY DEF ReceiptRead, Reads
<1>2. r.batch \in Batches \cup {NoBatch}
  BY DEF Found
<1>3. r.pc = "receiving" /\ r.code = c
  OBVIOUS
<1> HIDE DEF r
<1>4. /\ RequestOK(r) /\ FitsRequest(r) /\ \A t \in Tasks : ~Places(r, t)
      /\ Sees(r, s \in overtaken)
  BY <1>2, <1>3 DEF RequestOK, FitsRequest, Places, Sees
<1> QED BY <1>1, <1>4, ReadKeeps

LEMMA PutawayTaskTypes ==
    ASSUME NEW b \in Batches \cup {NoBatch}, NEW n \in Nat, NEW c \in Codes \cup {NoLoc}
    PROVE  /\ PutawayTask(b, n, c) \in TaskRow
           /\ PutawayTask(b, n, c).kind = "putaway"
           /\ PutawayTask(b, n, c).status = "pending"
BY DEF PutawayTask, TaskRow, TaskStatus

(* A putaway task opens in a row not used yet. *)
LEMMA TaskOpens ==
    ASSUME TaskTypes, TasksLeft, NEW m \in TaskRow,
           m.kind = "putaway", m.status = "pending",
           task' = [task EXCEPT ![NewTask] = m]
    PROVE  /\ task' \in [Tasks -> TaskRow]
           /\ \A t \in Tasks :
                \/ task'[t] = task[t]
                \/ /\ task[t].kind = "none"
                   /\ task'[t].kind # "none"
                   /\ task'[t].kind = "putaway" => Open(t)'
<1>1. PICK n \in Tasks : n = NewTask /\ task[n].kind = "none"
  BY NewTaskIsFree
<1>2. task' = [task EXCEPT ![n] = m]
  BY <1>1
<1>3. task' \in [Tasks -> TaskRow]
  BY <1>2 DEF TaskTypes
<1>4. task'[n] = m /\ \A t \in Tasks : t # n => task'[t] = task[t]
  BY <1>2 DEF TaskTypes
<1>5. Open(n)'
  BY <1>4 DEF Open
<1> QED BY <1>1, <1>3, <1>4, <1>5

LEMMA ReceiptCommitKeeps ==
    ASSUME FloorInv, NEW s \in Sessions, ReceiptCommit(s)
    PROVE  FloorInv'
<1> USE DEF FloorInv
<1> DEFINE q == req[s]
           b == IF q.isNew THEN CHOOSE n \in Unused : TRUE ELSE q.batch
<1>1. q.code \in Codes /\ q.batch \in Batches \cup {NoBatch}
  BY DEF ReceiptCommit, Receiving, RequestsOK, RequestOK
<1>2. b \in Batches \cup {NoBatch} /\ (q.isNew => b \in Batches)
  <2>1. CASE q.isNew
    <3>1. Unused # {}
      BY <2>1 DEF ReceiptCommit
    <3>2. (CHOOSE n \in Unused : TRUE) \in Batches
      BY <3>1 DEF Unused
    <3> QED BY <2>1, <3>2
  <2>2. CASE ~q.isNew
    BY <1>1, <2>2
  <2> QED BY <2>1, <2>2
<1>3. Ends(s) /\ UNCHANGED <<stockVars, held, occupied, placements>>
  BY DEF ReceiptCommit
<1>4. excused' = excused \/ (q.isNew /\ excused' = excused \cup {b})
  BY DEF ReceiptCommit
<1>5. batch' = batch \/ \E st \in BatchStatus : batch' = [batch EXCEPT ![b] = st]
  BY DEF ReceiptCommit, BatchStatus
<1>6. code' = [code EXCEPT ![q.code] =
                 [known |-> TRUE, batch |-> IF @.batch = NoBatch THEN b ELSE @.batch, at |-> @.at]]
  BY DEF ReceiptCommit
<1>7. \/ task' = task
      \/ TasksLeft /\ task' = [task EXCEPT ![NewTask] = PutawayTask(b, UnitsOf[q.code], q.code)]
  BY DEF ReceiptCommit
<1> HIDE DEF q, b
<1>8. /\ task' \in [Tasks -> TaskRow]
      /\ \A t \in Tasks :
           \/ task'[t] = task[t]
           \/ /\ task[t].kind = "none"
              /\ task'[t].kind # "none"
              /\ task'[t].kind = "putaway" => Open(t)'
  <2>1. CASE task' = task
    BY <2>1 DEF TaskInv, TaskTypes
  <2>2. CASE TasksLeft /\ task' = [task EXCEPT ![NewTask] = PutawayTask(b, UnitsOf[q.code], q.code)]
    <3> DEFINE m == PutawayTask(b, UnitsOf[q.code], q.code)
    <3>1. UnitsOf[q.code] \in Nat
      BY <1>1, ReceivingAssumption DEF ReceivingAssumption
    <3>2. m \in TaskRow /\ m.kind = "putaway" /\ m.status = "pending"
      BY <1>1, <1>2, <3>1, PutawayTaskTypes
    <3>3. TasksLeft /\ task' = [task EXCEPT ![NewTask] = m]
      BY <2>2
    <3> HIDE DEF m
    <3> QED BY <3>2, <3>3, TaskOpens DEF TaskInv
  <2> QED BY <1>7, <2>1, <2>2
<1>9. TaskTypes'
  <2>1. code' \in [Codes -> CodeRow]
    <3>1. code \in [Codes -> CodeRow] /\ code[q.code] \in CodeRow
      BY <1>1 DEF TaskInv, TaskTypes
    <3> DEFINE row == [known |-> TRUE,
                       batch |-> IF code[q.code].batch = NoBatch THEN b ELSE code[q.code].batch,
                       at |-> code[q.code].at]
    <3>2. row \in CodeRow
      BY <1>2, <3>1 DEF CodeRow
    <3>3. code' = [code EXCEPT ![q.code] = row]
      BY <1>6
    <3> HIDE DEF row
    <3> QED BY <3>1, <3>2, <3>3
  <2>2. batch' \in [Batches -> BatchStatus]
    BY <1>5 DEF TaskInv, TaskTypes
  <2>3. excused' \subseteq Tasks \cup Batches
    BY <1>2, <1>4 DEF TaskInv, TaskTypes
  <2> QED BY <1>3, <1>8, <2>1, <2>2, <2>3 DEF TaskInv, TaskTypes
<1>10. \A o \in Sessions : req'[o] = req[o] \/ req'[o] = Idle
  BY <1>3, OthersWait DEF Ends
<1>11. TaskInv'
  BY <1>3, <1>4, <1>8, <1>9, <1>10, TasksChange
<1>12. RequestOK(Idle) /\ Sees(Idle, s \in overtaken)
  BY DEF RequestOK, Idle, Sees
<1> QED BY <1>3, <1>11, <1>12, StockUntouched, RequestsFollow DEF Ends

LEMMA TsdScanKeeps ==
    ASSUME FloorInv, NEW s \in Sessions, NEW n \in Amounts, TsdScan(s, n)
    PROVE  FloorInv'
<1> USE DEF FloorInv
<1> DEFINE m == PutawayTask(NoBatch, n, NoLoc)
<1>1. n \in Nat
  BY StockroomAssumption DEF StockroomAssumption
<1>2. m \in TaskRow /\ m.kind = "putaway" /\ m.status = "pending"
  BY <1>1, PutawayTaskTypes
<1>3. /\ TasksLeft /\ task' = [task EXCEPT ![NewTask] = m]
      /\ UNCHANGED <<stockVars, req>>
      /\ UNCHANGED <<held, batch, code, occupied, placements, excused>>
  BY DEF TsdScan
<1> HIDE DEF m
<1>4. /\ task' \in [Tasks -> TaskRow]
      /\ \A t \in Tasks :
           \/ task'[t] = task[t]
           \/ /\ task[t].kind = "none"
              /\ task'[t].kind # "none"
              /\ task'[t].kind = "putaway" => Open(t)'
  BY <1>2, <1>3, TaskOpens DEF TaskInv
<1>5. TaskTypes'
  BY <1>3, <1>4 DEF TaskInv, TaskTypes
<1>6. TaskInv'
  BY <1>3, <1>4, <1>5, TasksChange
<1>7. RequestsOK'
  BY <1>3 DEF RequestsOK, RequestOK, PostingOK
<1> QED BY <1>3, <1>6, <1>7, StockStays

(* A confirmation that begins while another is under way excuses the task; *)
(* otherwise the task is pending, so that its goods are not placed yet.    *)
LEMMA TaskConfirmReadKeeps ==
    ASSUME FloorInv, NEW s \in Sessions, NEW t \in Tasks, NEW l \in Locations,
           TaskConfirmRead(s, t, l)
    PROVE  FloorInv'
<1> USE DEF FloorInv
<1> DEFINE r == [pc |-> "confirming", task |-> t, loc |-> l]
<1>1. Becomes(s, r) /\ UNCHANGED stockVars
      /\ UNCHANGED <<held, batch, task, code, occupied, placements>>
  BY DEF TaskConfirmRead
<1>2. task[t].kind = "putaway" /\ task[t].status = "pending"
  BY DEF TaskConfirmRead, Confirmable
<1>3. /\ excused' = excused \/ excused' = excused \cup {t}
      /\ t \notin excused' => \A o \in Sessions : ~Places(req[o], t)
  BY DEF TaskConfirmRead, Confirming, Placing, Places
<1>4. r.pc = "confirming" /\ r.task = t /\ r.loc = l
  OBVIOUS
<1> HIDE DEF r
<1>5. RequestOK(r) /\ Sees(r, s \in overtaken)
  BY <1>4 DEF RequestOK, Sees
<1>6. req'[s] = r /\ \A o \in Sessions : o # s => req'[o] = req[o]
  BY <1>1, OthersWait
<1>7. TaskTypes'
  BY <1>1, <1>3 DEF TaskInv, TaskTypes
<1>8. KindsFit'
  <2> SUFFICES ASSUME NEW o \in Sessions PROVE FitsRequest(req[o])'
    BY DEF KindsFit
  <2>1. CASE o = s
    BY <1>1, <1>2, <1>4, <1>6, <2>1 DEF FitsRequest
  <2>2. CASE o # s
    <3>1. FitsRequest(req[o]) /\ req'[o] = req[o]
      BY <1>6, <2>2 DEF TaskInv, KindsFit
    <3> QED BY <1>1, <3>1 DEF FitsRequest, Fits
  <2> QED BY <2>1, <2>2
<1>9. TasksPlaced'
  <2> SUFFICES ASSUME NEW u \in Tasks PROVE TaskPlaced(u)'
    BY DEF TasksPlaced
  <2>1. TaskPlaced(u) /\ placements[u] \in Nat
    BY DEF TaskInv, TasksPlaced, TaskTypes
  <2>2. CASE u # t
    <3>1. \A o \in Sessions : Places(req'[o], u) => Places(req[o], u)
      BY <1>4, <1>6, <2>2 DEF Places
    <3>2. u \in excused \/ u \notin excused'
      BY <1>3, <2>2
    <3> QED BY <1>1, <1>3, <2>1, <3>1, <3>2 DEF TaskPlaced, PlacedBefore, OneConfirmation, Open
  <2>3. CASE u = t
    <3> SUFFICES ASSUME t \notin excused'
                 PROVE  placements[t] = 0 /\ OneConfirmation(t)'
      BY <1>1, <1>2, <2>1, <2>3 DEF TaskPlaced, Open
    <3>1. t \notin excused /\ \A o \in Sessions : ~Places(req[o], t)
      BY <1>3
    <3>2. placements[t] = 0
      BY <1>2, <2>1, <2>3, <3>1 DEF TaskPlaced, PlacedBefore
    <3>3. \A o \in Sessions : Places(req'[o], t) => o = s
      BY <1>6, <3>1
    <3> QED BY <3>2, <3>3 DEF OneConfirmation
  <2> QED BY <2>2, <2>3
<1>10. TaskInv'
  BY <1>7, <1>8, <1>9 DEF TaskInv
<1> QED BY <1>1, <1>5, <1>10, StockUntouched, RequestsFollow

LEMMA TaskConfirmPostKeeps ==
    ASSUME FloorInv, NEW s \in Sessions, TaskConfirmPost(s)
    PROVE  FloorInv'
<1> USE DEF FloorInv
<1> DEFINE t == req[s].task
           x == <<req[s].loc, task[t].batch>>
           n == task[t].qty
           q == [Posting("putaway", At(x, n)) EXCEPT !.task = t]
           now == stock
<1>1. t \in Tasks /\ req[s].loc \in Locations /\ req[s].pc = "confirming"
  BY DEF TaskConfirmPost, RequestsOK, RequestOK
<1>2. task[t] \in TaskRow /\ task[t].kind = "putaway"
  BY <1>1 DEF TaskInv, TaskTypes, KindsFit, FitsRequest
<1>3. x \in Rows /\ n \in Int
  BY <1>1, <1>2 DEF TaskRow, Rows
<1>4. Places(req[s], t)
  BY <1>1 DEF Places
<1>5. Post(s, q, now)
  BY DEF TaskConfirmPost, Stored
<1>6. q.kind = "putaway" /\ q.delta = At(x, n) /\ q.task = t
  BY DEF Posting
<1>7. now \in [Rows -> Nat]
  BY DEF StockInv, StockTypes
<1>8. Current(s, q, now)
  BY DEF Current
<1>11. Truthful(s, q, now) /\ OfOneRow(q)
  BY <1>6 DEF Truthful, OfOneRow
<1> HIDE DEF q, now, x, n, t
<1>9. PostingOK(q)
  <2>1. DOMAIN At(x, n) = {x} /\ At(x, n) \in [{x} -> Int]
    BY <1>3, Deltas
  <2> QED BY <1>1, <1>3, <1>6, <2>1 DEF PostingOK
<1>10. Fits(q)
  BY <1>2, <1>6 DEF Fits
<1> QED BY <1>4, <1>5, <1>6, <1>7, <1>8, <1>9, <1>10, <1>11, PostKeeps

LEMMA ReceiveKeeps ==
    ASSUME FloorInv, NEW s \in Sessions, Receive(s)
    PROVE  FloorInv'
BY ReceiptReadKeeps, ReceiptCommitKeeps, TsdScanKeeps, TaskConfirmReadKeeps,
   TaskConfirmPostKeeps DEF Receive

-----------------------------------------------------------------------------
(* Counting and replenishing.                                              *)

Plannable == {m \in TaskRow : m.kind # "none" /\ m.kind # "putaway"}

LEMMA PlanReadKeeps ==
    ASSUME FloorInv, NEW s \in Sessions, NEW STATE T, T \subseteq Plannable,
           Reads(s, [pc |-> "planning", tasks |-> T])
    PROVE  FloorInv'
<1> DEFINE r == [pc |-> "planning", tasks |-> T]
<1>1. Becomes(s, r) /\ UNCHANGED tables
  BY DEF Reads
<1>2. r.pc = "planning" /\ r.tasks = T
  OBVIOUS
<1> HIDE DEF r
<1>3. /\ RequestOK(r) /\ FitsRequest(r) /\ \A t \in Tasks : ~Places(r, t)
      /\ Sees(r, s \in overtaken)
  BY <1>2 DEF RequestOK, FitsRequest, Places, Sees, Plannable
<1> QED BY <1>1, <1>3, ReadKeeps

LEMMA GenerateCountReadKeeps ==
    ASSUME FloorInv, NEW s \in Sessions, GenerateCountRead(s)
    PROVE  FloorInv'
<1>1. PICK C \in Chosen(Uncounted) :
        Reads(s, [pc |-> "planning", tasks |-> {CountTask(l) : l \in C}])
  BY DEF GenerateCountRead
<1>2. C \subseteq Locations
  BY DEF Chosen, Uncounted
<1> DEFINE T == {CountTask(l) : l \in C}
<1>3. ASSUME NEW l \in Locations PROVE CountTask(l) \in Plannable
  BY DEF CountTask, Plannable, TaskRow, TaskStatus
<1>4. T \subseteq Plannable
  BY <1>2, <1>3
<1>5. Reads(s, [pc |-> "planning", tasks |-> T])
  BY <1>1
<1> HIDE DEF T
<1> QED BY <1>4, <1>5, PlanReadKeeps

LEMMA SuggestionPlannable ==
    ASSUME StockTypes, NEW b \in Batches \cup {NoBatch},
           NEW f \in StocksIn(PickFaces, b), NEW r \in StocksIn(Reserve, b),
           NEW level \in Levels, NEW threshold \in Thresholds,
           Suggestion(f, r, level, threshold).qty > 0
    PROVE  Suggestion(f, r, level, threshold) \in Plannable
<1>1. /\ f \in Rows /\ r \in Rows
      /\ f[1] \in Locations /\ f[2] = b /\ r[1] \in Locations
  BY ReplenishingAssumption DEF ReplenishingAssumption, StocksIn, Rows
<1>2. stock[f] \in Nat /\ stock[r] \in Nat
  BY <1>1 DEF StockTypes
<1>3. /\ level.min \in Int /\ level.max \in Int /\ threshold \in Int
  BY ReplenishingAssumption DEF ReplenishingAssumption
<1>4. Need(f, stock[r], level, threshold) \in Int
  BY <1>2, <1>3 DEF Need, Target
<1> DEFINE n == Lesser(Need(f, stock[r], level, threshold), stock[r])
<1>5. n \in Int
  BY <1>2, <1>4 DEF Lesser
<1>6. Suggestion(f, r, level, threshold) =
        [kind |-> "replenish", status |-> "pending", batch |-> f[2], qty |-> n,
         from |-> r[1], to |-> f[1], code |-> NoLoc]
  BY DEF Suggestion
<1> HIDE DEF n
<1>7. n \in Nat
  BY <1>5, <1>6
<1> QED BY <1>1, <1>6, <1>7 DEF Plannable, TaskRow, TaskStatus

LEMMA GenerateMovesReadKeeps ==
    ASSUME FloorInv, NEW s \in Sessions, GenerateMovesRead(s)
    PROVE  FloorInv'
<1>1. PICK level \in Levels, threshold \in Thresholds :
        \E T \in Tasked(Wanted(level, threshold)) : Reads(s, [pc |-> "planning", tasks |-> T])
  BY DEF GenerateMovesRead
<1>2. PICK T \in Tasked(Wanted(level, threshold)) : Reads(s, [pc |-> "planning", tasks |-> T])
  BY <1>1
<1>3. T \subseteq Wanted(level, threshold)
  BY DEF Tasked
<1>4. ASSUME NEW m \in T PROVE m \in Plannable
  <2>1. m \in Suggestions(level, threshold) /\ m.qty > 0
    BY <1>3 DEF Wanted
  <2>2. PICK b \in Batches \cup {NoBatch} :
          \E f \in StocksIn(PickFaces, b), r \in StocksIn(Reserve, b) :
            m = Suggestion(f, r, level, threshold)
    BY <2>1 DEF Suggestions
  <2>3. PICK f \in StocksIn(PickFaces, b), r \in StocksIn(Reserve, b) :
          m = Suggestion(f, r, level, threshold)
    BY <2>2
  <2> QED BY <2>1, <2>3, SuggestionPlannable DEF FloorInv, StockInv
<1> QED BY <1>2, <1>4, PlanReadKeeps

LEMMA GenerateCommitKeeps ==
    ASSUME FloorInv, NEW s \in Sessions, GenerateCommit(s)
    PROVE  FloorInv'
<1> USE DEF FloorInv
<1>1. PICK new : new = req[s].tasks /\ new \subseteq Plannable
  BY DEF GenerateCommit, RequestsOK, RequestOK, Plannable
<1>2. PICK f \in Numbering(new) :
        task' = [t \in Tasks |->
                   IF \E n \in new : f[n] = t THEN CHOOSE n \in new : f[n] = t ELSE task[t]]
  <2> DEFINE rows == CHOOSE g \in Numbering(new) : TRUE
  <2>1. rows \in Numbering(new)
    BY <1>1 DEF GenerateCommit
  <2>2. task' = [t \in Tasks |->
                   IF \E n \in new : rows[n] = t THEN CHOOSE n \in new : rows[n] = t ELSE task[t]]
    BY <1>1 DEF GenerateCommit
  <2> HIDE DEF rows
  <2> QED BY <2>1, <2>2
<1>3. ASSUME NEW t \in Tasks
      PROVE  /\ task'[t] \in TaskRow
             /\ \/ task'[t] = task[t]
                \/ /\ task[t].kind = "none"
                   /\ task'[t].kind # "none"
                   /\ task'[t].kind # "putaway"
  <2>1. CASE \E n \in new : f[n] = t
    <3>1. task'[t] \in new
      BY <1>2, <2>1
    <3>2. t \in Free
      BY <2>1 DEF Numbering
    <3> QED BY <1>1, <3>1, <3>2 DEF Plannable, Free
  <2>2. CASE ~ \E n \in new : f[n] = t
    BY <1>2, <2>2 DEF TaskInv, TaskTypes
  <2> QED BY <2>1, <2>2
<1>4. Ends(s) /\ UNCHANGED <<stockVars, held, batch, code, occupied, placements, excused>>
  BY DEF GenerateCommit
<1>5. TaskTypes'
  <2>1. task' \in [Tasks -> TaskRow]
    BY <1>2, <1>3
  <2> QED BY <1>4, <2>1 DEF TaskInv, TaskTypes
<1>6. \A o \in Sessions : req'[o] = req[o] \/ req'[o] = Idle
  BY <1>4, OthersWait DEF Ends
<1>7. TaskInv'
  BY <1>3, <1>4, <1>5, <1>6, TasksChange
<1>8. RequestOK(Idle) /\ Sees(Idle, s \in overtaken)
  BY DEF RequestOK, Idle, Sees
<1> QED BY <1>4, <1>7, <1>8, StockUntouched, RequestsFollow DEF Ends

LEMMA CountKeeps ==
    ASSUME FloorInv, NEW s \in Sessions, NEW x \in Rows, NEW t \in Tasks \cup {NoTask},
           Count(s, x, t)
    PROVE  FloorInv'
<1> USE DEF FloorInv
<1> DEFINE r == [pc |-> "counted", row |-> x, qty |-> shelf[x], task |-> t]
<1>1. Becomes(s, r) /\ UNCHANGED taskVars
  BY DEF Count, taskVars
<1>2. /\ overtaken' = overtaken \ {s}
      /\ UNCHANGED <<copies, stock, ledger, shelf, apart, adrift>>
  BY DEF Count
<1>3. t \in Tasks => task[t].kind = "count"
  BY DEF Count
<1>4. shelf[x] \in Nat
  BY DEF StockInv, StockTypes
<1>5. r.pc = "counted" /\ r.row = x /\ r.qty = shelf[x] /\ r.task = t
  OBVIOUS
<1> HIDE DEF r
<1>6. RequestOK(r) /\ FitsRequest(r) /\ \A u \in Tasks : ~Places(r, u)
  BY <1>3, <1>4, <1>5 DEF RequestOK, FitsRequest, Places
<1>7. TaskInv' /\ RequestsOK'
  BY <1>1, <1>6, TasksUntouched, RequestsFollow
<1>8. StockTypes' /\ CacheIsLedger' /\ StockIsOnShelf' /\ NoRowNoStock'
  BY <1>2 DEF StockInv, StockTypes, CacheIsLedger, StockIsOnShelf, NoRowNoStock
<1>9. SeenIsStored'
  <2> SUFFICES ASSUME NEW o \in Sessions PROVE Sees(req[o], o \in overtaken)'
    BY DEF SeenIsStored
  <2>1. CASE o = s
    <3>1. req'[o] = r
      BY <1>1, <2>1, OthersWait
    <3> QED BY <1>2, <1>5, <3>1 DEF Sees
  <2>2. CASE o # s
    <3>1. req'[o] = req[o]
      BY <1>1, <2>2, OthersWait
    <3> QED BY <1>2, <2>2, <3>1 DEF Sees, StockInv, SeenIsStored
  <2> QED BY <2>1, <2>2
<1> QED BY <1>7, <1>8, <1>9 DEF StockInv

LEMMA RecordCountKeeps ==
    ASSUME FloorInv, NEW s \in Sessions, RecordCount(s)
    PROVE  FloorInv'
<1> USE DEF FloorInv
<1> DEFINE x == req[s].row
           t == req[s].task
           n == req[s].qty - Expected(x)
           q == [Posting("count", At(x, n)) EXCEPT !.task = t]
           none == [q EXCEPT !.delta = << >>]
           now == stock
<1>1. /\ req[s].pc = "counted" /\ x \in Rows /\ req[s].qty \in Nat
      /\ t \in Tasks \cup {NoTask}
  BY DEF RecordCount, RequestsOK, RequestOK
<1>2. t \in Tasks => task[t].kind = "count"
  BY <1>1 DEF TaskInv, KindsFit, FitsRequest
<1>3. stock \in [Rows -> Nat]
  BY DEF StockInv, StockTypes
<1>4. n \in Int
  BY <1>1, <1>3 DEF Expected
<1>5. q.kind = "count" /\ q.delta = At(x, n) /\ q.task = t
  BY DEF Posting
<1>6. none.kind = "count" /\ none.delta = << >> /\ none.task = t
  BY DEF Posting
<1>7. \/ Settle(none) /\ Ends(s) /\ UNCHANGED stockVars
      \/ Post(s, q, now)
  BY DEF RecordCount, Stored
<1>8. now \in [Rows -> Nat]
  BY <1>3
<1>9. Current(s, q, now)
  BY DEF Current
<1>12. s \in overtaken \/ now[x] + n = shelf[x]
  <2>1. s \in overtaken \/ req[s].qty = shelf[x]
    BY <1>1 DEF StockInv, SeenIsStored, Sees
  <2> QED BY <1>1, <1>3, <2>1 DEF Expected
<1> HIDE DEF none, q, now, n, t, x
<1>10. CASE Settle(none) /\ Ends(s) /\ UNCHANGED stockVars
  <2>1. DOMAIN none.delta = {} /\ none.delta \in [DOMAIN none.delta -> Int]
    BY <1>6
  <2>2. PostingOK(none) /\ Fits(none)
    BY <1>1, <1>2, <1>6, <2>1 DEF PostingOK, Fits
  <2>3. TaskInv'
    BY <1>6, <1>10, <2>2, SettleKeepsTasks
  <2>4. RequestOK(Idle) /\ Sees(Idle, s \in overtaken)
    BY DEF RequestOK, Idle, Sees
  <2> QED BY <1>10, <2>3, <2>4, StockUntouched, RequestsFollow DEF Ends
<1>11. CASE Post(s, q, now)
  <2>1. DOMAIN At(x, n) = {x} /\ At(x, n) \in [{x} -> Int]
    BY <1>1, <1>4, Deltas
  <2>2. PostingOK(q) /\ Fits(q)
    BY <1>1, <1>2, <1>5, <2>1 DEF PostingOK, Fits
  <2>3. q.delta[x] = n /\ DOMAIN q.delta = {x}
    BY <1>5, <2>1 DEF At
  <2>4. Truthful(s, q, now) /\ OfOneRow(q)
    BY <1>5, <1>12, <2>3 DEF Truthful, OfOneRow
  <2> QED BY <1>5, <1>8, <1>9, <1>11, <2>2, <2>4, PostKeeps
<1> QED BY <1>7, <1>10, <1>11

LEMMA InventoryReadKeeps ==
    ASSUME FloorInv, NEW s \in Sessions, InventoryRead(s)
    PROVE  FloorInv'
<1> USE DEF FloorInv
<1> DEFINE x == req[s].row
           seen == IF copies[x] = 0 THEN -1 ELSE stock[x]
           r == [pc |-> "expected", row |-> x, qty |-> req[s].qty, seen |-> seen]
<1>1. x \in Rows /\ req[s].qty \in Nat
  BY DEF InventoryRead, RequestsOK, RequestOK
<1>2. seen \in Nat \cup {-1} /\ (seen # -1 => copies[x] > 0)
  BY <1>1 DEF StockInv, StockTypes
<1>6. s \in overtaken \/ req[s].qty = shelf[x]
  BY DEF InventoryRead, StockInv, SeenIsStored, Sees
<1>7. seen = IF copies[x] = 0 THEN -1 ELSE stock[x]
  OBVIOUS
<1>3. Becomes(s, r) /\ UNCHANGED tables
  BY DEF InventoryRead, Reads
<1>4. r.pc = "expected" /\ r.row = x /\ r.qty = req[s].qty /\ r.seen = seen
  OBVIOUS
<1> HIDE DEF r, seen, x
<1>5. /\ RequestOK(r) /\ FitsRequest(r) /\ \A t \in Tasks : ~Places(r, t)
      /\ Sees(r, s \in overtaken)
  BY <1>1, <1>2, <1>4, <1>6, <1>7 DEF RequestOK, FitsRequest, Places, Sees
<1> QED BY <1>3, <1>5, ReadKeeps

(* An old copy of the row is posted only by a session that was overtaken.  *)
LEMMA InventoryPostKeeps ==
    ASSUME FloorInv, NEW s \in Sessions, InventoryPost(s)
    PROVE  FloorInv'
<1> USE DEF FloorInv
<1> DEFINE x == req[s].row
           seen == req[s].seen
           n == req[s].qty - Clamp(seen)
           q == Posting("inventory", At(x, n))
           p == Posting("count", At(x, n))
           now == stock
           old == [stock EXCEPT ![x] = seen]
<1>1. /\ req[s].pc = "expected" /\ x \in Rows /\ req[s].qty \in Nat /\ seen \in Nat \cup {-1}
  BY DEF InventoryPost, RequestsOK, RequestOK
<1>2. now \in [Rows -> Nat] /\ copies \in [Rows -> Nat] /\ (copies[x] = 0 => now[x] = 0)
  BY <1>1 DEF StockInv, StockTypes, NoRowNoStock
<1>3. n \in Int
  BY <1>1 DEF Clamp
<1>4. \/ Ends(s) /\ UNCHANGED tables
      \/ seen = -1 /\ Post(s, p, now)
      \/ seen # -1 /\ Post(s, q, old)
  BY DEF InventoryPost, Stored
<1>5. /\ q.task = NoTask /\ q.kind = "inventory" /\ q.delta = At(x, n)
      /\ p.task = NoTask /\ p.kind = "count" /\ p.delta = At(x, n)
  BY DEF Posting
<1>6. /\ seen # -1 => copies[x] > 0
      /\ \/ s \in overtaken
         \/ /\ req[s].qty = shelf[x]
            /\ seen = IF copies[x] = 0 THEN -1 ELSE now[x]
  BY <1>1 DEF StockInv, SeenIsStored, Sees
<1>7. seen # -1 => old \in [Rows -> Nat] /\ old[x] = seen
  BY <1>1, <1>2
<1>12. /\ seen = -1 => n = req[s].qty
       /\ seen # -1 => n = req[s].qty - seen
  BY <1>1 DEF Clamp
<1>13. Current(s, p, now)
  BY DEF Current
<1>14. (\A y \in {x} : old[y] = stock[y] \/ s \in overtaken) => Current(s, q, old)
  BY <1>5 DEF Current, At
<1>15. s \in overtaken \/ seen = -1 \/ seen = stock[x]
  BY <1>6
<1> HIDE DEF old, now, p, q, n, seen, x
<1>8. DOMAIN At(x, n) = {x} /\ At(x, n) \in [{x} -> Int] /\ At(x, n)[x] = n
  BY <1>1, <1>3, Deltas DEF At
<1>9. CASE Ends(s) /\ UNCHANGED tables
  BY <1>9, EndKeeps
<1>10. CASE seen = -1 /\ Post(s, p, now)
  <2>1. PostingOK(p) /\ Fits(p) /\ OfOneRow(p)
    BY <1>1, <1>5, <1>8, StockroomAssumption DEF PostingOK, Fits, OfOneRow, StockroomAssumption
  <2>2. s \in overtaken \/ now[x] + n = shelf[x]
    BY <1>1, <1>2, <1>6, <1>10, <1>12
  <2>3. Truthful(s, p, now)
    BY <1>5, <1>8, <2>2 DEF Truthful
  <2> QED BY <1>2, <1>5, <1>10, <1>13, <2>1, <2>3, PostKeeps
<1>11. CASE seen # -1 /\ Post(s, q, old)
  <2>1. PostingOK(q) /\ Fits(q) /\ OfOneRow(q)
    BY <1>1, <1>5, <1>6, <1>8, <1>11, StockroomAssumption
       DEF PostingOK, Fits, OfOneRow, StockroomAssumption
  <2>2. Current(s, q, old)
    BY <1>7, <1>11, <1>14, <1>15
  <2>3. s \in overtaken \/ old[x] + n = shelf[x]
    BY <1>1, <1>6, <1>7, <1>11, <1>12
  <2>4. Truthful(s, q, old)
    BY <1>5, <1>8, <2>3 DEF Truthful
  <2> QED BY <1>5, <1>7, <1>11, <2>1, <2>2, <2>4, PostKeeps
<1> QED BY <1>4, <1>9, <1>10, <1>11

LEMMA TallyKeeps ==
    ASSUME FloorInv, NEW s \in Sessions, Tally(s)
    PROVE  FloorInv'
<1>1. Nameable \subseteq Rows
  BY DEF Nameable, Known, Rows
<1> QED BY <1>1, GenerateCountReadKeeps, GenerateCommitKeeps, CountKeeps, RecordCountKeeps,
           InventoryReadKeeps, InventoryPostKeeps DEF Tally

LEMMA ExecuteMoveKeeps ==
    ASSUME FloorInv, NEW s \in Sessions, NEW STATE x, x \in Rows, NEW STATE y, y \in Rows,
           NEW STATE n, n \in Int, NEW t \in Tasks \cup {NoTask},
           t \in Tasks => task[t].kind = "replenish",
           ExecuteMove(s, x, y, n, t)
    PROVE  FloorInv'
<1> USE DEF FloorInv
<1> DEFINE q == [Posting("replenish", Move(x, y, n)) EXCEPT !.task = t]
           now == stock
<1>1. Post(s, q, now)
  BY DEF ExecuteMove
<1>2. q.kind = "replenish" /\ q.delta = Move(x, y, n) /\ q.task = t
  BY DEF Posting
<1>3. now \in [Rows -> Nat]
  BY DEF StockInv, StockTypes
<1>4. Current(s, q, now)
  BY DEF Current
<1>7. Truthful(s, q, now) /\ OfOneRow(q)
  BY <1>2 DEF Truthful, OfOneRow
<1> HIDE DEF q, now
<1>5. DOMAIN Move(x, y, n) = {x, y} /\ Move(x, y, n) \in [{x, y} -> Int]
  BY Deltas
<1>6. PostingOK(q) /\ Fits(q)
  BY <1>2, <1>5 DEF PostingOK, Fits
<1> QED BY <1>1, <1>2, <1>3, <1>4, <1>6, <1>7, PostKeeps

LEMMA ReplenishKeeps ==
    ASSUME FloorInv, NEW s \in Sessions, Replenish(s)
    PROVE  FloorInv'
<1>1. ASSUME NEW t \in Tasks, ExecuteTask(s, t) PROVE FloorInv'
  <2> DEFINE x == <<task[t].from, task[t].batch>>
             y == <<task[t].to, task[t].batch>>
             n == task[t].qty
  <2>1. task[t] \in TaskRow /\ task[t].kind = "replenish"
    BY <1>1 DEF ExecuteTask, FloorInv, TaskInv, TaskTypes
  <2>2. ExecuteMove(s, x, y, n, t)
    BY <1>1 DEF ExecuteTask
  <2>3. n \in Int
    BY <2>1 DEF TaskRow
  <2>4. x \in Rows /\ y \in Rows
    BY <2>1 DEF TaskRow, Rows
  <2> HIDE DEF x, y, n
  <2> QED BY <2>1, <2>2, <2>3, <2>4, ExecuteMoveKeeps
<1>2. ASSUME NEW x \in Rows, NEW y \in Rows, NEW n \in Amounts, ExecuteMove(s, x, y, n, NoTask)
      PROVE  FloorInv'
  <2>1. n \in Int /\ NoTask \notin Tasks
    BY StockroomAssumption DEF StockroomAssumption
  <2> QED BY <1>2, <2>1, ExecuteMoveKeeps
<1> QED BY <1>1, <1>2, GenerateMovesReadKeeps DEF Replenish

-----------------------------------------------------------------------------

LEMMA FloorStep == FloorInv /\ [Next]_vars => FloorInv'
<1> SUFFICES ASSUME FloorInv, [Next]_vars PROVE FloorInv'
  OBVIOUS
<1>1. CASE Next
  BY <1>1, OperateKeeps, ReceiveKeeps, TallyKeeps, ReplenishKeeps, ManageKeeps DEF Next
<1>2. CASE UNCHANGED vars
  <2>1. UNCHANGED <<stockVars, req>> /\ UNCHANGED taskVars
    BY <1>2 DEF vars, tables, taskVars
  <2>2. RequestsOK'
    BY <2>1 DEF FloorInv, RequestsOK, RequestOK, PostingOK
  <2>3. TaskTypes'
    BY <2>1 DEF FloorInv, TaskInv, TaskTypes, taskVars
  <2>4. TaskInv'
    BY <2>1, <2>3, TasksChange DEF FloorInv, taskVars
  <2> QED BY <2>1, <2>2, <2>4, StockStays DEF FloorInv
<1> QED BY <1>1, <1>2

LEMMA FloorInvHolds == Spec => []FloorInv
BY FloorStart, FloorStep, PTL DEF Spec

(* Every table and every request in flight has its type. *)
THEOREM FloorTypes == Spec => []TypeOK
<1>1. FloorInv => TypeOK
  BY DEF FloorInv, StockInv, TaskInv, TypeOK
<1> QED BY <1>1, FloorInvHolds, PTL

(* The stock cache equals the sum of the ledger, unless an entry took more *)
(* than the row held or an inventory count was posted on an old copy of    *)
(* the row (_adjust_stock, create_inventory_count).                        *)
THEOREM CacheAgreesWithLedger == Spec => []CacheIsLedger
<1>1. FloorInv => CacheIsLedger
  BY DEF FloorInv, StockInv
<1> QED BY <1>1, FloorInvHolds, PTL

(* The stock tells what stands on the shelf: a count that was not          *)
(* overtaken makes it true whatever was wrong before, and otherwise only   *)
(* overdrawn movements, returns scrapped on arrival and rows inserted      *)
(* twice make it false (record_count, create_inventory_count).             *)
THEOREM StockTellsTheShelf == Spec => []StockIsOnShelf
<1>1. FloorInv => StockIsOnShelf
  BY DEF FloorInv, StockInv
<1> QED BY <1>1, FloorInvHolds, PTL

(* The goods of a putaway task are placed once, unless two confirmations   *)
(* of it overlapped or a manager set its status (putaway_confirm).         *)
THEOREM GoodsArePlacedOnce == Spec => []PlacedOnce
<1>1. FloorInv => PlacedOnce
  BY DEF FloorInv, TaskInv, TasksPlaced, TaskPlaced, PlacedOnce
<1> QED BY <1>1, FloorInvHolds, PTL

(* A putaway task whose status nobody set by hand is open, or its goods    *)
(* were placed: no count and no movement closes it (record_count,          *)
(* execute_move, putaway_confirm).                                         *)
THEOREM NothingReceivedIsLost == Spec => []ReceivedIsPlaced
<1>1. FloorInv => ReceivedIsPlaced
  BY DEF FloorInv, TaskInv, TasksPlaced, TaskPlaced, ReceivedIsPlaced
<1> QED BY <1>1, FloorInvHolds, PTL

-----------------------------------------------------------------------------
(* The batches.                                                            *)
(*                                                                         *)
(* A receipt that found no AVAILABLE batch creates one; as long as it has  *)
(* not, whoever else creates one is its rival, and excused.                *)

Creates(q) == q.pc = "receiving" /\ q.isNew

OneBatch ==
    \A b, c \in Batches \ excused : batch[b] = "available" /\ batch[c] = "available" => b = c

NoneYet ==
    (\E s \in Sessions : Creates(req[s])) => \A b \in Batches \ excused : batch[b] # "available"

BatchInv == OneBatch /\ NoneYet

LEMMA BatchStart == Init => BatchInv
<1> SUFFICES ASSUME Init PROVE BatchInv
  OBVIOUS
<1>1. OneBatch
  BY StockroomAssumption DEF Init, OneBatch, StockroomAssumption
<1>2. \A s \in Sessions : ~Creates(req[s])
  BY DEF Init, NoRequests, Idle, Creates
<1> QED BY <1>1, <1>2 DEF BatchInv, NoneYet

(* No batch becomes available unnoticed, and no request creates one. *)
Quiet ==
    /\ \A b \in Batches : batch'[b] = "available" => batch[b] = "available" \/ b \in excused'
    /\ excused \subseteq excused'
    /\ \A o \in Sessions : Creates(req'[o]) => Creates(req[o])

LEMMA QuietKeepsBatches ==
    ASSUME BatchInv, Quiet
    PROVE  BatchInv'
BY DEF BatchInv, OneBatch, NoneYet, Quiet

LEMMA SettleQuiet ==
    ASSUME FloorInv, NEW s \in Sessions, NEW STATE q, Settle(q), Ends(s)
    PROVE  Quiet
<1>1. batch' = batch \/ \E B : batch' = [b \in Batches |-> IF b \in B THEN "quarantine" ELSE batch[b]]
  BY DEF Settle
<1>2. excused' = excused
  BY DEF Settle
<1>3. \A o \in Sessions : Creates(req'[o]) => Creates(req[o])
  BY OthersWait DEF FloorInv, Ends, Creates, Idle
<1> QED BY <1>1, <1>2, <1>3 DEF Quiet

LEMMA BecomesQuiet ==
    ASSUME FloorInv, NEW s \in Sessions, NEW STATE r, Becomes(s, r), r.pc # "receiving",
           batch' = batch, excused \subseteq excused'
    PROVE  Quiet
<1>1. \A o \in Sessions : Creates(req'[o]) => Creates(req[o])
  BY OthersWait DEF FloorInv, Creates
<1> QED BY <1>1 DEF Quiet

LEMMA EndQuiet ==
    ASSUME FloorInv, NEW s \in Sessions, Ends(s), batch' = batch, excused \subseteq excused'
    PROVE  Quiet
<1>1. Idle.pc # "receiving"
  BY DEF Idle
<1> QED BY <1>1, BecomesQuiet DEF Ends

LEMMA PostQuiet ==
    ASSUME FloorInv, NEW s \in Sessions, NEW STATE q, NEW STATE qty, Post(s, q, qty)
    PROVE  Quiet
<1> DEFINE missing == {x \in DOMAIN q.delta : copies[x] = 0}
           r == [pc |-> "inserting", kind |-> q.kind, delta |-> q.delta,
                 task |-> q.task, hold |-> q.hold, fresh |-> missing]
<1>1. \/ Settle(q) /\ Ends(s)
      \/ Becomes(s, r) /\ UNCHANGED tables
  BY DEF Post
<1>2. r.pc # "receiving"
  OBVIOUS
<1> HIDE DEF r
<1>3. CASE Settle(q) /\ Ends(s)
  BY <1>3, SettleQuiet
<1>4. CASE Becomes(s, r) /\ UNCHANGED tables
  <2>1. batch' = batch /\ excused' = excused
    BY <1>4 DEF tables
  <2> QED BY <1>2, <1>4, <2>1, BecomesQuiet
<1> QED BY <1>1, <1>3, <1>4

LEMMA OperateQuiet ==
    ASSUME FloorInv, NEW s \in Sessions, Operate(s)
    PROVE  Quiet
<1> DEFINE now == stock
<1>1. \/ \E q : Post(s, q, now)
      \/ Insert(s)
      \/ Rollback(s)
  <2> HIDE DEF now
  <2>1. ASSUME NEW x, NEW y, NEW n, CreateMovement(s, x, y, n) PROVE \E q : Post(s, q, now)
    BY <2>1 DEF CreateMovement, Stored, now
  <2>2. ASSUME NEW x, NEW n, CreateWriteoff(s, x, n) PROVE \E q : Post(s, q, now)
    BY <2>2 DEF CreateWriteoff, Stored, now
  <2>3. ASSUME NEW x, NEW n, NEW d, CreateReturn(s, x, n, d) PROVE \E q : Post(s, q, now)
    BY <2>3 DEF CreateReturn, Stored, now
  <2>4. ASSUME NEW l, NEW b, NEW n, NEW d, ProcessRma(s, l, b, n, d) PROVE \E q : Post(s, q, now)
    BY <2>4 DEF ProcessRma, Stored, now
  <2> QED BY <2>1, <2>2, <2>3, <2>4 DEF Operate
<1> HIDE DEF now
<1>2. ASSUME NEW q, Post(s, q, now) PROVE Quiet
  BY <1>2, PostQuiet
<1>3. CASE Insert(s)
  <2> DEFINE q == req[s]
  <2>1. Settle(q) /\ Ends(s)
    BY <1>3 DEF Insert
  <2> HIDE DEF q
  <2> QED BY <2>1, SettleQuiet
<1>4. CASE Rollback(s)
  <2>1. Ends(s) /\ batch' = batch /\ excused' = excused
    BY <1>4 DEF Rollback, tables
  <2> QED BY <2>1, EndQuiet
<1> QED BY <1>1, <1>2, <1>3, <1>4

LEMMA TallyQuiet ==
    ASSUME FloorInv, NEW s \in Sessions, Tally(s)
    PROVE  Quiet
<1>1. CASE GenerateCountRead(s)
  <2>1. PICK T : Becomes(s, [pc |-> "planning", tasks |-> T]) /\ UNCHANGED tables
    BY <1>1 DEF GenerateCountRead, Reads
  <2> DEFINE r == [pc |-> "planning", tasks |-> T]
  <2>2. Becomes(s, r) /\ r.pc # "receiving" /\ batch' = batch /\ excused' = excused
    BY <2>1 DEF tables
  <2> HIDE DEF r
  <2> QED BY <2>2, BecomesQuiet
<1>2. CASE GenerateCommit(s)
  BY <1>2, EndQuiet DEF GenerateCommit
<1>3. ASSUME NEW x \in Nameable, NEW t \in Tasks \cup {NoTask}, Count(s, x, t) PROVE Quiet
  <2> DEFINE r == [pc |-> "counted", row |-> x, qty |-> shelf[x], task |-> t]
  <2>1. Becomes(s, r) /\ r.pc # "receiving" /\ batch' = batch /\ excused' = excused
    BY <1>3 DEF Count
  <2> HIDE DEF r
  <2> QED BY <2>1, BecomesQuiet
<1>4. CASE RecordCount(s)
  <2> DEFINE n == req[s].qty - Expected(req[s].row)
             q == [Posting("count", At(req[s].row, n)) EXCEPT !.task = req[s].task]
             none == [q EXCEPT !.delta = << >>]
             now == stock
  <2>1. (Settle(none) /\ Ends(s)) \/ Post(s, q, now)
    BY <1>4 DEF RecordCount, Stored
  <2> HIDE DEF none, q, now
  <2> QED BY <2>1, SettleQuiet, PostQuiet
<1>5. CASE InventoryRead(s)
  <2> DEFINE x == req[s].row
             r == [pc |-> "expected", row |-> x, qty |-> req[s].qty,
                   seen |-> IF copies[x] = 0 THEN -1 ELSE stock[x]]
  <2>1. Becomes(s, r) /\ r.pc # "receiving" /\ batch' = batch /\ excused' = excused
    BY <1>5 DEF InventoryRead, Reads, tables
  <2> HIDE DEF r
  <2> QED BY <2>1, BecomesQuiet
<1>6. CASE InventoryPost(s)
  <2> DEFINE x == req[s].row
             n == req[s].qty - Clamp(req[s].seen)
             q == Posting("inventory", At(x, n))
             p == Posting("count", At(x, n))
             now == stock
             old == [stock EXCEPT ![x] = req[s].seen]
  <2>1. \/ Ends(s) /\ batch' = batch /\ excused' = excused
        \/ Post(s, p, now)
        \/ Post(s, q, old)
    BY <1>6 DEF InventoryPost, Stored, tables
  <2> HIDE DEF p, q, now, old
  <2> QED BY <2>1, EndQuiet, PostQuiet
<1> QED BY <1>1, <1>2, <1>3, <1>4, <1>5, <1>6 DEF Tally

LEMMA ReplenishQuiet ==
    ASSUME FloorInv, NEW s \in Sessions, Replenish(s)
    PROVE  Quiet
<1> DEFINE now == stock
<1>1. CASE GenerateMovesRead(s)
  <2>1. PICK T : Becomes(s, [pc |-> "planning", tasks |-> T]) /\ UNCHANGED tables
    BY <1>1 DEF GenerateMovesRead, Reads
  <2> DEFINE r == [pc |-> "planning", tasks |-> T]
  <2>2. Becomes(s, r) /\ r.pc # "receiving" /\ batch' = batch /\ excused' = excused
    BY <2>1 DEF tables
  <2> HIDE DEF r
  <2> QED BY <2>2, BecomesQuiet
<1>2. ASSUME NEW x, NEW y, NEW n, NEW t, ExecuteMove(s, x, y, n, t) PROVE Quiet
  <2>1. PICK q : Post(s, q, now)
    BY <1>2 DEF ExecuteMove
  <2> HIDE DEF now
  <2> QED BY <2>1, PostQuiet
<1>3. ASSUME NEW t \in Tasks, ExecuteTask(s, t) PROVE Quiet
  <2>1. PICK x, y, n : ExecuteMove(s, x, y, n, t)
    BY <1>3 DEF ExecuteTask
  <2> QED BY <1>2, <2>1
<1> QED BY <1>1, <1>2, <1>3 DEF Replenish

LEMMA ReceiptReadKeepsBatches ==
    ASSUME FloorInv, BatchInv, NEW s \in Sessions, NEW c \in Codes,
           NEW mapped \in BOOLEAN, NEW dated \in BOOLEAN, ReceiptRead(s, c, mapped, dated)
    PROVE  BatchInv'
<1>1. batch' = batch /\ excused' = excused
  BY DEF ReceiptRead, Reads, tables
<1> DEFINE r == [pc |-> "receiving", code |-> c, mapped |-> mapped,
                 isNew |-> mapped /\ dated /\ Found = {},
                 codeNew |-> ~code[c].known,
                 batch |-> IF mapped /\ dated /\ Found # {} THEN CHOOSE b \in Found : TRUE
                           ELSE NoBatch]
<1>2. Becomes(s, r) /\ (r.isNew => Found = {})
  BY DEF ReceiptRead, Reads
<1> HIDE DEF r
<1>3. \A o \in Sessions : Creates(req'[o]) => Creates(req[o]) \/ Found = {}
  BY <1>2, OthersWait DEF FloorInv, Creates
<1>4. Found = {} => \A b \in Batches : batch[b] # "available"
  BY DEF Found
<1> QED BY <1>1, <1>3, <1>4 DEF BatchInv, OneBatch, NoneYet

(* The first to create the batch makes its rivals' batches excused.        *)
LEMMA ReceiptCommitKeepsBatches ==
    ASSUME FloorInv, BatchInv, NEW s \in Sessions, ReceiptCommit(s)
    PROVE  BatchInv'
<1> DEFINE q == req[s]
           b == IF q.isNew THEN CHOOSE n \in Unused : TRUE ELSE q.batch
           status == IF QuarantineOnReceipt THEN "quarantine"
                     ELSE IF q.isNew THEN "available" ELSE "unchanged"
<1>1. \A o \in Sessions : Creates(req'[o]) => o # s /\ Creates(req[o])
  BY OthersWait DEF FloorInv, ReceiptCommit, Ends, Creates, Idle
<1>2. Receiving(s) /\ (q.isNew => Creates(req[s]))
  BY DEF ReceiptCommit, Creates, Receiving
<1>3. batch' = IF b = NoBatch \/ status = "unchanged" THEN batch
               ELSE [batch EXCEPT ![b] = status]
  BY DEF ReceiptCommit
<1>4. excused' = IF q.isNew /\ Rivals(s) # {} THEN excused \cup {b} ELSE excused
  BY DEF ReceiptCommit
<1>5. \A x \in Batches : \/ batch'[x] = batch[x]
                         \/ batch'[x] = "quarantine"
                         \/ x = b /\ q.isNew
  BY <1>3 DEF FloorInv, TaskInv, TaskTypes
<1>6. Rivals(s) = {} => \A o \in Sessions : o # s => ~Creates(req[o])
  BY DEF Rivals, Creates, Receiving
<1> HIDE DEF q, b, status
<1>7. CASE q.isNew
  <2>1. \A x \in Batches \ excused : batch[x] # "available"
    BY <1>2, <1>7 DEF BatchInv, NoneYet
  <2>2. CASE Rivals(s) = {}
    <3>1. \A o \in Sessions : ~Creates(req'[o])
      BY <1>1, <1>6, <2>2
    <3> QED BY <1>4, <1>5, <2>1, <2>2, <3>1 DEF BatchInv, OneBatch, NoneYet
  <2>3. CASE Rivals(s) # {}
    <3>1. \A x \in Batches \ excused' : batch'[x] # "available"
      BY <1>4, <1>5, <1>7, <2>1, <2>3
    <3> QED BY <3>1 DEF BatchInv, OneBatch, NoneYet
  <2> QED BY <2>2, <2>3
<1>8. CASE ~q.isNew
  <2>1. Quiet
    BY <1>1, <1>4, <1>5, <1>8 DEF Quiet
  <2> QED BY <2>1, QuietKeepsBatches
<1> QED BY <1>7, <1>8

LEMMA BatchStep == FloorInv /\ BatchInv /\ [Next]_vars => BatchInv'
<1> SUFFICES ASSUME FloorInv, BatchInv, [Next]_vars PROVE BatchInv'
  OBVIOUS
<1>1. ASSUME NEW s \in Sessions, Receive(s) PROVE BatchInv'
  <2>1. ASSUME NEW n \in Amounts, TsdScan(s, n) PROVE Quiet
    BY <2>1 DEF TsdScan, Quiet
  <2>2. ASSUME NEW t \in Tasks, NEW l \in Locations, TaskConfirmRead(s, t, l) PROVE Quiet
    <3> DEFINE r == [pc |-> "confirming", task |-> t, loc |-> l]
    <3>1. Becomes(s, r) /\ r.pc # "receiving" /\ batch' = batch /\ excused \subseteq excused'
      BY <2>2 DEF TaskConfirmRead
    <3> HIDE DEF r
    <3> QED BY <3>1, BecomesQuiet
  <2>3. CASE TaskConfirmPost(s)
    <3> DEFINE now == stock
    <3>1. PICK q : Post(s, q, now)
      BY <2>3 DEF TaskConfirmPost, Stored
    <3> HIDE DEF now
    <3> QED BY <3>1, PostQuiet, QuietKeepsBatches
  <2> QED BY <1>1, <2>1, <2>2, <2>3, ReceiptReadKeepsBatches, ReceiptCommitKeepsBatches,
             QuietKeepsBatches DEF Receive
<1>2. CASE Manage
  <2>1. ASSUME NEW b \in Batches, BlockBatch(b) \/ ReleaseBatch(b) PROVE Quiet
    BY <2>1 DEF BlockBatch, ReleaseBatch, Quiet, FloorInv, TaskInv, TaskTypes
  <2>2. ASSUME NEW t \in Tasks, NEW st \in PatchStatuses, UpdateTask(t, st) PROVE Quiet
    BY <2>2 DEF UpdateTask, Quiet
  <2> QED BY <1>2, <2>1, <2>2, QuietKeepsBatches DEF Manage
<1>3. CASE UNCHANGED vars
  BY <1>3 DEF vars, tables, BatchInv, OneBatch, NoneYet
<1> QED BY <1>1, <1>2, <1>3, OperateQuiet, TallyQuiet, ReplenishQuiet, QuietKeepsBatches DEF Next

(* Receipts of a date share one AVAILABLE batch row, so that its lookup    *)
(* does not raise, unless two receipts created it at once or a batch was   *)
(* released (_get_or_create_batch).                                        *)
THEOREM LookupFindsOneBatch == Spec => []OneAvailableBatch
<1>1. BatchInv => OneAvailableBatch
  <2> SUFFICES ASSUME BatchInv
               PROVE  Cardinality({b \in Batches \ excused : batch[b] = "available"}) <= 1
    BY DEF OneAvailableBatch
  <2> DEFINE found == {b \in Batches \ excused : batch[b] = "available"}
  <2>1. CASE found = {}
    <3>1. Cardinality(found) = 0
      BY <2>1, FS_EmptySet
    <3> QED BY <3>1
  <2>2. CASE found # {}
    <3>1. PICK b \in found : TRUE
      BY <2>2
    <3>2. ASSUME NEW c \in found PROVE c = b
      <4>1. {b, c} \subseteq Batches \ excused /\ batch[b] = "available" /\ batch[c] = "available"
        BY <3>1
      <4> QED BY <4>1 DEF BatchInv, OneBatch
    <3>4. found = {b}
      BY <3>1, <3>2
    <3>3. Cardinality(found) = 1
      BY <3>4, FS_Singleton
    <3> QED BY <3>3
  <2> QED BY <2>1, <2>2
<1>2. BatchInv /\ FloorInv /\ [Next]_vars => BatchInv'
  BY BatchStep
<1> QED BY <1>1, <1>2, BatchStart, FloorInvHolds, PTL DEF Spec
=============================================================================
