------------------------------ MODULE Counting ------------------------------
(***************************************************************************)
(* Cycle counts (services/cycle_count.py) and inventory counts             *)
(* (create_inventory_count of endpoints/operations.py).  Operators count   *)
(* what stands on the shelf; the request that posts it comes later.        *)
(***************************************************************************)
EXTENDS Stockroom

CONSTANT CountLimit   \* tasks created by one request

ASSUME CountingAssumption == CountLimit \in Nat \ {0}

OpenOf(kind) == {t \in Tasks : task[t].kind = kind /\ Open(t)}

-----------------------------------------------------------------------------
(* POST /cycle-count/tasks *)

CountTask(l) ==
    [kind |-> "count", status |-> "pending", batch |-> NoBatch, qty |-> 0,
     from |-> l, to |-> l, code |-> NoLoc]

(* Locations with available stock and no open task, up to the limit.       *)
Uncounted ==
    {l \in Locations :
       /\ \E x \in Rows : x[1] = l /\ stock[x] > 0 /\ x \notin held
       /\ \A t \in OpenOf("count") : task[t].from # l}

Chosen(S) == IF Cardinality(S) <= CountLimit THEN {S}
             ELSE {C \in SUBSET S : Cardinality(C) = CountLimit}

GenerateCountRead(s) ==
    /\ Arrives(s)
    /\ \E C \in Chosen(Uncounted) :
         C # {} /\ Reads(s, [pc |-> "planning", tasks |-> {CountTask(l) : l \in C}])

(* The tasks take the next free rows. *)
Free == {t \in Tasks : task[t].kind = "none"}
Numbering(new) ==
    {f \in [new -> Free] : \A m, n \in new : f[m] = f[n] => m = n}

GenerateCommit(s) ==
    LET new == req[s].tasks IN
    /\ req[s].pc = "planning"
    /\ Numbering(new) # {}
    /\ LET f == CHOOSE g \in Numbering(new) : TRUE IN
         task' = [t \in Tasks |->
                    IF \E n \in new : f[n] = t THEN CHOOSE n \in new : f[n] = t ELSE task[t]]
    /\ Ends(s)
    /\ UNCHANGED <<stockVars, held, batch, code, occupied, placements, excused, begun>>

-----------------------------------------------------------------------------
(* Counting, and POST /cycle-count/record *)

Count(s, x, t) ==
    /\ Arrives(s)
    /\ t \in Tasks => task[t].kind = "count" /\ task[t].from = x[1]
    /\ Becomes(s, [pc |-> "counted", row |-> x, qty |-> shelf[x], task |-> t])
    /\ overtaken' = overtaken \ {s}
    /\ UNCHANGED <<copies, stock, ledger, shelf, apart, adrift,
                   held, batch, task, code, occupied, placements, excused>>

(* record_count: the row is read FOR UPDATE, so that expected is what is   *)
(* stored; a task is closed whatever its status.                           *)
ExpectedAvailable(x) == IF x \in held THEN 0 ELSE stock[x]
Expected(x) == stock[x]

RecordCount(s) ==
    LET q == req[s]
        diff == q.qty - Expected(q.row)
        posting == [Posting("count", At(q.row, diff)) EXCEPT !.task = q.task] IN
    /\ q.pc = "counted"
    /\ Readable(q.row) /\ ~Locked(q.row)
    /\ IF diff = 0
         THEN /\ Settle([posting EXCEPT !.delta = << >>])
              /\ Ends(s)
              /\ UNCHANGED stockVars
         ELSE Post(s, posting, Stored)
    /\ UNCHANGED begun

-----------------------------------------------------------------------------
(* POST /operations/inventory/count *)

(* The row is read without a lock; seen is -1 when there is none.          *)
InventoryRead(s) ==
    LET q == req[s] IN
    /\ q.pc = "counted"
    /\ q.task = NoTask
    /\ Readable(q.row)
    /\ Reads(s, [pc |-> "expected", row |-> q.row, qty |-> q.qty,
                 seen |-> IF copies[q.row] = 0 THEN -1 ELSE stock[q.row]])
    /\ UNCHANGED begun

(* _adjust_stock locks the row, but the session keeps the copy it read.    *)
InventoryPost(s) ==
    LET q == req[s]
        x == q.row
        diff == q.qty - Clamp(q.seen) IN
    /\ q.pc = "expected"
    /\ IF diff = 0 THEN Ends(s) /\ UNCHANGED tables
       ELSE IF q.seen = -1 THEN Post(s, Posting("count", At(x, diff)), Stored)
       ELSE Post(s, Posting("inventory", At(x, diff)), [Stored EXCEPT ![x] = q.seen])
    /\ UNCHANGED begun

-----------------------------------------------------------------------------

Tally(s) ==
    \/ GenerateCountRead(s)
    \/ GenerateCommit(s)
    \/ \E x \in Nameable, t \in Tasks \cup {NoTask} : Count(s, x, t)
    \/ RecordCount(s)
    \/ InventoryRead(s)
    \/ InventoryPost(s)
=============================================================================
