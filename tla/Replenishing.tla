---------------------------- MODULE Replenishing ----------------------------
(***************************************************************************)
(* Replenishment of pick faces from the reserve: services/replenishment.py *)
(* and endpoints/replenishment.py.                                         *)
(***************************************************************************)
EXTENDS Stockroom

CONSTANTS
    PickFaces,    \* locations of PICK zones
    Reserve,      \* locations of RESERVE zones
    Levels,       \* values of the product's min_stock (-1: not set) and max_stock
    Thresholds    \* values of the request's threshold

ASSUME ReplenishingAssumption ==
    /\ PickFaces \subseteq Locations
    /\ Reserve \subseteq Locations \ PickFaces
    /\ Levels \subseteq [min : Nat \cup {-1}, max : Nat]
    /\ Thresholds \subseteq Nat

-----------------------------------------------------------------------------
(* compute_replenishments *)

StocksIn(zone, b) == {x \in zone \X {b} : copies[x] = 1 /\ x \notin held}

Target(level) == IF level.max > level.min THEN level.max ELSE level.min

(* What a pick face lacks, when the reserve can give avail.                *)
Need(face, avail, level, threshold) ==
    CASE stock[face] > (IF level.min >= 0 THEN level.min ELSE threshold) -> 0
      [] level.min >= 0 -> Target(level) - stock[face]
      [] OTHER -> avail

(* Per batch, the emptiest pick face and the fullest reserve.              *)
Suggestion(face, source, level, threshold) ==
    [kind |-> "replenish", status |-> "pending", batch |-> face[2],
     qty |-> Lesser(Need(face, stock[source], level, threshold), stock[source]),
     from |-> source[1], to |-> face[1], code |-> NoLoc]

Suggestions(level, threshold) ==
    UNION {LET faces == StocksIn(PickFaces, b)
               sources == StocksIn(Reserve, b) IN
           {Suggestion(f, r, level, threshold) :
              f \in {g \in faces : \A h \in faces : stock[g] <= stock[h]},
              r \in {g \in sources : \A h \in sources : stock[g] >= stock[h]}}
           : b \in Batches \cup {NoBatch}}

(* generate_tasks: none for two cells that an open task joins already,     *)
(* whatever its batch.                                                     *)
SameCells(m, n) == m.from = n.from /\ m.to = n.to
OpenMoves == {task[t] : t \in {u \in Tasks : task[u].kind = "replenish" /\ Open(u)}}

Wanted(level, threshold) ==
    {m \in Suggestions(level, threshold) : m.qty > 0 /\ \A n \in OpenMoves : ~SameCells(m, n)}

(* As many as there can be, one per batch and per pair of cells.           *)
Tasked(S) ==
    {T \in SUBSET S :
       /\ \A m, n \in T : SameCells(m, n) \/ m.batch = n.batch => m = n
       /\ \A m \in S : \E n \in T : SameCells(m, n) \/ m.batch = n.batch}

GenerateMovesRead(s) ==
    /\ Arrives(s)
    /\ \E level \in Levels, threshold \in Thresholds :
         \E T \in Tasked(Wanted(level, threshold)) :
           T # {} /\ Reads(s, [pc |-> "planning", tasks |-> T])

-----------------------------------------------------------------------------
(* POST /replenishment/execute: the source is locked and checked; the task *)
(* is closed whatever its status.  Moving from a cell to itself changes no *)
(* quantity and is left out.                                               *)
Sufficient(x, n) == copies[x] > 0 /\ stock[x] >= n

ExecuteMove(s, x, y, n, t) ==
    /\ Arrives(s)
    /\ x # y /\ x[2] = y[2]
    /\ Sufficient(x, n)
    /\ Post(s, [Posting("replenish", Move(x, y, n)) EXCEPT !.task = t], stock)

(* A task is executed as it says; a request may also come without one.     *)
ExecuteTask(s, t) ==
    LET m == task[t] IN
    /\ m.kind = "replenish"
    /\ ExecuteMove(s, <<m.from, m.batch>>, <<m.to, m.batch>>, m.qty, t)

Replenish(s) ==
    \/ GenerateMovesRead(s)
    \/ \E t \in Tasks : ExecuteTask(s, t)
    \/ \E x, y \in Rows, n \in Amounts : ExecuteMove(s, x, y, n, NoTask)
=============================================================================
