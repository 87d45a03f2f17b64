--------------------------- MODULE PickingProofs ---------------------------
(***************************************************************************)
(* Proofs about Picking and OrderPlans, for any number of overlapping      *)
(* requests, orders, cells, batches and boxes.                             *)
(***************************************************************************)
EXTENDS OrderPlans, SumTheorems

-----------------------------------------------------------------------------
(* Cells, rows and plans *)

Row == {row \in [qty : Nat, booked : Nat, open : BOOLEAN] : row.booked <= row.qty}
Table == [Cells -> Row]

(* A row as a session works on it, before the CHECK constraints see it. *)
Object == [qty : Int, booked : Int, open : BOOLEAN]

LEMMA RowsAreObjects ==
    ASSUME NEW row \in Row
    PROVE  row \in Object /\ Avail(row) \in Nat /\ Valid(row)
BY DEF Row, Object, Avail, Valid

LEMMA ValidRows == ASSUME NEW row \in Object, Valid(row) PROVE row \in Row
<1>1. row.qty \in Int /\ row.booked \in Int /\ row.open \in BOOLEAN
      /\ row = [qty |-> row.qty, booked |-> row.booked, open |-> row.open]
  BY DEF Object
<1>2. row.qty \in Nat /\ row.booked \in Nat
  BY <1>1 DEF Valid
<1> QED BY <1>1, <1>2 DEF Row, Valid

LEMMA FiniteTables ==
    /\ IsFiniteSet(Locations) /\ IsFiniteSet(Batches) /\ IsFiniteSet(Orders)
    /\ IsFiniteSet(Cells)
BY PickingAssumption, FS_Product DEF PickingAssumption, Cells

LEMMA BeforeIsOrder ==
    ASSUME NEW st \in [Cells -> Object]
    PROVE  /\ \A x \in Cells : ~Before(x, x, st)
           /\ \A x, y \in Cells : x # y => Before(x, y, st) \/ Before(y, x, st)
           /\ \A x, y, z \in Cells :
                Before(x, y, st) /\ Before(y, z, st) => Before(x, z, st)
<1>1. /\ \A x \in Cells : Rank[x] \in Nat /\ st[x].open \in BOOLEAN
      /\ \A x, y \in Cells : Rank[x] = Rank[y] => x = y
  BY PickingAssumption DEF PickingAssumption, Object
<1> QED BY <1>1 DEF Before

(* Of finitely many rows one is the last to be taken. *)
LEMMA LastRow ==
    ASSUME NEW st \in [Cells -> Object], NEW T \in SUBSET Cells, T # {}
    PROVE  \E m \in T : \A y \in T \ {m} : Before(y, m, st)
<1> DEFINE G == {U \in SUBSET T : U = {} \/ \E m \in U : \A y \in U \ {m} : Before(y, m, st)}
<1>1. {} \in G
  OBVIOUS
<1>2. ASSUME NEW U \in SUBSET T, U # {}, \A x \in U : U \ {x} \in G
      PROVE  U \in G
  <2>1. PICK x \in U : x \in Cells
    BY <1>2
  <2>2. CASE U \ {x} = {}
    BY <2>1, <2>2
  <2>3. CASE U \ {x} # {}
    <3>1. PICK m \in U \ {x} : \A y \in (U \ {x}) \ {m} : Before(y, m, st)
      BY <1>2, <2>3
    <3>2. CASE Before(x, m, st)
      BY <3>1, <3>2
    <3>3. CASE Before(m, x, st)
      <4>1. \A y \in U \ {x} : Before(y, x, st)
        BY <2>1, <3>1, <3>3, BeforeIsOrder
      <4> QED BY <2>1, <4>1
    <3> QED BY <2>1, <3>1, <3>2, <3>3, BeforeIsOrder
  <2> QED BY <2>2, <2>3
<1>3. IsFiniteSet(T)
  BY FiniteTables, FS_Subset
<1> HIDE DEF G
<1>4. G \in SUBSET SUBSET T
  BY DEF G
<1>5. T \in G
  BY <1>1, <1>2, <1>3, <1>4, GrowingSubsets
<1> QED BY <1>5 DEF G

(* The boxes to be had of each row, and what is had before x comes up. *)
Free(st) == [x \in Cells |-> Avail(st[x])]
Earlier(x, st, ok) == {y \in Pickable(st, ok) : Before(y, x, st)}
TakenEarlier(x, st, ok) == Total(Free(st), Earlier(x, st, ok))

LEMMA FreeBoxes ==
    ASSUME NEW st \in [Cells -> Object], NEW ok
    PROVE  /\ Pickable(st, ok) \in SUBSET Cells /\ IsFiniteSet(Pickable(st, ok))
           /\ \A x \in Cells : Avail(st[x]) \in Int /\ Free(st)[x] = Avail(st[x])
           /\ \A x \in Pickable(st, ok) : Free(st)[x] \in Nat
           /\ \A T \in SUBSET Pickable(st, ok) :
                IsFiniteSet(T) /\ Total(Free(st), T) \in Nat
<1>1. Pickable(st, ok) \in SUBSET Cells /\ IsFiniteSet(Pickable(st, ok))
  BY FiniteTables, FS_Subset DEF Pickable
<1>2. \A x \in Cells : Avail(st[x]) \in Int /\ Free(st)[x] = Avail(st[x])
  BY DEF Object, Avail, Free
<1>3. \A x \in Pickable(st, ok) : Free(st)[x] \in Nat
  BY <1>2 DEF Pickable
<1>4. ASSUME NEW T \in SUBSET Pickable(st, ok)
      PROVE  IsFiniteSet(T) /\ Total(Free(st), T) \in Nat
  <2>1. IsFiniteSet(T) /\ \A x \in T : Free(st)[x] \in Nat
    BY <1>1, <1>3, <1>4, FS_Subset
  <2> QED BY <2>1, TotalNat
<1> QED BY <1>1, <1>2, <1>3, <1>4

(* What one row gives to a line for n boxes. *)
LEMMA TakeOfRow ==
    ASSUME NEW st \in [Cells -> Object], NEW ok, NEW n \in Nat, NEW x \in Cells
    PROVE  /\ Take(x, n, st, ok) \in Nat
           /\ x \notin Pickable(st, ok) => Take(x, n, st, ok) = 0
           /\ x \in Pickable(st, ok) =>
                /\ TakenEarlier(x, st, ok) \in Nat
                /\ Take(x, n, st, ok) =
                     IF n <= TakenEarlier(x, st, ok) THEN 0
                     ELSE IF Avail(st[x]) <= n - TakenEarlier(x, st, ok) THEN Avail(st[x])
                     ELSE n - TakenEarlier(x, st, ok)
<1>1. CASE x \notin Pickable(st, ok)
  BY <1>1 DEF Take
<1>2. CASE x \in Pickable(st, ok)
  <2>1. Earlier(x, st, ok) \in SUBSET Pickable(st, ok)
    BY DEF Earlier
  <2>2. PICK e \in Nat : e = TakenEarlier(x, st, ok)
    BY <2>1, FreeBoxes DEF TakenEarlier
  <2>3. PICK a \in Nat : a = Avail(st[x])
    BY <1>2, FreeBoxes
  <2>4. Take(x, n, st, ok) = Min({a, Max({0, n - e})})
    BY <1>2, <2>2, <2>3 DEF Take, TakenEarlier, Earlier, Free
  <2>5. Max({0, n - e}) = IF 0 >= n - e THEN 0 ELSE n - e
    BY MaxOfTwo
  <2>6. PICK m \in Nat : m = IF 0 >= n - e THEN 0 ELSE n - e
    <3>1. CASE 0 >= n - e
      BY <3>1
    <3>2. CASE ~(0 >= n - e)
      <4>1. n - e \in Nat
        BY <3>2
      <4> QED BY <3>2, <4>1
    <3> QED BY <3>1, <3>2
  <2>7. Take(x, n, st, ok) = IF a <= m THEN a ELSE m
    BY <2>4, <2>5, <2>6, MinOfTwo
  <2>8. a > 0
    BY <1>2, <2>3 DEF Pickable
  <2> QED BY <1>2, <2>2, <2>3, <2>6, <2>7, <2>8
<1> QED BY <1>1, <1>2

Taken(n, st, ok) == [x \in Cells |-> Take(x, n, st, ok)]

(* A line gets the boxes there are, and never more than it asks for. *)
LEMMA TakeAll ==
    ASSUME NEW st \in [Cells -> Object], NEW ok, NEW n \in Nat
    PROVE  LET all == Total(Free(st), Pickable(st, ok)) IN
           Total(Taken(n, st, ok), Cells) = IF n <= all THEN n ELSE all
<1> DEFINE P == Pickable(st, ok)
           f == Free(st)
           t == Taken(n, st, ok)
           Least(a) == IF n <= a THEN n ELSE a
           Closed(T) == \A x \in T : Earlier(x, st, ok) \subseteq T
           G == {T \in SUBSET P : Closed(T) => Total(t, T) = Least(Total(f, T))}
<1>1. /\ P \in SUBSET Cells /\ IsFiniteSet(P)
      /\ \A T \in SUBSET P : IsFiniteSet(T) /\ Total(f, T) \in Nat
      /\ \A x \in P : f[x] \in Nat /\ f[x] = Avail(st[x])
  BY FreeBoxes
<1>2. \A x \in Cells : t[x] = Take(x, n, st, ok) /\ t[x] \in Nat
  BY TakeOfRow DEF Taken
<1>3. {} \in G
  BY TotalEmpty
<1>4. ASSUME NEW T \in SUBSET P, T # {}, \A x \in T : T \ {x} \in G, Closed(T)
      PROVE  Total(t, T) = Least(Total(f, T))
  <2>1. PICK x \in T : \A y \in T \ {x} : Before(y, x, st)
    BY <1>1, <1>4, LastRow
  <2>2. x \in Cells /\ x \in P /\ T \in SUBSET Cells
    BY <1>1, <2>1
  <2>3. Earlier(x, st, ok) = T \ {x}
    BY <1>4, <2>1, <2>2, BeforeIsOrder DEF Earlier
  <2>4. Closed(T \ {x})
    <3> SUFFICES ASSUME NEW y \in T \ {x}, NEW z \in Earlier(y, st, ok), z = x
                 PROVE  FALSE
      BY <1>4
    <3>1. Before(x, y, st) /\ Before(y, x, st) /\ y \in Cells
      BY <2>1, <2>2 DEF Earlier
    <3> QED BY <2>2, <3>1, BeforeIsOrder
  <2>5. Total(t, T \ {x}) = Least(Total(f, T \ {x}))
    BY <1>4, <2>1, <2>4
  <2>6. PICK e \in Nat : e = Total(f, T \ {x}) /\ e = TakenEarlier(x, st, ok)
    BY <1>1, <2>1, <2>3 DEF TakenEarlier
  <2>7. PICK a \in Nat : a = f[x] /\ a = Avail(st[x])
    BY <1>1, <2>2
  <2>8. t[x] = IF n <= e THEN 0 ELSE IF a <= n - e THEN a ELSE n - e
    BY <1>2, <2>2, <2>6, <2>7, TakeOfRow
  <2>9. IsFiniteSet(T) /\ (\A y \in T : f[y] \in Int) /\ (\A y \in T : t[y] \in Int)
    <3>1. \A y \in T : f[y] \in Nat /\ t[y] \in Nat
      BY <1>1, <1>2, <2>2
    <3> QED BY <1>1, <3>1
  <2> HIDE DEF f, t
  <2>10. Total(f, T) = f[x] + Total(f, T \ {x}) /\ Total(t, T) = t[x] + Total(t, T \ {x})
    BY <2>1, <2>9, TotalWithout
  <2>11. Total(f, T) = a + e /\ Total(t, T) = t[x] + Least(e)
    BY <2>5, <2>6, <2>7, <2>10
  <2> QED BY <2>8, <2>11
<1>5. P \in G
  <2>1. \A T \in SUBSET P : T # {} /\ (\A x \in T : T \ {x} \in G) => T \in G
    BY <1>4
  <2>2. G \in SUBSET SUBSET P
    OBVIOUS
  <2> HIDE DEF G, P
  <2> QED BY <1>1, <1>3, <2>1, <2>2, GrowingSubsets
<1>6. Total(t, P) = Least(Total(f, P))
  <2>1. Closed(P)
    BY DEF Earlier
  <2> HIDE DEF P, t, f
  <2> QED BY <1>5, <2>1
<1>7. Total(t, Cells) = Total(t, P)
  <2>1. (\A x \in P : t[x] \in Int) /\ (\A x \in Cells \ P : t[x] = 0)
    <3>1. \A x \in P : t[x] \in Nat
      BY <1>1, <1>2
    <3> QED BY <1>2, <3>1, TakeOfRow
  <2> HIDE DEF P, t, f
  <2> QED BY <1>1, <2>1, FiniteTables, TotalOutside
<1> QED BY <1>6, <1>7

-----------------------------------------------------------------------------
(* What the bookings of a pick task add up to, line by line *)

Routes == [Cells -> Nat]

(* A pick task that has planned. *)
Picks(q) == q.order \in Orders /\ q.seen \in Table /\ q.ok \subseteq Batches

(* Boxes that one line really books. *)
LineTake(acc, plan) == [x \in Cells |-> Min({plan[x], Max({0, Avail(acc.objects[x])})})]

Progress(acc) ==
    /\ acc.objects \in [Cells -> Object]
    /\ acc.route \in Routes /\ acc.items \in Seq(Routes)
    /\ acc.ledger \in [Batches -> Int]

LEMMA BatchSums ==
    ASSUME NEW f, NEW b \in Batches, \A x \in Cells : f[x] \in Int
    PROVE  /\ BatchSum(f, b) \in Int
           /\ (\A x \in Cells : f[x] \in Nat) => BatchSum(f, b) \in Nat
           /\ (\A x \in Cells : f[x] = 0) => BatchSum(f, b) = 0
<1> DEFINE g == [l \in Locations |-> f[<<l, b>>]]
<1>1. \A l \in Locations : g[l] \in Int
  BY DEF Cells
<1>2. \A l \in Locations : <<l, b>> \in Cells /\ g[l] = f[<<l, b>>]
  BY DEF Cells
<1>3. BatchSum(f, b) = Total(g, Locations)
  BY DEF BatchSum
<1> HIDE DEF g
<1> QED BY <1>1, <1>2, <1>3, FiniteTables, TotalInt, TotalNat, TotalZero

LEMMA PlanType ==
    ASSUME NEW q, Picks(q), NEW n \in Nat
    PROVE  /\ q.seen \in [Cells -> Object]
           /\ Plan(n, q) \in Routes
           /\ Plan(n, q) = Taken(n, q.seen, q.ok)
<1>1. q.seen \in [Cells -> Object]
  BY RowsAreObjects DEF Picks, Table
<1> QED BY <1>1, TakeOfRow DEF Plan, Taken, Routes

LEMMA LineTakeType ==
    ASSUME NEW acc, Progress(acc), NEW plan \in Routes, NEW x \in Cells
    PROVE  /\ LineTake(acc, plan)[x] \in Nat /\ Avail(acc.objects[x]) \in Int
           /\ LineTake(acc, plan)[x] =
                IF Avail(acc.objects[x]) <= 0 THEN 0
                ELSE IF plan[x] <= Avail(acc.objects[x]) THEN plan[x]
                ELSE Avail(acc.objects[x])
<1>1. PICK a \in Int : a = Avail(acc.objects[x])
  BY DEF Progress, Object, Avail
<1>2. PICK k \in Nat : k = plan[x]
  BY DEF Routes
<1>3. Max({0, a}) = IF 0 >= a THEN 0 ELSE a
  BY MaxOfTwo
<1>4. CASE a <= 0
  <2>1. Min({k, 0}) = 0
    BY MinOfTwo
  <2> QED BY <1>1, <1>2, <1>3, <1>4, <2>1 DEF LineTake
<1>5. CASE a > 0
  <2>1. Min({k, a}) = IF k <= a THEN k ELSE a
    BY MinOfTwo
  <2> QED BY <1>1, <1>2, <1>3, <1>5, <2>1 DEF LineTake
<1> QED BY <1>4, <1>5

(* One line's bookings: the boxes taken go on the rows and on the route,   *)
(* and off the ledger; only the bench gains boxes.                         *)
LEMMA LineBooked ==
    ASSUME NEW q, Picks(q), NEW acc, Progress(acc), NEW plan \in Routes
    PROVE  LET new == BookLine(acc, plan, q)
               take == LineTake(acc, plan) IN
           /\ Progress(new)
           /\ new.route = [x \in Cells |-> acc.route[x] + take[x]]
           /\ new.items = Append(acc.items, take)
           /\ \A x \in Cells : new.objects[x].booked = acc.objects[x].booked + take[x]
           /\ \A x \in Cells : x[1] # OpenLoc => new.objects[x].qty = acc.objects[x].qty
           /\ OpenLoc \notin Locations =>
                \A b \in Batches : new.ledger[b] = acc.ledger[b] - BatchSum(take, b)
<1> DEFINE new == BookLine(acc, plan, q)
           take == LineTake(acc, plan)
           partial(x) == Partial(x, plan, q)
           booked == [x \in Cells |-> Book(acc.objects[x], take[x], partial(x))]
           left == [x \in Cells |-> Leftover(x, booked[x], partial(x))]
           gain(x) == IF x[1] = OpenLoc THEN BatchSum(left, x[2]) ELSE 0
<1>1. \A x \in Cells : take[x] \in Nat
  BY LineTakeType
<1>2. \A x \in Cells : partial(x) \in BOOLEAN
  <2> SUFFICES ASSUME NEW x \in Cells PROVE partial(x) \in BOOLEAN
    OBVIOUS
  <2>1. q.seen[x].open \in BOOLEAN
    BY DEF Picks, Table, Row
  <2> QED BY <2>1, Zenon DEF Partial
<1>3. \A x \in Cells :
        booked[x] \in Object /\ booked[x].qty = acc.objects[x].qty
        /\ booked[x].booked = acc.objects[x].booked + take[x]
  <2> SUFFICES ASSUME NEW x \in Cells
               PROVE  booked[x] \in Object /\ booked[x].qty = acc.objects[x].qty
                      /\ booked[x].booked = acc.objects[x].booked + take[x]
    OBVIOUS
  <2>1. PICK row \in Object, k \in Nat, p \in BOOLEAN :
          row = acc.objects[x] /\ k = take[x] /\ p = partial(x)
    BY <1>1, <1>2 DEF Progress
  <2>2. booked[x] = Book(row, k, p)
    BY <2>1
  <2>3. Book(row, k, p) \in Object /\ Book(row, k, p).qty = row.qty
        /\ Book(row, k, p).booked = row.booked + k
    <3> DEFINE o == IF Avail(row) - k <= 0 THEN FALSE ELSE p \/ row.open
    <3>1. o \in BOOLEAN
      BY DEF Object
    <3>2. k # 0 => Book(row, k, p) = [row EXCEPT !.booked = row.booked + k, !.open = o]
      BY DEF Book
    <3> HIDE DEF o
    <3>3. CASE k # 0
      <4>1. row = [qty |-> row.qty, booked |-> row.booked, open |-> row.open]
            /\ row.qty \in Int /\ row.booked + k \in Int
        BY DEF Object
      <4>2. Book(row, k, p) = [qty |-> row.qty, booked |-> row.booked + k, open |-> o]
        BY <3>2, <3>3, <4>1
      <4> QED BY <3>1, <4>1, <4>2 DEF Object
    <3>4. CASE k = 0
      BY <3>4 DEF Book, Object
    <3> QED BY <3>3, <3>4
  <2> QED BY <2>1, <2>2, <2>3
<1>4. \A x \in Cells : left[x] \in Nat /\ (OpenLoc \notin Locations => left[x] = 0)
  <2> SUFFICES ASSUME NEW x \in Cells
               PROVE  left[x] \in Nat /\ (OpenLoc \notin Locations => left[x] = 0)
    OBVIOUS
  <2>1. PICK a \in Int : a = Avail(booked[x])
    BY <1>3 DEF Object, Avail
  <2>2. Max({0, a}) \in Nat
    BY MaxOfTwo
  <2>3. left[x] = IF partial(x) /\ OpenLoc \in Locations /\ x[1] # OpenLoc
                    THEN Max({0, a}) ELSE 0
    BY <2>1 DEF Leftover
  <2> QED BY <2>2, <2>3
<1>5. \A b \in Batches : BatchSum(left, b) \in Nat
                         /\ (OpenLoc \notin Locations => BatchSum(left, b) = 0)
  <2> HIDE DEF left
  <2>1. \A x \in Cells : left[x] \in Int
    BY <1>4
  <2>2. \A x \in Cells : left[x] \in Nat
    BY <1>4
  <2>3. OpenLoc \notin Locations => \A x \in Cells : left[x] = 0
    BY <1>4
  <2> QED BY <2>1, <2>2, <2>3, BatchSums
<1>6. \A x \in Cells : gain(x) \in Nat /\ (x[1] # OpenLoc => gain(x) = 0)
  BY <1>5 DEF Cells
<1>7. new = [objects |-> [x \in Cells |->
                            [booked[x] EXCEPT !.qty = booked[x].qty + gain(x),
                                              !.open = booked[x].open \/ partial(x) \/ gain(x) > 0]],
             route |-> [x \in Cells |-> acc.route[x] + take[x]],
             items |-> Append(acc.items, take),
             ledger |-> [b \in Batches |->
                           acc.ledger[b] + BatchSum(left, b)
                             - BatchSum([x \in Cells |-> take[x]], b)]]
  BY DEF BookLine, LineTake, BookTaken
<1>8. new.objects \in [Cells -> Object]
      /\ \A x \in Cells : new.objects[x].booked = acc.objects[x].booked + take[x]
                          /\ (x[1] # OpenLoc => new.objects[x].qty = acc.objects[x].qty)
  <2> DEFINE row(x) == [booked[x] EXCEPT !.qty = booked[x].qty + gain(x),
                                         !.open = booked[x].open \/ partial(x) \/ gain(x) > 0]
  <2>1. ASSUME NEW x \in Cells
        PROVE  row(x) \in Object /\ row(x).booked = acc.objects[x].booked + take[x]
               /\ (x[1] # OpenLoc => row(x).qty = acc.objects[x].qty)
    <3>1. PICK r \in Object, g \in Nat :
            r = booked[x] /\ g = gain(x) /\ (x[1] # OpenLoc => g = 0)
      BY <1>3, <1>6
    <3>2. PICK o \in BOOLEAN : o = (booked[x].open \/ partial(x) \/ gain(x) > 0)
      OBVIOUS
    <3>3. row(x) = [r EXCEPT !.qty = r.qty + g, !.open = o]
      BY <3>1, <3>2
    <3>4. row(x) \in Object /\ row(x).booked = r.booked /\ row(x).qty = r.qty + g
      <4>1. r = [qty |-> r.qty, booked |-> r.booked, open |-> r.open]
            /\ r.qty + g \in Int /\ r.booked \in Int
        BY <3>1 DEF Object
      <4> HIDE DEF row
      <4>2. row(x) = [qty |-> r.qty + g, booked |-> r.booked, open |-> o]
        BY <3>3, <4>1
      <4> QED BY <3>2, <4>1, <4>2 DEF Object
    <3>5. r.qty \in Int /\ r.qty = acc.objects[x].qty
          /\ r.booked = acc.objects[x].booked + take[x]
      BY <1>3, <3>1 DEF Object
    <3> HIDE DEF row, take
    <3> QED BY <3>1, <3>4, <3>5
  <2>2. new.objects = [x \in Cells |-> row(x)]
    <3> HIDE DEF new, booked, left, take, gain, partial
    <3> QED BY <1>7
  <2> HIDE DEF row, new, take
  <2> QED BY <2>1, <2>2
<1>9. new.route \in Routes /\ new.route = [x \in Cells |-> acc.route[x] + take[x]]
  <2>1. \A x \in Cells : acc.route[x] + take[x] \in Nat
    BY <1>1 DEF Progress, Routes
  <2> HIDE DEF new, booked, left, take, gain, partial
  <2> QED BY <1>7, <2>1 DEF Routes
<1>10. \A b \in Batches : BatchSum(take, b) \in Int
  <2> HIDE DEF take
  <2>1. \A x \in Cells : take[x] \in Int
    BY <1>1
  <2> QED BY <2>1, BatchSums
<1>11. new.ledger \in [Batches -> Int]
       /\ (OpenLoc \notin Locations =>
             \A b \in Batches : new.ledger[b] = acc.ledger[b] - BatchSum(take, b))
  <2>1. new.ledger = [b \in Batches |-> acc.ledger[b] + BatchSum(left, b) - BatchSum(take, b)]
    <3>1. [x \in Cells |-> take[x]] = take
      BY DEF LineTake
    <3> HIDE DEF new, booked, left, take, gain, partial
    <3> QED BY <1>7, <3>1
  <2>2. acc.ledger \in [Batches -> Int]
    BY DEF Progress
  <2> HIDE DEF new, take, left
  <2> QED BY <1>5, <1>10, <2>1, <2>2
<1>12. new.items = Append(acc.items, take)
  BY DEF BookLine, LineTake
<1>13. new.items \in Seq(Routes)
  <2>1. take \in Routes
    BY <1>1 DEF LineTake, Routes
  <2> HIDE DEF new, take
  <2> QED BY <1>12, <2>1 DEF Progress
<1> QED BY <1>8, <1>9, <1>11, <1>12, <1>13 DEF Progress

(* What the items of a row add up to. *)
ItemsOf(items, x) == [i \in DOMAIN items |-> items[i][x]]
Itemised(route, items) ==
    \A x \in Cells : route[x] = Total(ItemsOf(items, x), DOMAIN items)

LEMMA ItemTypes ==
    ASSUME NEW items \in Seq(Routes), NEW x \in Cells
    PROVE  /\ DOMAIN items = 1..Len(items) /\ Len(items) \in Nat /\ IsFiniteSet(DOMAIN items)
           /\ \A i \in DOMAIN items : /\ items[i] \in Routes /\ items[i][x] \in Nat
                                     /\ ItemsOf(items, x)[i] = items[i][x]
<1>1. DOMAIN items = 1..Len(items) /\ Len(items) \in Nat
      /\ \A i \in DOMAIN items : items[i] \in Routes
  OBVIOUS
<1>2. IsFiniteSet(DOMAIN items)
  BY <1>1, FS_Interval
<1> QED BY <1>1, <1>2 DEF Routes, ItemsOf

LEMMA ItemAdded ==
    ASSUME NEW items \in Seq(Routes), NEW take \in Routes, NEW route \in Routes, NEW new \in Routes,
           Itemised(route, items), \A x \in Cells : new[x] = route[x] + take[x]
    PROVE  Itemised(new, Append(items, take))
<1> SUFFICES ASSUME NEW x \in Cells
             PROVE  new[x] = Total(ItemsOf(Append(items, take), x), DOMAIN Append(items, take))
  BY DEF Itemised
<1>1. PICK n \in Nat : n = Len(items)
  OBVIOUS
<1>2. PICK all : all = Append(items, take)
  OBVIOUS
<1>3. /\ DOMAIN all = (1..n) \cup {n + 1} /\ n + 1 \notin 1..n /\ all[n + 1] = take
      /\ DOMAIN items = 1..n /\ \A i \in 1..n : all[i] = items[i]
  BY <1>1, <1>2
<1>4. PICK f, g : f = ItemsOf(items, x) /\ g = ItemsOf(all, x)
  OBVIOUS
<1>5. IsFiniteSet(1..n) /\ \A i \in 1..n : f[i] \in Int /\ g[i] = f[i]
  BY <1>3, <1>4, ItemTypes DEF ItemsOf
<1>6. g[n + 1] = take[x] /\ take[x] \in Int
  BY <1>3, <1>4 DEF ItemsOf, Routes
<1>7. Total(g, (1..n) \cup {n + 1}) = take[x] + Total(g, 1..n)
  <2>1. PICK S, m : S = 1..n /\ m = n + 1
    OBVIOUS
  <2>2. IsFiniteSet(S) /\ m \notin S /\ g[m] = take[x]
    BY <1>3, <1>5, <1>6, <2>1
  <2>3. \A i \in S \cup {m} : g[i] \in Int
    BY <1>5, <1>6, <2>1
  <2>4. Total(g, S \cup {m}) = g[m] + Total(g, S)
    BY <2>2, <2>3, TotalWith
  <2> QED BY <2>1, <2>2, <2>4
<1>8. Total(g, 1..n) = Total(f, 1..n)
  BY <1>5, TotalSame
<1>9. route[x] = Total(f, 1..n)
  BY <1>3, <1>4 DEF Itemised
<1>10. route[x] \in Nat /\ new[x] = route[x] + take[x]
  BY DEF Routes
<1> QED BY <1>2, <1>3, <1>4, <1>6, <1>7, <1>8, <1>9, <1>10

(* The bookings before the first line, and after the lines up to i. *)
LinesOf(q) == Len(Lines[q.order])
PlanOf(i, q) == Plan(Lines[q.order][i], q)
AtFirst(q) ==
    [objects |-> Loaded(q), route |-> NoOrder.route, items |-> NoOrder.items, ledger |-> ledger]

LineByLine(acc, q) ==
    /\ DOMAIN acc = 0..LinesOf(q)
    /\ acc[0] = AtFirst(q)
    /\ \A i \in 1..LinesOf(q) : acc[i] = BookLine(acc[i - 1], PlanOf(i, q), q)
    /\ Booked(q) = acc[LinesOf(q)]

LEMMA LineTypes ==
    ASSUME NEW q, Picks(q)
    PROVE  /\ LinesOf(q) \in Nat
           /\ DOMAIN Lines[q.order] = 1..LinesOf(q)
           /\ \A i \in 1..LinesOf(q) : Lines[q.order][i] \in Nat /\ PlanOf(i, q) \in Routes
<1>1. Lines[q.order] \in Seq(Nat)
  BY PickingAssumption DEF PickingAssumption, Picks
<1>2. LinesOf(q) \in Nat /\ DOMAIN Lines[q.order] = 1..LinesOf(q)
      /\ \A i \in 1..LinesOf(q) : Lines[q.order][i] \in Nat
  BY <1>1 DEF LinesOf
<1> QED BY <1>2, PlanType DEF PlanOf

(* The recursion that books line by line is well defined. *)
LEMMA BookedLineByLine ==
    ASSUME NEW q, Picks(q)
    PROVE  \E acc : LineByLine(acc, q)
<1> DEFINE n == LinesOf(q)
           Next1(h, i) == IF i = 0 THEN AtFirst(q) ELSE BookLine(h[i - 1], PlanOf(i, q), q)
           Works(m) == \E h : h = [i \in 0..m |-> Next1(h, i)]
           G == {m \in 0..n : Works(m)}
<1>1. n \in Nat
  BY LineTypes
<1>2. 0 \in G
  <2>1. [i \in 0..0 |-> AtFirst(q)] = [i \in 0..0 |-> Next1([j \in 0..0 |-> AtFirst(q)], i)]
    OBVIOUS
  <2>2. Works(0)
    <3> HIDE DEF Next1
    <3> QED BY <2>1
  <2> HIDE DEF Works, n
  <2> QED BY <1>1, <2>2
<1>3. ASSUME NEW m \in 1..n, m - 1 \in G
      PROVE  m \in G
  <2>1. PICK h : h = [i \in 0..(m - 1) |-> Next1(h, i)]
    BY <1>3
  <2> DEFINE k == [i \in 0..m |-> IF i = m THEN Next1(h, m) ELSE h[i]]
  <2>2. ASSUME NEW i \in 0..m
        PROVE  k[i] = Next1(k, i)
    <3>0. m \in Nat /\ m # 0
      BY <1>1, <1>3
    <3>1. CASE i = m
      <4>1. k[i] = Next1(h, m)
        <5> HIDE DEF Next1
        <5> QED BY <2>2, <3>1
      <4>2. m - 1 \in 0..m /\ m - 1 # m
        BY <3>0
      <4>3. k[m - 1] = h[m - 1]
        <5> HIDE DEF Next1
        <5> QED BY <4>2
      <4> HIDE DEF k
      <4> QED BY <3>1, <4>1, <4>3, <3>0
    <3>2. CASE i # m
      <4>1. i \in 0..(m - 1)
        BY <2>2, <3>0, <3>2
      <4>2. k[i] = h[i] /\ h[i] = Next1(h, i)
        <5>1. k[i] = h[i]
          <6> HIDE DEF Next1
          <6> QED BY <2>2, <3>2
        <5> HIDE DEF k, Next1
        <5> QED BY <2>1, <4>1, <5>1
      <4>3. i # 0 => k[i - 1] = h[i - 1]
        <5>1. i # 0 => i - 1 \in 0..m /\ i - 1 # m
          BY <2>2, <3>0, <4>1
        <5> HIDE DEF Next1
        <5> QED BY <5>1
      <4> HIDE DEF k
      <4> QED BY <4>2, <4>3
    <3> QED BY <3>1, <3>2
  <2>3. k = [i \in 0..m |-> Next1(k, i)]
    <3> HIDE DEF Next1
    <3> QED BY <2>2
  <2>4. Works(m)
    <3> HIDE DEF k, Next1
    <3> QED BY <2>3
  <2> HIDE DEF Works
  <2> QED BY <1>1, <1>3, <2>4
<1>4. Works(n)
  <2> HIDE DEF Works, n
  <2>1. \A i \in 0..n : i \in G
    <3> HIDE DEF G
    <3> QED BY <1>1, <1>2, <1>3, GrowingNumbers
  <2> QED BY <1>1, <2>1
<1> DEFINE acc == CHOOSE h : h = [i \in 0..n |-> Next1(h, i)]
<1>5. acc = [i \in 0..n |-> Next1(acc, i)]
  BY <1>4
<1>6. Booked(q) = acc[n]
  BY DEF Booked, LinesOf, PlanOf, AtFirst
<1> HIDE DEF acc
<1>7. DOMAIN acc = 0..n /\ \A i \in 0..n : acc[i] = Next1(acc, i)
  <2> HIDE DEF Next1
  <2> QED BY <1>5
<1>8. acc[0] = AtFirst(q)
  <2> HIDE DEF n
  <2> QED BY <1>1, <1>7
<1>9. \A i \in 1..n : acc[i] = BookLine(acc[i - 1], PlanOf(i, q), q)
  <2> HIDE DEF n
  <2> QED BY <1>1, <1>7
<1> QED BY <1>6, <1>7, <1>8, <1>9 DEF LineByLine

LEMMA LoadedRows ==
    ASSUME stock \in Table, NEW q, Picks(q)
    PROVE  Loaded(q) \in Table
BY DEF Loaded, Picks, Table

(* What holds of the bookings after the lines up to i. *)
OnTrack(acc, i, q) ==
    /\ Progress(acc)
    /\ \A x \in Cells :
         /\ acc.objects[x].booked = Loaded(q)[x].booked + acc.route[x]
         /\ x[1] # OpenLoc =>
              acc.objects[x].qty = Loaded(q)[x].qty /\ Avail(acc.objects[x]) >= 0
    /\ Boxes(acc.route) <= Total(Lines[q.order], 1..i)
    /\ Itemised(acc.route, acc.items)
    /\ OpenLoc \notin Locations =>
         \A b \in Batches : acc.ledger[b] = ledger[b] - BatchSum(acc.route, b)

LEMMA BoxesType ==
    ASSUME NEW route \in Routes
    PROVE  /\ Boxes(route) \in Nat
           /\ \A b \in Batches : BatchSum(route, b) \in Nat
<1>1. \A x \in Cells : route[x] \in Nat
  BY DEF Routes
<1>2. \A x \in Cells : route[x] \in Int
  BY <1>1
<1> QED BY <1>1, <1>2, FiniteTables, TotalNat, BatchSums DEF Boxes

LEMMA NothingPicked ==
    /\ NoOrder.route \in Routes /\ Boxes(NoOrder.route) = 0
    /\ NoOrder.items \in Seq(Routes) /\ Itemised(NoOrder.route, NoOrder.items)
    /\ \A b \in Batches : BatchSum(NoOrder.route, b) = 0
<1>1. NoOrder.route \in Routes /\ \A x \in Cells : NoOrder.route[x] = 0
  BY DEF NoOrder, Routes
<1>2. \A x \in Cells : NoOrder.route[x] \in Int
  BY <1>1
<1>3. NoOrder.items \in Seq(Routes) /\ DOMAIN NoOrder.items = {}
  BY DEF NoOrder
<1>4. Itemised(NoOrder.route, NoOrder.items)
  BY <1>1, <1>3, TotalEmpty DEF Itemised
<1> QED BY <1>1, <1>2, <1>3, <1>4, FiniteTables, TotalZero, BatchSums DEF Boxes

LEMMA AddRoutes ==
    ASSUME NEW f \in Routes, NEW g \in Routes, NEW h \in Routes,
           \A x \in Cells : h[x] = f[x] + g[x]
    PROVE  /\ Boxes(h) = Boxes(f) + Boxes(g)
           /\ \A b \in Batches : BatchSum(h, b) = BatchSum(f, b) + BatchSum(g, b)
<1>1. \A x \in Cells : f[x] \in Nat /\ g[x] \in Nat /\ h[x] = f[x] + g[x]
  BY DEF Routes
<1>2. \A x \in Cells : f[x] \in Int /\ g[x] \in Int /\ h[x] = f[x] + g[x]
  BY <1>1
<1>3. Boxes(h) = Boxes(f) + Boxes(g)
  BY <1>2, FiniteTables, TotalPlus DEF Boxes
<1>4. ASSUME NEW b \in Batches
      PROVE  BatchSum(h, b) = BatchSum(f, b) + BatchSum(g, b)
  <2> DEFINE On(r) == [l \in Locations |-> r[<<l, b>>]]
  <2>1. \A l \in Locations : On(f)[l] \in Int /\ On(g)[l] \in Int /\ On(h)[l] = On(f)[l] + On(g)[l]
    BY <1>2 DEF Cells
  <2>2. BatchSum(f, b) = Total(On(f), Locations) /\ BatchSum(g, b) = Total(On(g), Locations)
        /\ BatchSum(h, b) = Total(On(h), Locations)
    BY DEF BatchSum
  <2> HIDE DEF On
  <2> QED BY <2>1, <2>2, FiniteTables, TotalPlus
<1> QED BY <1>3, <1>4

LEMMA FewerBoxes ==
    ASSUME NEW f \in Routes, NEW g \in Routes, \A x \in Cells : f[x] <= g[x]
    PROVE  Boxes(f) <= Boxes(g)
<1>1. \A x \in Cells : f[x] \in Nat /\ g[x] \in Nat
  BY DEF Routes
<1>2. \A x \in Cells : f[x] \in Int /\ g[x] \in Int /\ f[x] <= g[x]
  BY <1>1
<1> QED BY <1>2, FiniteTables, TotalLeq DEF Boxes

LEMMA PlanBoxes ==
    ASSUME NEW q, Picks(q), NEW n \in Nat
    PROVE  Boxes(Plan(n, q)) <= n
<1>1. Total(Free(q.seen), Pickable(q.seen, q.ok)) \in Nat
  BY PlanType, FreeBoxes
<1> QED BY <1>1, PlanType, TakeAll DEF Boxes

LEMMA TrackStarts ==
    ASSUME stock \in Table, ledger \in [Batches -> Int], NEW q, Picks(q)
    PROVE  OnTrack(AtFirst(q), 0, q)
<1>1. \A x \in Cells : Loaded(q)[x] \in Row
  BY LoadedRows DEF Table
<1>2. /\ AtFirst(q).objects = Loaded(q) /\ AtFirst(q).route = NoOrder.route
      /\ AtFirst(q).ledger = ledger /\ AtFirst(q).items = NoOrder.items
  BY DEF AtFirst
<1>3. Progress(AtFirst(q))
  <2>1. Loaded(q) = [x \in Cells |-> Loaded(q)[x]]
    BY DEF Loaded
  <2> QED BY <1>1, <1>2, <2>1, RowsAreObjects, NothingPicked DEF Progress
<1>4. \A x \in Cells :
        /\ AtFirst(q).objects[x].booked = Loaded(q)[x].booked + AtFirst(q).route[x]
        /\ Avail(AtFirst(q).objects[x]) >= 0
  <2>1. \A x \in Cells : NoOrder.route[x] = 0
    BY DEF NoOrder
  <2>2. \A x \in Cells : Loaded(q)[x].booked \in Nat /\ Avail(Loaded(q)[x]) \in Nat
    BY <1>1, RowsAreObjects DEF Row
  <2> QED BY <1>2, <2>1, <2>2
<1>5. Boxes(AtFirst(q).route) <= Total(Lines[q.order], 1..0)
  <2>1. 1..0 = {}
    OBVIOUS
  <2> QED BY <1>2, <2>1, NothingPicked, TotalEmpty
<1>6. \A b \in Batches : AtFirst(q).ledger[b] = ledger[b] - BatchSum(AtFirst(q).route, b)
  BY <1>2, NothingPicked
<1>7. Itemised(AtFirst(q).route, AtFirst(q).items)
  BY <1>2, NothingPicked
<1> QED BY <1>2, <1>3, <1>4, <1>5, <1>6, <1>7 DEF OnTrack

LEMMA TrackGoesOn ==
    ASSUME stock \in Table, ledger \in [Batches -> Int], NEW q, Picks(q),
           NEW i \in 1..LinesOf(q), NEW acc, OnTrack(acc, i - 1, q)
    PROVE  OnTrack(BookLine(acc, PlanOf(i, q), q), i, q)
<1>1. PICK plan \in Routes : plan = PlanOf(i, q)
  BY LineTypes
<1>2. PICK new : new = BookLine(acc, plan, q)
  OBVIOUS
<1>3. PICK take : take = LineTake(acc, plan)
  OBVIOUS
<1>4. Progress(acc)
  BY DEF OnTrack
<1>5. /\ Progress(new)
      /\ new.route = [x \in Cells |-> acc.route[x] + take[x]]
      /\ new.items = Append(acc.items, take)
      /\ \A x \in Cells : new.objects[x].booked = acc.objects[x].booked + take[x]
      /\ \A x \in Cells : x[1] # OpenLoc => new.objects[x].qty = acc.objects[x].qty
      /\ OpenLoc \notin Locations =>
           \A b \in Batches : new.ledger[b] = acc.ledger[b] - BatchSum(take, b)
  BY <1>2, <1>3, <1>4, LineBooked
<1>6. \A x \in Cells : /\ take[x] \in Nat /\ Avail(acc.objects[x]) \in Int
                       /\ take[x] = IF Avail(acc.objects[x]) <= 0 THEN 0
                                    ELSE IF plan[x] <= Avail(acc.objects[x]) THEN plan[x]
                                    ELSE Avail(acc.objects[x])
  BY <1>3, <1>4, LineTakeType
<1>7. take \in Routes /\ acc.route \in Routes /\ new.route \in Routes
  <2>1. take = [x \in Cells |-> take[x]]
    BY <1>3 DEF LineTake
  <2> QED BY <1>4, <1>5, <1>6, <2>1 DEF Progress, Routes
<1>8. ASSUME NEW x \in Cells
      PROVE  /\ new.objects[x].booked = Loaded(q)[x].booked + new.route[x]
             /\ x[1] # OpenLoc =>
                  new.objects[x].qty = Loaded(q)[x].qty /\ Avail(new.objects[x]) >= 0
  <2>1. acc.objects[x].qty \in Int /\ acc.objects[x].booked \in Int
    BY <1>4 DEF Progress, Object
  <2>2. /\ acc.objects[x].booked = Loaded(q)[x].booked + acc.route[x]
        /\ x[1] # OpenLoc =>
             acc.objects[x].qty = Loaded(q)[x].qty /\ Avail(acc.objects[x]) >= 0
    BY DEF OnTrack
  <2>3. Loaded(q)[x].booked \in Nat /\ acc.route[x] \in Nat /\ take[x] \in Nat
    BY <1>6, <1>7, LoadedRows DEF Routes, Table, Row
  <2>4. new.objects[x].booked = acc.objects[x].booked + take[x]
        /\ new.route[x] = acc.route[x] + take[x]
    BY <1>5
  <2>5. x[1] # OpenLoc => take[x] <= Avail(acc.objects[x])
    BY <1>6, <2>2
  <2>6. x[1] # OpenLoc => Avail(new.objects[x]) >= 0
    BY <1>5, <2>1, <2>3, <2>4, <2>5 DEF Avail
  <2> QED BY <1>5, <2>2, <2>3, <2>4, <2>6
<1>9. Boxes(new.route) <= Total(Lines[q.order], 1..i)
  <2>1. Boxes(new.route) = Boxes(acc.route) + Boxes(take)
    BY <1>5, <1>7, AddRoutes
  <2>2. Boxes(take) <= Boxes(plan)
    <3>1. \A x \in Cells : take[x] <= plan[x]
      <4>1. \A x \in Cells : plan[x] \in Nat
        BY DEF Routes
      <4> QED BY <1>6, <4>1
    <3> QED BY <1>7, <3>1, FewerBoxes
  <2>3. PICK n \in Nat : n = Lines[q.order][i]
    BY LineTypes
  <2>4. Boxes(plan) <= n
    BY <1>1, <2>3, PlanBoxes DEF PlanOf
  <2>5. Total(Lines[q.order], 1..i) = n + Total(Lines[q.order], 1..(i - 1))
        /\ Total(Lines[q.order], 1..(i - 1)) \in Nat
    <3>1. i \in Nat /\ i - 1 \in Nat /\ 1..i = (1..(i - 1)) \cup {i} /\ i \notin 1..(i - 1)
      BY LineTypes
    <3>2. IsFiniteSet(1..(i - 1))
      BY <3>1, FS_Interval
    <3>3. \A j \in 1..i : Lines[q.order][j] \in Nat
      BY LineTypes
    <3>4. \A j \in (1..(i - 1)) \cup {i} : Lines[q.order][j] \in Int
      BY <3>1, <3>3
    <3>5. \A j \in 1..(i - 1) : Lines[q.order][j] \in Nat
      BY <3>1, <3>3
    <3> QED BY <2>3, <3>1, <3>2, <3>4, <3>5, TotalWith, TotalNat
  <2>6. Boxes(acc.route) <= Total(Lines[q.order], 1..(i - 1))
    BY DEF OnTrack
  <2>7. Boxes(acc.route) \in Nat /\ Boxes(take) \in Nat /\ Boxes(plan) \in Nat
    BY <1>7, BoxesType
  <2> QED BY <2>1, <2>2, <2>4, <2>5, <2>6, <2>7
<1>10. ASSUME OpenLoc \notin Locations, NEW b \in Batches
       PROVE  new.ledger[b] = ledger[b] - BatchSum(new.route, b)
  <2>1. BatchSum(new.route, b) = BatchSum(acc.route, b) + BatchSum(take, b)
    BY <1>5, <1>7, AddRoutes
  <2>2. BatchSum(acc.route, b) \in Nat /\ BatchSum(take, b) \in Nat
    BY <1>7, BoxesType
  <2>3. acc.ledger[b] = ledger[b] - BatchSum(acc.route, b)
    BY <1>10 DEF OnTrack
  <2> QED BY <1>5, <1>10, <2>1, <2>2, <2>3
<1>11. Itemised(new.route, new.items)
  <2>1. acc.items \in Seq(Routes) /\ Itemised(acc.route, acc.items)
    BY DEF OnTrack, Progress
  <2>2. \A x \in Cells : new.route[x] = acc.route[x] + take[x]
    BY <1>5
  <2> QED BY <1>5, <1>7, <2>1, <2>2, ItemAdded
<1> QED BY <1>1, <1>2, <1>5, <1>8, <1>9, <1>10, <1>11 DEF OnTrack

LEMMA LinesOnTrack ==
    ASSUME stock \in Table, ledger \in [Batches -> Int], NEW q, Picks(q),
           NEW acc, LineByLine(acc, q)
    PROVE  \A i \in 0..LinesOf(q) : OnTrack(acc[i], i, q)
<1>2. PICK n \in Nat : n = LinesOf(q)
  BY LineTypes
<1> DEFINE G == {i \in 0..n : OnTrack(acc[i], i, q)}
<1>3. 0 \in G
  BY <1>2, TrackStarts DEF LineByLine
<1>4. ASSUME NEW i \in 1..n, i - 1 \in G
      PROVE  i \in G
  <2>1. acc[i] = BookLine(acc[i - 1], PlanOf(i, q), q)
    BY <1>2 DEF LineByLine
  <2>2. OnTrack(acc[i - 1], i - 1, q)
    BY <1>4
  <2>3. OnTrack(acc[i], i, q)
    BY <1>2, <2>1, <2>2, TrackGoesOn
  <2> QED BY <1>2, <2>3
<1>5. \A i \in 0..n : i \in G
  <2> HIDE DEF G
  <2> QED BY <1>3, <1>4, GrowingNumbers
<1> QED BY <1>2, <1>5

(* All lines booked. *)
LEMMA BookedOnTrack ==
    ASSUME stock \in Table, ledger \in [Batches -> Int], NEW q, Picks(q)
    PROVE  OnTrack(Booked(q), LinesOf(q), q)
<1>1. PICK acc : LineByLine(acc, q)
  BY BookedLineByLine
<1>2. LinesOf(q) \in 0..LinesOf(q)
  BY LineTypes
<1> QED BY <1>1, <1>2, LinesOnTrack DEF LineByLine

-----------------------------------------------------------------------------
(* The inductive invariant: what requests hold is typed, a document is     *)
(* picked by one request at most and has no route before, and              *)
(* NeverOverfilled itself.                                                 *)

Statuses == {"none", "in_progress", "completed", "cancelled"}
Order ==
    {d \in [status : Statuses, route : Routes, items : Seq(Routes)] : Itemised(d.route, d.items)}
Ships(q) == q.pc \in {"shipping", "deducting"}

Proper(q) ==
    /\ q.pc = "picking" => Picks(q)
    /\ Ships(q) => q.order \in Orders /\ \A x \in Cells \cap DOMAIN q.mine : q.mine[x] \in Row
    /\ q.pc = "deducting" /\ ShippedRow(q.item.row) \in Cells => q.seen \in Row
    /\ q.pc = "releasing" => q.docs \subseteq Orders /\ q.rows \subseteq Cells

Types ==
    /\ stock \in Table
    /\ available \subseteq Batches
    /\ orders \in [Orders -> Order]
    /\ ledger \in [Batches -> Int]
    /\ DOMAIN req = Sessions
    /\ \A s \in Sessions : Proper(req[s])

(* What a shipment has left to do is on the route of its document. *)
OnRoute(q, d) ==
    /\ d.status # "none"
    /\ q.left \subseteq [line : DOMAIN d.items, row : Cells]
    /\ q.pc = "deducting" => q.item \in q.left

PickedOnce ==
    /\ \A o \in Orders : orders[o].status = "none" => orders[o].route = NoOrder.route
    /\ \A s, t \in Sessions : \A o \in Orders :
         /\ req[s].pc = "picking" /\ req[s].order = o =>
              /\ orders[o].status = "none"
              /\ req[t].pc = "picking" /\ req[t].order = o => s = t
         /\ Ships(req[s]) /\ req[s].order = o => OnRoute(req[s], orders[o])
         /\ req[s].pc = "releasing" /\ o \in req[s].docs => orders[o].status # "none"

PickInv == Types /\ PickedOnce /\ NeverOverfilled

LEMMA IdleIsProper == Proper(Idle)
BY DEF Proper, Idle, Ships

LEMMA OrderTypes ==
    ASSUME Types, NEW o \in Orders
    PROVE  /\ orders[o] = [status |-> orders[o].status, route |-> orders[o].route,
                            items |-> orders[o].items]
           /\ orders[o].status \in Statuses /\ orders[o].route \in Routes
           /\ orders[o].items \in Seq(Routes) /\ Itemised(orders[o].route, orders[o].items)
BY DEF Types, Order

LEMMA PickStart == Init => PickInv
<1> SUFFICES ASSUME Init PROVE PickInv
  OBVIOUS
<1>1. Types
  <2>1. stock \in Table
    <3>1. \A x \in Cells : InitialQty[x] \in Nat
      BY PickingAssumption DEF PickingAssumption
    <3> QED BY <3>1 DEF Init, Table, Row
  <2>2. orders \in [Orders -> Order]
    <3>1. NoOrder \in Order
      BY NothingPicked DEF NoOrder, Order, Statuses
    <3> QED BY <3>1 DEF Init
  <2>3. ledger \in [Batches -> Int]
    <3>1. \A x \in Cells : InitialQty[x] \in Int
      BY PickingAssumption DEF PickingAssumption
    <3> QED BY <3>1, BatchSums DEF Init
  <2> QED BY <2>1, <2>2, <2>3, IdleIsProper DEF Init, Types
<1>2. PickedOnce
  BY DEF Init, PickedOnce, Idle, Ships
<1>3. NeverOverfilled
  <2> SUFFICES ASSUME NEW o \in Orders PROVE Boxes(NoOrder.route) <= OrderedBoxes(o)
    BY DEF Init, NeverOverfilled
  <2>1. PICK asked \in Seq(Nat) : asked = Lines[o]
    BY PickingAssumption DEF PickingAssumption
  <2>2. OrderedBoxes(o) \in Nat
    <3>1. /\ DOMAIN asked = 1..Len(asked) /\ Len(asked) \in Nat
          /\ \A i \in DOMAIN asked : asked[i] \in Nat
      OBVIOUS
    <3>2. IsFiniteSet(DOMAIN asked)
      BY <3>1, FS_Interval
    <3> QED BY <2>1, <3>1, <3>2, TotalNat DEF OrderedBoxes
  <2> QED BY <2>2, NothingPicked
<1> QED BY <1>1, <1>2, <1>3 DEF PickInv

(* The row a booking leaves behind: of the quantity only the bench's can   *)
(* differ, and what was booked of a row nobody changed is on the route.    *)
LEMMA BookedRows ==
    ASSUME stock \in Table, ledger \in [Batches -> Int], NEW q, Picks(q), NEW x \in Cells
    PROVE  /\ BookedStock(q)[x] \in Object
           /\ x[1] # OpenLoc => BookedStock(q)[x].qty = stock[x].qty
           /\ Loaded(q)[x].booked = stock[x].booked =>
                BookedStock(q)[x].booked = stock[x].booked + Booked(q).route[x]
<1>1. PICK acc : acc = Booked(q) /\ OnTrack(acc, LinesOf(q), q)
  BY BookedOnTrack
<1>2. PICK row \in Row : row = stock[x]
  BY DEF Table
<1>3. PICK loaded \in Row : loaded = Loaded(q)[x]
  BY LoadedRows DEF Table
<1>4. PICK object \in Object : object = acc.objects[x]
  BY <1>1 DEF OnTrack, Progress
<1>5. /\ object.booked = loaded.booked + acc.route[x] /\ acc.route[x] \in Nat
      /\ x[1] # OpenLoc => object.qty = loaded.qty
  BY <1>1, <1>3, <1>4 DEF OnTrack, Progress, Routes
<1>6. BookedStock(q)[x] = Merge(loaded, object, row)
  BY <1>1, <1>2, <1>3, <1>4 DEF BookedStock
<1>7. Merge(loaded, object, row) \in Object
  BY DEF Merge, Object, Row
<1>8. /\ Merge(loaded, object, row).qty = IF object.qty = loaded.qty THEN row.qty ELSE object.qty
      /\ Merge(loaded, object, row).booked =
           IF object.booked = loaded.booked THEN row.booked ELSE object.booked
  BY DEF Merge
<1>9. loaded.booked \in Nat /\ row.booked \in Nat
  BY DEF Row
<1> QED BY <1>1, <1>2, <1>3, <1>5, <1>6, <1>7, <1>8, <1>9

BookedDocument(q) ==
    [status |-> "in_progress", route |-> Booked(q).route, items |-> Booked(q).items]

LEMMA BookResult ==
    ASSUME Types, NEW s \in Sessions, BookOrder(s)
    PROVE  \E q : /\ q = req[s] /\ q.pc = "picking" /\ Picks(q)
                  /\ OnTrack(Booked(q), LinesOf(q), q)
                  /\ stock' = BookedStock(q) /\ stock' \in Table
                  /\ ledger' = Booked(q).ledger /\ ledger' \in [Batches -> Int]
                  /\ Booked(q).route \in Routes /\ BookedDocument(q) \in Order
                  /\ orders' = [orders EXCEPT ![q.order] =
                                  [status |-> "in_progress", route |-> Booked(q).route,
                                   items |-> Booked(q).items]]
                  /\ req' = [req EXCEPT ![s] = Idle]
                  /\ available' = available
<1>1. PICK q : q = req[s] /\ q.pc = "picking" /\ Picks(q)
  BY DEF BookOrder, Types, Proper
<1>2. OnTrack(Booked(q), LinesOf(q), q)
  BY <1>1, BookedOnTrack DEF Types
<1>3. stock' = BookedStock(q) /\ \A x \in Cells : Valid(BookedStock(q)[x])
  BY <1>1 DEF BookOrder
<1>4. stock' \in Table
  <2>1. \A x \in Cells : BookedStock(q)[x] \in Row
    BY <1>1, <1>3, BookedRows, ValidRows DEF Types
  <2>2. BookedStock(q) = [x \in Cells |-> BookedStock(q)[x]]
    BY DEF BookedStock
  <2> QED BY <1>3, <2>1, <2>2 DEF Table
<1>5. ledger' = Booked(q).ledger
  BY <1>1 DEF BookOrder
<1>6. Booked(q).route \in Routes /\ Booked(q).ledger \in [Batches -> Int]
  BY <1>2 DEF OnTrack, Progress
<1>8. BookedDocument(q) \in Order
  BY <1>2 DEF OnTrack, Progress, BookedDocument, Order, Statuses
<1>7. orders' = [orders EXCEPT ![q.order] =
                   [status |-> "in_progress", route |-> Booked(q).route,
                    items |-> Booked(q).items]]
  <2>1. q.order \in Orders
    BY <1>1 DEF Picks
  <2>2. orders[q.order] = [status |-> orders[q.order].status, route |-> orders[q.order].route,
                           items |-> orders[q.order].items]
    BY <2>1, OrderTypes
  <2>3. orders' = [orders EXCEPT ![q.order].status = "in_progress",
                                 ![q.order].route = Booked(q).route,
                                 ![q.order].items = Booked(q).items]
    BY <1>1 DEF BookOrder
  <2>4. DOMAIN orders = Orders
    BY DEF Types
  <2> DEFINE new == [status |-> "in_progress", route |-> Booked(q).route,
                     items |-> Booked(q).items]
  <2>5. orders'[q.order] = new
    <3>1. PICK old, route, items :
            /\ old = orders[q.order] /\ route = Booked(q).route /\ items = Booked(q).items
            /\ DOMAIN old = {"status", "route", "items"}
      BY <2>2
    <3>2. orders'[q.order] = [old EXCEPT !.status = "in_progress", !.route = route,
                                         !.items = items]
      BY <2>1, <2>3, <2>4, <3>1
    <3> QED BY <2>2, <3>1, <3>2
  <2>6. \A o \in Orders \ {q.order} : orders'[o] = orders[o]
    BY <2>3, <2>4
  <2>7. orders' = [o \in Orders |-> orders'[o]]
    BY <2>3, <2>4
  <2>8. [orders EXCEPT ![q.order] = new] = [o \in Orders |-> orders'[o]]
    <3> HIDE DEF new
    <3> QED BY <2>4, <2>5, <2>6
  <2> QED BY <2>7, <2>8
<1> QED BY <1>1, <1>2, <1>3, <1>4, <1>5, <1>6, <1>7, <1>8 DEF BookOrder, End

(* What a booking puts on a route is within the order's lines. *)
LEMMA BookedFits ==
    ASSUME NEW q, Picks(q), OnTrack(Booked(q), LinesOf(q), q)
    PROVE  Boxes(Booked(q).route) <= OrderedBoxes(q.order)
BY LineTypes DEF OnTrack, OrderedBoxes

LEMMA BookKeeps ==
    ASSUME PickInv, NEW s \in Sessions, BookOrder(s)
    PROVE  PickInv'
<1>1. PICK q : /\ q = req[s] /\ q.pc = "picking" /\ Picks(q)
               /\ OnTrack(Booked(q), LinesOf(q), q)
               /\ stock' \in Table /\ ledger' \in [Batches -> Int]
               /\ Booked(q).route \in Routes /\ BookedDocument(q) \in Order
               /\ orders' = [orders EXCEPT ![q.order] = BookedDocument(q)]
               /\ req' = [req EXCEPT ![s] = Idle]
               /\ available' = available
  BY BookResult DEF PickInv, BookedDocument
<1>2. PICK route \in Routes : route = Booked(q).route
  BY <1>1
<1>3. q.order \in Orders
  BY <1>1 DEF Picks
<1>4. /\ \A o \in Orders \ {q.order} : orders'[o] = orders[o]
      /\ orders'[q.order].status = "in_progress" /\ orders'[q.order].route = route
      /\ \A t \in Sessions \ {s} : req'[t] = req[t]
      /\ req'[s] = Idle
  BY <1>1, <1>2, <1>3 DEF PickInv, Types, BookedDocument
<1>5. Types'
  <2>1. orders' \in [Orders -> Order]
    BY <1>1 DEF PickInv, Types
  <2>2. DOMAIN req' = Sessions /\ \A t \in Sessions : Proper(req'[t])
    BY <1>1, <1>4, IdleIsProper DEF PickInv, Types
  <2> QED BY <1>1, <2>1, <2>2 DEF PickInv, Types
<1>6. PickedOnce'
  BY <1>1, <1>3, <1>4 DEF PickInv, PickedOnce, OnRoute, Idle, Ships
<1>7. NeverOverfilled'
  <2>1. \A o \in Orders : Boxes(orders'[o].route) <= OrderedBoxes(o)
    BY <1>1, <1>2, <1>3, <1>4, BookedFits DEF PickInv, NeverOverfilled
  <2> QED BY <2>1 DEF NeverOverfilled
<1> QED BY <1>5, <1>6, <1>7 DEF PickInv

(* A step of one request that writes nothing yet. *)
LEMMA RequestKeeps ==
    ASSUME PickInv, NEW s \in Sessions, NEW v, Proper(v),
           req' = [req EXCEPT ![s] = v], UNCHANGED <<stock, available, orders, ledger>>,
           \A o \in Orders :
             /\ v.pc = "picking" /\ v.order = o =>
                  orders[o].status = "none"
                  /\ \A t \in Sessions \ {s} : ~(req[t].pc = "picking" /\ req[t].order = o)
             /\ Ships(v) /\ v.order = o => OnRoute(v, orders[o])
             /\ v.pc = "releasing" /\ o \in v.docs => orders[o].status # "none"
    PROVE  PickInv'
<1>1. req'[s] = v /\ (\A t \in Sessions \ {s} : req'[t] = req[t]) /\ DOMAIN req' = Sessions
  BY DEF PickInv, Types
<1>2. Types'
  BY <1>1 DEF PickInv, Types
<1>3. PickedOnce'
  BY <1>1 DEF PickInv, PickedOnce
<1>4. NeverOverfilled'
  BY DEF PickInv, NeverOverfilled
<1> QED BY <1>2, <1>3, <1>4 DEF PickInv

LEMMA PlanKeeps ==
    ASSUME PickInv, NEW s \in Sessions, NEW o \in Orders, PlanOrder(s, o)
    PROVE  PickInv'
<1>1. PICK v : v = [pc |-> "picking", order |-> o, seen |-> stock, ok |-> available]
  OBVIOUS
<1>2. /\ v.pc = "picking" /\ v.order = o /\ v.seen = stock /\ v.ok = available
      /\ req' = [req EXCEPT ![s] = v] /\ UNCHANGED <<stock, available, orders, ledger>>
      /\ orders[o].status = "none"
      /\ \A t \in Sessions : req[t].pc = "picking" => req[t].order # o
  BY <1>1 DEF PlanOrder
<1>3. Proper(v)
  BY <1>2 DEF Proper, Picks, Ships, PickInv, Types
<1>4. \A p \in Orders :
        /\ v.pc = "picking" /\ v.order = p =>
             orders[p].status = "none"
             /\ \A t \in Sessions \ {s} : ~(req[t].pc = "picking" /\ req[t].order = p)
        /\ ~Ships(v) /\ v.pc # "releasing"
  BY <1>2 DEF Ships
<1> QED BY <1>2, <1>3, <1>4, RequestKeeps

LEMMA ShipOrderKeeps ==
    ASSUME PickInv, NEW s \in Sessions, NEW o \in Orders, ShipOrder(s, o)
    PROVE  PickInv'
<1>1. PICK v : v = [pc |-> "shipping", order |-> o, left |-> Items(orders[o]),
                    mine |-> [x \in {} |-> stock[x]]]
  OBVIOUS
<1>2. /\ v.pc = "shipping" /\ v.order = o /\ DOMAIN v.mine = {} /\ v.left = Items(orders[o])
      /\ req' = [req EXCEPT ![s] = v] /\ UNCHANGED <<stock, available, orders, ledger>>
      /\ orders[o].status = "in_progress"
  BY <1>1 DEF ShipOrder
<1>3. Proper(v)
  BY <1>2 DEF Proper, Ships
<1>4. OnRoute(v, orders[o])
  BY <1>2 DEF OnRoute, Items
<1> QED BY <1>2, <1>3, <1>4, RequestKeeps

(* What reading an item leaves of the request. *)
ItemRead(v, q, item) ==
    /\ v.pc = "deducting" /\ v.order = q.order /\ v.left = q.left /\ v.mine = q.mine
    /\ v.item = item /\ v.seen = View(q, ShippedRow(item.row))

LEMMA ShipReadResult ==
    ASSUME PickInv, NEW s \in Sessions, ShipRead(s)
    PROVE  /\ req[s].pc = "shipping" /\ Proper(req[s])
           /\ UNCHANGED <<stock, available, orders, ledger>>
           /\ \E item \in req[s].left : \E v :
                ItemRead(v, req[s], item) /\ req' = [req EXCEPT ![s] = v]
<1>1. PICK q : q = req[s] /\ q.pc = "shipping" /\ Proper(q)
  BY DEF ShipRead, PickInv, Types
<1>2. PICK item \in Following(orders[q.order], q.left) :
        req' = [req EXCEPT ![s] =
                  [pc |-> "deducting", order |-> q.order, left |-> q.left, mine |-> q.mine,
                   item |-> item, seen |-> View(q, ShippedRow(item.row))]]
  BY <1>1 DEF ShipRead
<1>3. PICK row : row = View(q, ShippedRow(item.row))
  OBVIOUS
<1>4. PICK v : v = [pc |-> "deducting", order |-> q.order, left |-> q.left,
                    mine |-> q.mine, item |-> item, seen |-> row]
  OBVIOUS
<1>5. ItemRead(v, q, item) /\ req' = [req EXCEPT ![s] = v]
  BY <1>2, <1>3, <1>4 DEF ItemRead
<1>6. item \in q.left
  BY DEF Following
<1> QED BY <1>1, <1>5, <1>6 DEF ShipRead

LEMMA ShipReadKeeps ==
    ASSUME PickInv, NEW s \in Sessions, ShipRead(s)
    PROVE  PickInv'
<1>1. PICK q : q = req[s] /\ q.pc = "shipping" /\ Proper(q)
  BY ShipReadResult
<1>2. PICK item, v : /\ item \in q.left /\ ItemRead(v, q, item)
                     /\ req' = [req EXCEPT ![s] = v]
  BY <1>1, ShipReadResult
<1>3. UNCHANGED <<stock, available, orders, ledger>>
  BY ShipReadResult
<1>4. /\ v.pc = "deducting" /\ v.order = q.order /\ v.left = q.left /\ v.mine = q.mine
      /\ v.item = item /\ v.seen = View(q, ShippedRow(item.row))
  BY <1>2 DEF ItemRead
<1>5. ShippedRow(item.row) \in Cells => View(q, ShippedRow(item.row)) \in Row
  BY <1>1 DEF View, Proper, Ships, PickInv, Types, Table
<1>6. Proper(v)
  BY <1>1, <1>4, <1>5 DEF Proper, Ships
<1>7. q.order \in Orders /\ OnRoute(q, orders[q.order])
  BY <1>1 DEF Proper, Ships, PickInv, PickedOnce
<1>8. OnRoute(v, orders[q.order])
  BY <1>2, <1>4, <1>7 DEF OnRoute
<1> QED BY <1>2, <1>3, <1>4, <1>6, <1>7, <1>8, RequestKeeps

(* The item at hand. *)
LEMMA ItemAtHand ==
    ASSUME PickInv, NEW s \in Sessions, req[s].pc = "deducting"
    PROVE  LET q == req[s]
               d == orders[q.order] IN
           /\ q.order \in Orders /\ OnRoute(q, d) /\ q.item \in q.left
           /\ q.item.line \in DOMAIN d.items /\ q.item.row \in Cells
           /\ d.items[q.item.line][q.item.row] \in Nat
<1>1. PICK q : q = req[s] /\ q.pc = "deducting" /\ Proper(q)
  BY DEF PickInv, Types
<1>2. PICK o \in Orders : o = q.order
  BY <1>1 DEF Proper, Ships
<1>3. OnRoute(q, orders[o])
  BY <1>1, <1>2 DEF Ships, PickInv, PickedOnce
<1>4. q.item \in q.left /\ q.item \in [line : DOMAIN orders[o].items, row : Cells]
  BY <1>1, <1>3 DEF OnRoute
<1>5. q.item.line \in DOMAIN orders[o].items /\ q.item.row \in Cells
  BY <1>4
<1>6. orders[o].items[q.item.line][q.item.row] \in Nat
  <2>1. orders[o].items \in Seq(Routes)
    BY OrderTypes DEF PickInv
  <2> QED BY <1>5, <2>1, ItemTypes
<1> QED BY <1>1, <1>2, <1>3, <1>4, <1>5, <1>6

(* The row a shipment writes obeys the CHECK constraints. *)
LEMMA ShippedRows ==
    ASSUME PickInv, NEW s \in Sessions, req[s].pc = "deducting", ~Refused(s),
           ShippedRow(req[s].item.row) \in Cells
    PROVE  RowsWritten(req[s], View(req[s], ShippedRow(req[s].item.row)))[2] \in Row
<1>1. PICK q : q = req[s] /\ Proper(q) /\ q.pc = "deducting"
  BY DEF PickInv, Types
<1>2. PICK seen \in Row : seen = q.seen
  BY <1>1 DEF Proper
<1>3. PICK view \in Row : view = View(q, ShippedRow(q.item.row))
  BY <1>1 DEF View, Proper, Ships, PickInv, Types, Table
<1>4. PICK k \in Nat : k = orders[q.order].items[q.item.line][q.item.row]
  BY <1>1, ItemAtHand
<1>5. PICK first \in Object : first = Deduct(seen, k)
  <2>1. Max({0, seen.qty - k}) \in Int /\ Max({0, seen.booked - k}) \in Int
    BY MaxOfTwo DEF Row
  <2>2. [seen EXCEPT !.qty = Max({0, seen.qty - k}), !.booked = Max({0, seen.booked - k})]
          \in Object
    BY <2>1 DEF Row, Object
  <2> QED BY <2>2 DEF Deduct
<1>6. PICK second \in Object : second = Adjust(first, -k)
  <2>1. Max({0, first.qty + -k}) \in Int
    BY MaxOfTwo DEF Object
  <2>2. [first EXCEPT !.qty = Max({0, first.qty + -k})] \in Object
    BY <2>1 DEF Object
  <2> QED BY <2>2 DEF Adjust
<1>7. Merge(seen, second, view) \in Object
  BY DEF Merge, Object, Row
<1>8. RowsWritten(q, view)[2] = Merge(seen, second, view)
  BY <1>2, <1>4, <1>5, <1>6 DEF RowsWritten
<1>9. Valid(RowsWritten(q, view)[2])
  BY <1>1, <1>3 DEF Refused
<1> QED BY <1>1, <1>3, <1>7, <1>8, <1>9, ValidRows

(* The row it writes, and the request afterwards. *)
RowShipped(q) == RowsWritten(q, View(q, ShippedRow(q.item.row)))[2]

DeductedBy(v, q, row) ==
    /\ v.pc = "shipping" /\ v.order = q.order /\ v.left = q.left \ {q.item}
    /\ v.mine = [y \in DOMAIN q.mine \cup {ShippedRow(q.item.row)} |->
                   IF y = ShippedRow(q.item.row) THEN row ELSE q.mine[y]]

LEMMA ShipWriteResult ==
    ASSUME PickInv, NEW s \in Sessions, ShipWrite(s)
    PROVE  /\ req[s].pc = "deducting" /\ Proper(req[s])
           /\ UNCHANGED <<stock, available, orders, ledger>>
           /\ \E v : DeductedBy(v, req[s], RowShipped(req[s])) /\ req' = [req EXCEPT ![s] = v]
<1>1. PICK q : q = req[s] /\ q.pc = "deducting" /\ Proper(q)
  BY DEF ShipWrite, PickInv, Types
<1>2. PICK x, row : x = ShippedRow(q.item.row) /\ row = RowsWritten(q, View(q, x))[2]
  OBVIOUS
<1>3. PICK v : v = [pc |-> "shipping", order |-> q.order, left |-> q.left \ {q.item},
                    mine |-> [y \in DOMAIN q.mine \cup {x} |->
                                IF y = x THEN row ELSE q.mine[y]]]
  OBVIOUS
<1>4. DeductedBy(v, q, RowShipped(q))
  BY <1>2, <1>3 DEF DeductedBy, RowShipped
<1>5. req' = [req EXCEPT ![s] = v] /\ UNCHANGED <<stock, available, orders, ledger>>
  BY <1>1, <1>2, <1>3 DEF ShipWrite
<1> QED BY <1>1, <1>4, <1>5

LEMMA ShipWriteKeeps ==
    ASSUME PickInv, NEW s \in Sessions, ShipWrite(s)
    PROVE  PickInv'
<1>1. PICK q : q = req[s] /\ q.pc = "deducting" /\ Proper(q)
  BY ShipWriteResult
<1>2. PICK row : row = RowShipped(q)
  OBVIOUS
<1>3. PICK v : DeductedBy(v, q, row) /\ req' = [req EXCEPT ![s] = v]
  BY <1>1, <1>2, ShipWriteResult
<1>4. ShippedRow(q.item.row) \in Cells => row \in Row
  BY <1>1, <1>2, ShippedRows DEF ShipWrite, RowShipped
<1>5. Proper(v)
  BY <1>1, <1>3, <1>4 DEF Proper, Ships, DeductedBy
<1>6. OnRoute(q, orders[q.order])
  BY <1>1, ItemAtHand
<1>7. \A o \in Orders : v.order = o => OnRoute(v, orders[o])
  BY <1>3, <1>6 DEF DeductedBy, OnRoute
<1>8. v.pc = "shipping"
  BY <1>3 DEF DeductedBy
<1> QED BY <1>3, <1>5, <1>7, <1>8, RequestKeeps, ShipWriteResult

(* The documents of a step that gives no document a route. *)
LEMMA DocumentsKeep ==
    ASSUME PickInv, NEW s \in Sessions, req' = [req EXCEPT ![s] = Idle],
           stock' \in Table, ledger' \in [Batches -> Int], available' = available,
           DOMAIN orders' = Orders,
           \A o \in Orders : /\ orders'[o] \in Order /\ orders'[o].route = orders[o].route
                             /\ orders'[o].items = orders[o].items
                             /\ orders'[o].status # orders[o].status =>
                                  orders[o].status # "none" /\ orders'[o].status # "none",
           orders' = [o \in Orders |-> orders'[o]]
    PROVE  PickInv'
<1>1. req'[s] = Idle /\ (\A t \in Sessions \ {s} : req'[t] = req[t]) /\ DOMAIN req' = Sessions
  BY DEF PickInv, Types
<1>2. Types'
  BY <1>1, IdleIsProper DEF PickInv, Types
<1>3. PickedOnce'
  BY <1>1 DEF PickInv, PickedOnce, OnRoute, Idle, Ships
<1>4. NeverOverfilled'
  BY DEF PickInv, NeverOverfilled
<1> QED BY <1>2, <1>3, <1>4 DEF PickInv

LEMMA ShipCommitResult ==
    ASSUME PickInv, NEW s \in Sessions, ShipCommit(s)
    PROVE  \E q : \E o \in Orders :
             /\ q = req[s] /\ q.pc = "shipping" /\ q.left = {} /\ q.order = o /\ Proper(q)
             /\ orders[o].status # "none"
             /\ DOMAIN orders' = Orders /\ orders' = [p \in Orders |-> orders'[p]]
             /\ orders'[o] = [status |-> "completed", route |-> orders[o].route,
                              items |-> orders[o].items]
             /\ \A p \in Orders \ {o} : orders'[p] = orders[p]
             /\ stock' = [x \in Cells |-> View(q, x)]
             /\ req' = [req EXCEPT ![s] = Idle]
             /\ available' = available /\ ledger' \in [Batches -> Int]
<1>1. PICK q : q = req[s] /\ q.pc = "shipping" /\ Proper(q)
  BY DEF ShipCommit, PickInv, Types
<1>2. PICK o \in Orders : o = q.order
  BY <1>1 DEF Proper, Ships
<1>4. ledger' \in [Batches -> Int]
  <2>1. Boxes(orders[o].route) \in Nat
    BY OrderTypes, BoxesType DEF PickInv
  <2>2. ledger' = [b \in Batches |-> IF b = NoBatch THEN ledger[b] - Boxes(orders[o].route)
                                     ELSE ledger[b]]
    BY <1>1, <1>2 DEF ShipCommit
  <2> QED BY <2>1, <2>2 DEF PickInv, Types
<1>5. /\ orders' = [orders EXCEPT ![o] = Complete(orders[o])]
      /\ req' = [req EXCEPT ![s] = Idle] /\ available' = available
  BY <1>1, <1>2 DEF ShipCommit, End
<1>6. Complete(orders[o]) = [status |-> "completed", route |-> orders[o].route,
                             items |-> orders[o].items]
  <2>1. PICK a, r, i : orders[o] = [status |-> a, route |-> r, items |-> i]
    BY OrderTypes DEF PickInv
  <2> QED BY <2>1 DEF Complete
<1>7. orders[o].status # "none"
  BY <1>1, <1>2 DEF Ships, PickInv, PickedOnce, OnRoute
<1>8. /\ DOMAIN orders' = Orders /\ orders' = [p \in Orders |-> orders'[p]]
      /\ orders'[o] = [status |-> "completed", route |-> orders[o].route,
                       items |-> orders[o].items]
      /\ \A p \in Orders \ {o} : orders'[p] = orders[p]
  BY <1>5, <1>6 DEF PickInv, Types
<1>9. q.left = {} /\ stock' = [x \in Cells |-> View(q, x)]
  BY <1>1 DEF ShipCommit
<1>10. /\ q = req[s] /\ q.pc = "shipping" /\ q.left = {} /\ q.order = o /\ Proper(q)
       /\ orders[o].status # "none"
  BY <1>1, <1>2, <1>7, <1>9
<1> WITNESS q
<1> WITNESS o \in Orders
<1> QED BY <1>4, <1>5, <1>8, <1>9, <1>10

LEMMA ShipCommitKeeps ==
    ASSUME PickInv, NEW s \in Sessions, ShipCommit(s)
    PROVE  PickInv'
<1>1. PICK q : \E o \in Orders :
        /\ q = req[s] /\ q.pc = "shipping" /\ Proper(q)
        /\ orders[o].status # "none"
        /\ DOMAIN orders' = Orders /\ orders' = [p \in Orders |-> orders'[p]]
        /\ orders'[o] = [status |-> "completed", route |-> orders[o].route,
                         items |-> orders[o].items]
        /\ \A p \in Orders \ {o} : orders'[p] = orders[p]
        /\ stock' = [x \in Cells |-> View(q, x)]
        /\ req' = [req EXCEPT ![s] = Idle]
        /\ available' = available /\ ledger' \in [Batches -> Int]
  BY ShipCommitResult, ZenonT(40)
<1>2. PICK o \in Orders :
        /\ orders[o].status # "none"
        /\ orders'[o] = [status |-> "completed", route |-> orders[o].route,
                         items |-> orders[o].items]
        /\ \A p \in Orders \ {o} : orders'[p] = orders[p]
  BY <1>1
<1>3. stock' \in Table
  <2>1. \A x \in Cells : View(q, x) \in Row
    BY <1>1 DEF View, Proper, Ships, PickInv, Types, Table
  <2> QED BY <1>1, <2>1 DEF Table
<1>4. \A p \in Orders : /\ orders'[p] \in Order /\ orders'[p].route = orders[p].route
                        /\ orders'[p].items = orders[p].items
                        /\ orders'[p].status # orders[p].status =>
                             orders[p].status # "none" /\ orders'[p].status # "none"
  <2>1. orders'[o] \in Order
    <3>1. /\ orders[o].route \in Routes /\ orders[o].items \in Seq(Routes)
          /\ Itemised(orders[o].route, orders[o].items)
      BY OrderTypes DEF PickInv
    <3> QED BY <1>2, <3>1 DEF Order, Statuses
  <2> QED BY <1>2, <2>1 DEF PickInv, Types
<1> QED BY <1>1, <1>3, <1>4, DocumentsKeep

LEMMA ReleaseReadKeeps ==
    ASSUME PickInv, NEW s \in Sessions, ReleaseRead(s)
    PROVE  PickInv'
<1>1. PICK v : v = [pc |-> "releasing", docs |-> Open,
                    rows |-> {x \in Cells : stock[x].booked > 0}]
  OBVIOUS
<1>2. /\ v.pc = "releasing" /\ v.docs = Open /\ v.rows = {x \in Cells : stock[x].booked > 0}
      /\ req' = [req EXCEPT ![s] = v] /\ UNCHANGED <<stock, available, orders, ledger>>
  BY <1>1 DEF ReleaseRead
<1>3. Proper(v)
  BY <1>2 DEF Proper, Ships, Open
<1> QED BY <1>2, <1>3, RequestKeeps DEF Ships, Open

LEMMA ReleaseResult ==
    ASSUME PickInv, NEW s \in Sessions, ReleaseCommit(s)
    PROVE  \E q :
             /\ q = req[s] /\ q.pc = "releasing" /\ Proper(q)
             /\ stock' \in Table
             /\ stock' = [x \in Cells |-> IF x \in q.rows THEN [stock[x] EXCEPT !.booked = 0]
                                          ELSE stock[x]]
             /\ DOMAIN orders' = Orders /\ orders' = [o \in Orders |-> orders'[o]]
             /\ \A o \in Orders :
                  /\ orders'[o] \in Order /\ orders'[o].route = orders[o].route
                  /\ orders'[o].items = orders[o].items
                  /\ orders'[o].status = IF o \in q.docs THEN "cancelled" ELSE orders[o].status
                  /\ o \in q.docs => orders[o].status # "none"
             /\ req' = [req EXCEPT ![s] = Idle] /\ available' = available /\ ledger' = ledger
<1>1. PICK q : q = req[s] /\ q.pc = "releasing" /\ Proper(q)
  BY DEF ReleaseCommit, PickInv, Types
<1>2. stock' \in Table
  <2>1. \A x \in Cells : [stock[x] EXCEPT !.booked = 0] \in Row
    <3> SUFFICES ASSUME NEW x \in Cells PROVE [stock[x] EXCEPT !.booked = 0] \in Row
      OBVIOUS
    <3>1. PICK row \in Row : row = stock[x]
      BY DEF PickInv, Types, Table
    <3>2. [row EXCEPT !.booked = 0] \in Row
      BY DEF Row
    <3> QED BY <3>1, <3>2
  <2>2. stock' = [x \in Cells |-> IF x \in q.rows THEN [stock[x] EXCEPT !.booked = 0] ELSE stock[x]]
    BY <1>1 DEF ReleaseCommit
  <2> QED BY <2>1, <2>2 DEF PickInv, Types, Table
<1>3. /\ orders' = [o \in Orders |-> IF o \in q.docs THEN [orders[o] EXCEPT !.status = "cancelled"]
                                     ELSE orders[o]]
      /\ req' = [req EXCEPT ![s] = Idle] /\ available' = available /\ ledger' = ledger
  BY <1>1 DEF ReleaseCommit, End
<1>4. \A o \in Orders :
        /\ orders'[o] \in Order /\ orders'[o].route = orders[o].route
        /\ orders'[o].items = orders[o].items
        /\ orders'[o].status = IF o \in q.docs THEN "cancelled" ELSE orders[o].status
        /\ o \in q.docs => orders[o].status # "none"
  <2> SUFFICES ASSUME NEW o \in Orders
               PROVE  /\ orders'[o] \in Order /\ orders'[o].route = orders[o].route
                      /\ orders'[o].items = orders[o].items
                      /\ orders'[o].status =
                           IF o \in q.docs THEN "cancelled" ELSE orders[o].status
                      /\ o \in q.docs => orders[o].status # "none"
    OBVIOUS
  <2>1. PICK a \in Statuses, r \in Routes, i \in Seq(Routes) :
          orders[o] = [status |-> a, route |-> r, items |-> i] /\ Itemised(r, i)
    BY OrderTypes DEF PickInv
  <2>2. CASE o \in q.docs
    <3>1. orders[o].status # "none"
      BY <1>1, <2>2 DEF PickInv, PickedOnce
    <3>2. orders'[o] = [status |-> "cancelled", route |-> r, items |-> i]
      BY <1>3, <2>1, <2>2
    <3>3. orders'[o].status = "cancelled" /\ orders'[o].route = r /\ orders[o].route = r
          /\ orders'[o].items = i /\ orders[o].items = i
      BY <2>1, <3>2
    <3>4. orders'[o] \in Order
      BY <2>1, <3>2 DEF Order, Statuses
    <3> QED BY <2>2, <3>1, <3>3, <3>4
  <2>4. orders[o] \in Order
    BY DEF PickInv, Types
  <2>3. CASE o \notin q.docs
    BY <1>3, <2>3, <2>4
  <2> QED BY <2>2, <2>3
<1>5. DOMAIN orders' = Orders /\ orders' = [o \in Orders |-> orders'[o]]
  BY <1>3
<1>6. stock' = [x \in Cells |-> IF x \in q.rows THEN [stock[x] EXCEPT !.booked = 0] ELSE stock[x]]
  BY <1>1 DEF ReleaseCommit
<1> QED BY <1>1, <1>2, <1>3, <1>4, <1>5, <1>6

LEMMA ReleaseCommitKeeps ==
    ASSUME PickInv, NEW s \in Sessions, ReleaseCommit(s)
    PROVE  PickInv'
<1>1. PICK q :
        /\ stock' \in Table
        /\ DOMAIN orders' = Orders /\ orders' = [o \in Orders |-> orders'[o]]
        /\ \A o \in Orders :
             /\ orders'[o] \in Order /\ orders'[o].route = orders[o].route
             /\ orders'[o].items = orders[o].items
             /\ orders'[o].status = IF o \in q.docs THEN "cancelled" ELSE orders[o].status
             /\ o \in q.docs => orders[o].status # "none"
        /\ req' = [req EXCEPT ![s] = Idle] /\ available' = available /\ ledger' = ledger
  BY ReleaseResult
<1> QED BY <1>1, DocumentsKeep DEF PickInv, Types

(* The two rows of a movement. *)
LEMMA MovedRows ==
    ASSUME stock \in Table, NEW x \in Cells, NEW y \in Cells, NEW n \in Nat, Move(x, y, n)
    PROVE  /\ stock' \in Table /\ x # y
           /\ \A z \in Cells \ {x, y} : stock'[z] = stock[z]
           /\ stock'[x].qty = IF n <= stock[x].qty THEN stock[x].qty - n ELSE 0
           /\ stock'[y].qty = stock[y].qty + n
           /\ stock'[x].booked = stock[x].booked /\ stock'[y].booked = stock[y].booked
<1>1. PICK r \in Row, t \in Row : r = stock[x] /\ t = stock[y]
  BY DEF Table
<1>2. r.qty \in Nat /\ t.qty \in Nat /\ t.booked \in Nat /\ t.booked <= t.qty
  BY DEF Row
<1>3. PICK m \in Int : m = -n /\ m <= 0
  OBVIOUS
<1>4. Max({0, r.qty + m}) = IF n <= r.qty THEN r.qty - n ELSE 0
  BY <1>2, <1>3, MaxOfTwo
<1>5. Max({0, t.qty + n}) = t.qty + n
  BY <1>2, MaxOfTwo
<1>6. PICK a \in Int : a = Max({0, r.qty + m})
  BY <1>2, <1>4
<1>7. Adjust(r, m) = [r EXCEPT !.qty = a]
  BY <1>6 DEF Adjust
<1>8. PICK src \in Object : src = Adjust(r, m) /\ src.qty = a /\ src.booked = r.booked
  <2>1. [r EXCEPT !.qty = a] \in Object
    BY DEF Row, Object
  <2> QED BY <1>7, <2>1 DEF Row
<1>9. PICK dst \in Row : dst = Adjust(t, n) /\ dst.qty = t.qty + n /\ dst.booked = t.booked
  <2>1. Adjust(t, n) = [t EXCEPT !.qty = t.qty + n]
    BY <1>5 DEF Adjust
  <2>2. [t EXCEPT !.qty = t.qty + n] \in Row
    BY <1>2 DEF Row
  <2> QED BY <2>1, <2>2 DEF Row
<1>10. src \in Row /\ x # y
  BY <1>1, <1>3, <1>8, ValidRows DEF Move
<1>11. stock' = [stock EXCEPT ![x] = src, ![y] = dst]
  BY <1>1, <1>3, <1>8, <1>9, <1>10 DEF Move, Table
<1>12. stock'[x] = src /\ stock'[y] = dst /\ \A z \in Cells \ {x, y} : stock'[z] = stock[z]
  BY <1>10, <1>11 DEF Table
<1>13. stock' \in Table
  BY <1>10, <1>11 DEF Table
<1> QED BY <1>1, <1>4, <1>6, <1>8, <1>9, <1>10, <1>12, <1>13

LEMMA MoveKeeps ==
    ASSUME PickInv, NEW x \in Cells, NEW y \in Cells, NEW n \in Nat, Move(x, y, n)
    PROVE  PickInv'
<1>1. stock' \in Table /\ UNCHANGED <<available, orders, ledger, req>>
  BY MovedRows DEF PickInv, Types, Move
<1> QED BY <1>1 DEF PickInv, Types, PickedOnce, NeverOverfilled

LEMMA Moves ==
    ASSUME MoveGoods
    PROVE  \E b \in Batches, from, to \in Locations, n \in MoveQtys :
             /\ n \in Nat /\ <<from, b>> \in Cells /\ <<to, b>> \in Cells
             /\ Move(<<from, b>>, <<to, b>>, n)
             /\ "move" \in Handlers \/ Avail(stock[<<from, b>>]) >= n
             /\ "move" \in Handlers \/ "replenish" \in Handlers
<1>1. PICK b \in Batches, from \in Locations, to \in Locations, n \in MoveQtys :
        CreateMovement(b, from, to, n) \/ ExecuteMove(b, from, to, n)
  BY DEF MoveGoods
<1>2. n \in Nat /\ <<from, b>> \in Cells /\ <<to, b>> \in Cells
  BY PickingAssumption DEF PickingAssumption, Cells
<1> QED BY <1>1, <1>2 DEF CreateMovement, ExecuteMove, Sufficient

LEMMA BatchKeeps ==
    ASSUME PickInv, NEW b \in Batches, BlockBatch(b) \/ ReleaseBatch(b)
    PROVE  PickInv'
BY DEF BlockBatch, ReleaseBatch, PickInv, Types, PickedOnce, NeverOverfilled

LEMMA RollbackKeeps ==
    ASSUME PickInv, NEW s \in Sessions, Rollback(s)
    PROVE  PickInv'
BY IdleIsProper, RequestKeeps DEF Rollback, End, Idle, Ships

LEMMA PickStep == PickInv /\ [Next]_vars => PickInv'
<1> SUFFICES ASSUME PickInv, [Next]_vars PROVE PickInv'
  OBVIOUS
<1>1. CASE UNCHANGED vars
  BY <1>1 DEF vars, PickInv, Types, PickedOnce, NeverOverfilled
<1>2. CASE \E s \in Sessions : Pick(s)
  BY <1>2, PlanKeeps, BookKeeps DEF Pick
<1>3. CASE \E s \in Sessions : Ship(s)
  BY <1>3, ShipOrderKeeps, ShipReadKeeps, ShipWriteKeeps, ShipCommitKeeps DEF Ship
<1>4. CASE \E s \in Sessions : Release(s)
  BY <1>4, ReleaseReadKeeps, ReleaseCommitKeeps DEF Release
<1>5. CASE \E s \in Sessions : Rollback(s)
  BY <1>5, RollbackKeeps
<1>6. CASE MoveGoods
  BY <1>6, Moves, MoveKeeps
<1>7. CASE \E b \in Batches : BlockBatch(b) \/ ReleaseBatch(b)
  BY <1>7, BatchKeeps
<1> QED BY <1>1, <1>2, <1>3, <1>4, <1>5, <1>6, <1>7 DEF Next

LEMMA PickInvHolds == Spec => []PickInv
BY PickStart, PickStep, PTL DEF Spec

(* No order is given more boxes than its lines ask for, however picks,     *)
(* shipments, movements and releases overlap (execute_pick_plan clamps     *)
(* what it books to what is left, and never above the plan).               *)
THEOREM NoOrderOverfilled == Spec => []NeverOverfilled
BY PickInvHolds, PTL DEF PickInv

-----------------------------------------------------------------------------
(* First expired, first out *)

(* Only a booking gives a document a route. *)
LEMMA RoutesKept ==
    ASSUME PickInv, Next, NEW o \in Orders,
           \A s \in Sessions : BookOrder(s) => req[s].order # o
    PROVE  orders'[o].route = orders[o].route
<1>1. CASE \E s \in Sessions : BookOrder(s)
  <2>1. PICK s \in Sessions : BookOrder(s)
    BY <1>1
  <2>2. PICK q : /\ q = req[s]
                 /\ orders' = [orders EXCEPT ![q.order] =
                                 [status |-> "in_progress", route |-> Booked(q).route,
                                  items |-> Booked(q).items]]
    BY <2>1, BookResult DEF PickInv
  <2> QED BY <2>1, <2>2 DEF PickInv, Types
<1>2. CASE \E s \in Sessions : ShipCommit(s)
  <2>1. PICK s \in Sessions : ShipCommit(s)
    BY <1>2
  <2>2. PICK p \in Orders : /\ orders'[p] = [status |-> "completed", route |-> orders[p].route,
                                             items |-> orders[p].items]
                            /\ \A r \in Orders \ {p} : orders'[r] = orders[r]
    BY <2>1, ShipCommitResult
  <2> QED BY <2>2
<1>3. CASE \E s \in Sessions : ReleaseCommit(s)
  BY <1>3, ReleaseResult
<1>4. CASE orders' = orders
  BY <1>4
<1>5. \/ \E s \in Sessions : BookOrder(s)
      \/ \E s \in Sessions : ShipCommit(s)
      \/ \E s \in Sessions : ReleaseCommit(s)
      \/ orders' = orders
  BY Moves DEF Next, Pick, PlanOrder, Ship, ShipOrder, ShipRead, ShipWrite, Release,
               ReleaseRead, Rollback, Move, BlockBatch, ReleaseBatch
<1> QED BY <1>1, <1>2, <1>3, <1>4, <1>5

(* A line that takes boxes of a closed pallet takes first all that is free *)
(* of what FEFO puts before it.                                            *)
LEMMA PlannedFirst ==
    ASSUME NEW q, Picks(q), NEW n \in Nat, NEW x \in Cells, NEW y \in Cells,
           ~q.seen[y].open, Rank[x] < Rank[y], x[2] \in q.ok \cup {NoBatch},
           Plan(n, q)[y] > 0
    PROVE  Plan(n, q)[x] = Avail(q.seen[x])
<1>0. PICK st \in [Cells -> Object] : st = q.seen
  BY PlanType
<1>1. PICK ok : st = q.seen /\ ok = q.ok
  BY <1>0
<1>2. Plan(n, q)[x] = Take(x, n, st, ok) /\ Plan(n, q)[y] = Take(y, n, st, ok)
  BY <1>1 DEF Plan
<1>3. y \in Pickable(st, ok) /\ TakenEarlier(y, st, ok) \in Nat /\ TakenEarlier(y, st, ok) < n
  BY <1>2, TakeOfRow
<1>4. CASE x \notin Pickable(st, ok)
  <2>1. Avail(st[x]) \in Nat
    BY <1>1, RowsAreObjects DEF Picks, Table
  <2>2. Avail(st[x]) = 0
    BY <1>1, <1>4, <2>1 DEF Pickable
  <2> QED BY <1>1, <1>2, <1>4, <2>2, TakeOfRow
<1>5. CASE x \in Pickable(st, ok)
  <2>1. Before(x, y, st)
    <3>1. st[x].open \in BOOLEAN /\ st[y].open = FALSE
      BY <1>1 DEF Object
    <3> QED BY <3>1 DEF Before
  <2>2. Earlier(x, st, ok) \cup {x} \in SUBSET Earlier(y, st, ok) /\ x \notin Earlier(x, st, ok)
    <3>1. \A z \in Earlier(x, st, ok) : z \in Cells
      BY DEF Earlier, Pickable
    <3> QED BY <1>5, <2>1, <3>1, BeforeIsOrder DEF Earlier
  <2>3. /\ IsFiniteSet(Earlier(x, st, ok)) /\ IsFiniteSet(Earlier(y, st, ok))
        /\ \A z \in Earlier(y, st, ok) : Free(st)[z] \in Nat
        /\ Free(st)[x] = Avail(st[x]) /\ Avail(st[x]) \in Nat
    <3>1. Earlier(x, st, ok) \in SUBSET Pickable(st, ok)
          /\ Earlier(y, st, ok) \in SUBSET Pickable(st, ok)
      BY DEF Earlier
    <3> QED BY <1>5, <3>1, FreeBoxes
  <2>4. PICK f : f = Free(st)
    OBVIOUS
  <2>5. \A z \in Earlier(x, st, ok) \cup {x} : f[z] \in Int
    BY <2>2, <2>3, <2>4
  <2>6. Total(f, Earlier(x, st, ok) \cup {x}) = f[x] + Total(f, Earlier(x, st, ok))
    BY <2>2, <2>3, <2>5, TotalWith
  <2>7. Total(f, Earlier(x, st, ok) \cup {x}) <= Total(f, Earlier(y, st, ok))
    BY <2>2, <2>3, <2>4, TotalPart
  <2>8. TakenEarlier(x, st, ok) \in Nat
        /\ Avail(st[x]) + TakenEarlier(x, st, ok) <= TakenEarlier(y, st, ok)
    <3>1. TakenEarlier(x, st, ok) \in Nat
      BY <1>5, TakeOfRow
    <3> QED BY <2>3, <2>4, <2>6, <2>7, <3>1 DEF TakenEarlier
  <2>9. Take(x, n, st, ok) = IF n <= TakenEarlier(x, st, ok) THEN 0
                             ELSE IF Avail(st[x]) <= n - TakenEarlier(x, st, ok) THEN Avail(st[x])
                             ELSE n - TakenEarlier(x, st, ok)
    BY <1>5, TakeOfRow
  <2> QED BY <1>1, <1>2, <1>3, <2>3, <2>8, <2>9
<1> QED BY <1>4, <1>5

(* So do the bookings, line after line. *)
LEMMA BookedFirst ==
    ASSUME stock \in Table, ledger \in [Batches -> Int], NEW q, Picks(q),
           NEW x \in Cells, NEW y \in Cells,
           ~q.seen[y].open, Rank[x] < Rank[y], x[2] \in q.ok \cup {NoBatch},
           x[1] # OpenLoc, stock[x] = q.seen[x],
           Booked(q).route[y] > 0
    PROVE  Avail(BookedStock(q)[x]) = 0
<1>1. PICK acc : LineByLine(acc, q)
  BY BookedLineByLine
<1>2. PICK n \in Nat : n = LinesOf(q)
  BY LineTypes
<1>3. \A i \in 0..n : OnTrack(acc[i], i, q)
  BY <1>1, <1>2, LinesOnTrack
<1>4. PICK row \in Row : row = stock[x] /\ row = q.seen[x] /\ row = Loaded(q)[x]
  BY DEF Table, Loaded
<1>5. ASSUME NEW i \in 0..n
      PROVE  /\ Progress(acc[i]) /\ acc[i].objects[x] \in Object
             /\ acc[i].route[x] \in Nat /\ acc[i].route[y] \in Nat
             /\ acc[i].objects[x].qty = row.qty
             /\ acc[i].objects[x].booked = row.booked + acc[i].route[x]
             /\ Avail(acc[i].objects[x]) \in Nat
             /\ Avail(acc[i].objects[x]) <= Avail(row)
  <2>1. OnTrack(acc[i], i, q)
    BY <1>3, <1>5
  <2>2. /\ Progress(acc[i]) /\ acc[i].objects[x] \in Object
        /\ acc[i].route[x] \in Nat /\ acc[i].route[y] \in Nat
    BY <2>1 DEF OnTrack, Progress, Routes
  <2>3. /\ acc[i].objects[x].qty = row.qty
        /\ acc[i].objects[x].booked = row.booked + acc[i].route[x]
        /\ Avail(acc[i].objects[x]) >= 0
    BY <1>4, <2>1 DEF OnTrack
  <2>4. row.qty \in Nat /\ row.booked \in Nat
    BY DEF Row
  <2>5. Avail(acc[i].objects[x]) = row.qty - (row.booked + acc[i].route[x])
        /\ Avail(row) = row.qty - row.booked
    BY <2>3 DEF Avail
  <2> QED BY <2>2, <2>3, <2>4, <2>5
<1> DEFINE G == {i \in 0..n : acc[i].route[y] > 0 => Avail(acc[i].objects[x]) = 0}
<1>6. 0 \in G
  <2>1. acc[0].route = NoOrder.route
    BY <1>1 DEF LineByLine, AtFirst
  <2>2. acc[0].route[y] = 0
    BY <2>1 DEF NoOrder
  <2> QED BY <2>2
<1>7. ASSUME NEW i \in 1..n, i - 1 \in G
      PROVE  i \in G
  <2> SUFFICES ASSUME acc[i].route[y] > 0
               PROVE  Avail(acc[i].objects[x]) = 0
    OBVIOUS
  <2>1. PICK k \in Nat : k = Lines[q.order][i] /\ i - 1 \in 0..n /\ i \in 0..n
    BY <1>2, LineTypes
  <2>2. PICK plan \in Routes : plan = Plan(k, q) /\ plan = PlanOf(i, q)
    BY <2>1, PlanType DEF PlanOf
  <2>3. PICK old : old = acc[i - 1]
    OBVIOUS
  <2>4. PICK new : new = acc[i]
    OBVIOUS
  <2>5. new = BookLine(old, plan, q)
    BY <1>1, <1>2, <2>2, <2>3, <2>4 DEF LineByLine
  <2>6. PICK take : take = LineTake(old, plan)
    OBVIOUS
  <2>7. /\ new.route = [z \in Cells |-> old.route[z] + take[z]]
        /\ new.objects[x].booked = old.objects[x].booked + take[x]
        /\ new.objects[x].qty = old.objects[x].qty
    <3>1. Progress(old)
      BY <1>5, <2>1, <2>3
    <3>2. x \in Cells /\ x[1] # OpenLoc
      OBVIOUS
    <3> QED BY <2>5, <2>6, <3>1, <3>2, LineBooked
  <2>8. \A z \in Cells : /\ take[z] \in Nat /\ Avail(old.objects[z]) \in Int
                         /\ take[z] = IF Avail(old.objects[z]) <= 0 THEN 0
                                      ELSE IF plan[z] <= Avail(old.objects[z]) THEN plan[z]
                                      ELSE Avail(old.objects[z])
    BY <1>5, <2>1, <2>3, <2>6, LineTakeType
  <2>9. PICK a \in Nat : a = Avail(old.objects[x]) /\ a <= Avail(row)
    BY <1>5, <2>1, <2>3
  <2>10. Avail(new.objects[x]) = a - take[x]
    <3>1. old.objects[x].qty \in Int /\ old.objects[x].booked \in Int /\ take[x] \in Nat
      BY <1>5, <2>1, <2>3, <2>8 DEF Object
    <3> QED BY <2>7, <2>9, <3>1 DEF Avail
  <2>11. Avail(row) \in Nat
    BY RowsAreObjects
  <2>12. CASE old.route[y] > 0
    <3>1. a = 0
      BY <1>7, <2>3, <2>9, <2>12
    <3>2. take[x] = 0
      <4>1. Avail(old.objects[x]) <= 0
        BY <2>9, <3>1
      <4> QED BY <2>8, <4>1
    <3> QED BY <2>4, <2>10, <3>1, <3>2
  <2>13. CASE ~(old.route[y] > 0)
    <3>1. take[y] > 0
      <4>1. old.route[y] \in Nat /\ new.route[y] = old.route[y] + take[y] /\ new.route[y] > 0
        BY <1>5, <2>1, <2>3, <2>4, <2>7
      <4> QED BY <2>8, <2>13, <4>1
    <3>2. plan[y] > 0
      <4>1. plan[y] \in Nat
        BY DEF Routes
      <4> QED BY <2>8, <3>1, <4>1
    <3>3. plan[x] = Avail(row)
      BY <1>4, <2>2, <3>2, PlannedFirst
    <3>4. take[x] = a
      BY <2>8, <2>9, <2>11, <3>3
    <3> QED BY <2>4, <2>9, <2>10, <3>4
  <2> QED BY <1>5, <2>1, <2>3, <2>12, <2>13
<1>8. PICK object : object = acc[n].objects[x] /\ object \in Object /\ Avail(object) = 0
        /\ object.qty = row.qty
  <2>1. \A i \in 0..n : i \in G
    <3> HIDE DEF G
    <3> QED BY <1>6, <1>7, GrowingNumbers
  <2>2. n \in 0..n
    OBVIOUS
  <2>3. n \in G
    <3> HIDE DEF G
    <3> QED BY <2>1, <2>2
  <2>4. acc[n].route[y] > 0
    BY <1>1, <1>2 DEF LineByLine
  <2> QED BY <1>5, <2>2, <2>3, <2>4
<1>9. BookedStock(q)[x] = Merge(row, object, row)
  <2>1. Booked(q).objects[x] = object
    BY <1>1, <1>2, <1>8 DEF LineByLine
  <2> QED BY <1>4, <2>1 DEF BookedStock
<1>10. Merge(row, object, row).qty = object.qty /\ Merge(row, object, row).booked = object.booked
  BY <1>8 DEF Merge
<1> QED BY <1>8, <1>9, <1>10 DEF Avail

FefoStep ==
    \A s \in Sessions :
      LET q == req[s] IN
      q.pc = "picking" =>
        \A x, y \in Cells :
          /\ orders[q.order].status = "none" /\ orders'[q.order].route[y] > 0
          /\ ~q.seen[y].open
          /\ Rank[x] < Rank[y]
          /\ x[1] # OpenLoc
          => Avail(stock'[x]) = 0 \/ stock[x] # q.seen[x]
             \/ x[2] \notin q.ok \cup {NoBatch}

LEMMA FefoKept == PickInv /\ [Next]_vars => [FefoStep]_vars
<1> SUFFICES ASSUME PickInv, Next, NEW s \in Sessions, req[s].pc = "picking",
                    NEW x \in Cells, NEW y \in Cells,
                    orders[req[s].order].status = "none",
                    orders'[req[s].order].route[y] > 0,
                    ~req[s].seen[y].open, Rank[x] < Rank[y], x[1] # OpenLoc,
                    stock[x] = req[s].seen[x], x[2] \in req[s].ok \cup {NoBatch}
             PROVE  Avail(stock'[x]) = 0
  BY DEF FefoStep
<1>1. PICK q : q = req[s] /\ Picks(q)
  BY DEF PickInv, Types, Proper
<1>2. BookOrder(s)
  <2> SUFFICES ASSUME ~BookOrder(s) PROVE FALSE
    OBVIOUS
  <2>1. q.order \in Orders
    BY <1>1 DEF Picks
  <2>2. \A t \in Sessions : BookOrder(t) => req[t].order # q.order
    BY <1>1, <2>1 DEF PickInv, PickedOnce, BookOrder
  <2>3. orders'[q.order].route = orders[q.order].route
    BY <2>1, <2>2, RoutesKept
  <2>4. orders[q.order].route[y] = 0
    BY <1>1, <2>1 DEF PickInv, PickedOnce, NoOrder
  <2> QED BY <1>1, <2>3, <2>4
<1>3. stock' = BookedStock(q) /\ orders'[q.order].route = Booked(q).route
  <2>1. /\ stock' = BookedStock(q)
        /\ orders' = [orders EXCEPT ![q.order] =
                        [status |-> "in_progress", route |-> Booked(q).route,
                         items |-> Booked(q).items]]
    BY <1>1, <1>2, BookResult DEF PickInv
  <2> QED BY <1>1, <2>1 DEF PickInv, Types, Picks
<1> QED BY <1>1, <1>3, BookedFirst DEF PickInv, Types

(* A pick takes nothing from a closed pallet while it leaves free boxes on *)
(* one that FEFO puts before it, for any lines, pallets and overlap of     *)
(* requests (_load_available_stock's order, kept by build_pick_plan and by *)
(* the clamps of execute_pick_plan).                                       *)
THEOREM FirstExpiredFirstOut == Spec => FefoRespected
BY PickInvHolds, FefoKept, PTL DEF Spec, FefoRespected, FefoStep

-----------------------------------------------------------------------------
(* Boxes in stock and in the ledger, where there is no bench for open      *)
(* pallets (a broken pallet's leftover is added there and taken off        *)
(* nowhere) and no movement that does not check what there is (its clamp   *)
(* at zero adds boxes too).                                                *)

Held(st, b) == BatchSum([x \in Cells |-> st[x].qty], b)
Promised(docs, b) == Total([o \in Orders |-> BatchSum(docs[o].route, b)], Orders)

LEMMA HeldSame ==
    ASSUME NEW st \in Table, NEW new \in Table, \A x \in Cells : new[x].qty = st[x].qty,
           NEW b \in Batches
    PROVE  Held(new, b) = Held(st, b)
<1>1. [x \in Cells |-> new[x].qty] = [x \in Cells |-> st[x].qty]
  OBVIOUS
<1> QED BY <1>1 DEF Held

LEMMA HeldType ==
    ASSUME NEW st \in Table, NEW b \in Batches
    PROVE  Held(st, b) \in Nat
<1> DEFINE f == [x \in Cells |-> st[x].qty]
<1>1. \A x \in Cells : f[x] \in Nat
  BY DEF Table, Row
<1>2. \A x \in Cells : f[x] \in Int
  BY <1>1
<1> HIDE DEF f
<1>3. BatchSum(f, b) \in Nat
  BY <1>1, <1>2, BatchSums
<1> QED BY <1>3 DEF Held, f

LEMMA HeldMoved ==
    ASSUME NEW st \in Table, NEW new \in Table, NEW b \in Batches, NEW n \in Nat,
           NEW from \in Locations, NEW to \in Locations, from # to,
           new[<<from, b>>].qty = st[<<from, b>>].qty - n,
           new[<<to, b>>].qty = st[<<to, b>>].qty + n,
           \A x \in Cells \ {<<from, b>>, <<to, b>>} : new[x] = st[x]
    PROVE  \A c \in Batches : Held(new, c) = Held(st, c)
<1>1. ASSUME NEW c \in Batches, c # b
      PROVE  Held(new, c) = Held(st, c)
  <2> DEFINE On(t) == [l \in Locations |-> [x \in Cells |-> t[x].qty][<<l, c>>]]
  <2>1. \A l \in Locations : new[<<l, c>>] = st[<<l, c>>]
    BY <1>1 DEF Cells
  <2>2. On(new) = On(st)
    BY <2>1 DEF Cells
  <2> QED BY <2>2 DEF Held, BatchSum
<1>2. Held(new, b) = Held(st, b)
  <2> DEFINE On(t) == [l \in Locations |-> [x \in Cells |-> t[x].qty][<<l, b>>]]
             f == On(st)
             h == On(new)
             g == [l \in Locations |-> IF l = from THEN f[l] - n ELSE f[l]]
  <2>1. \A l \in Locations : f[l] = st[<<l, b>>].qty /\ h[l] = new[<<l, b>>].qty
    BY DEF Cells
  <2>2. \A l \in Locations : f[l] \in Nat
    BY <2>1 DEF Table, Row, Cells
  <2>3. \A l \in Locations : h[l] \in Nat
    BY <2>1 DEF Table, Row, Cells
  <2>4. h[from] = f[from] - n /\ h[to] = f[to] + n
        /\ \A l \in Locations \ {from, to} : h[l] = f[l]
    BY <2>1 DEF Cells
  <2>5. \A l \in Locations : g[l] = IF l = from THEN f[l] - n ELSE f[l]
    OBVIOUS
  <2>6. Held(st, b) = Total(f, Locations) /\ Held(new, b) = Total(h, Locations)
    BY DEF Held, BatchSum
  <2> HIDE DEF f, g, h
  <2>7. /\ \A l \in Locations : f[l] \in Int /\ (l # from => g[l] = f[l])
        /\ g[from] \in Int /\ g[from] = f[from] - n
    BY <2>2, <2>5
  <2>8. Total(g, Locations) = Total(f, Locations) + g[from] - f[from]
    BY <2>7, FiniteTables, TotalChange
  <2>9. /\ \A l \in Locations : g[l] \in Int /\ (l # to => h[l] = g[l])
        /\ h[to] \in Int /\ g[to] = f[to] /\ h[to] = f[to] + n
    BY <2>2, <2>3, <2>4, <2>5
  <2>10. Total(h, Locations) = Total(g, Locations) + h[to] - g[to]
    BY <2>9, FiniteTables, TotalChange
  <2>11. Total(f, Locations) \in Int /\ f[from] \in Int /\ f[to] \in Int
    <3>1. \A l \in Locations : f[l] \in Int
      BY <2>2
    <3> QED BY <3>1, FiniteTables, TotalInt
  <2> QED BY <2>6, <2>7, <2>8, <2>9, <2>10, <2>11
<1> QED BY <1>1, <1>2

(* Nothing but a shipment changes how many boxes of a batch there are. *)
LEMMA BoxesStay ==
    ASSUME OpenLoc \notin Locations, "move" \notin Handlers,
           PickInv, [Next]_vars, \A s \in Sessions : ~ShipCommit(s)
    PROVE  stock' \in Table /\ \A b \in Batches : Held(stock', b) = Held(stock, b)
<1>1. CASE stock' = stock
  BY <1>1 DEF PickInv, Types
<1>2. CASE \E s \in Sessions : BookOrder(s)
  <2>1. PICK q : Picks(q) /\ stock' = BookedStock(q) /\ stock' \in Table
    BY <1>2, BookResult DEF PickInv
  <2>2. \A x \in Cells : stock'[x].qty = stock[x].qty
    <3>1. \A x \in Cells : x[1] # OpenLoc
      BY DEF Cells
    <3> QED BY <2>1, <3>1, BookedRows DEF PickInv, Types
  <2> QED BY <2>1, <2>2, HeldSame DEF PickInv, Types
<1>3. CASE \E s \in Sessions : ReleaseCommit(s)
  <2>1. PICK q : /\ stock' \in Table
                 /\ stock' = [x \in Cells |-> IF x \in q.rows THEN [stock[x] EXCEPT !.booked = 0]
                                              ELSE stock[x]]
    BY <1>3, ReleaseResult
  <2>2. \A x \in Cells : stock'[x].qty = stock[x].qty
    <3>1. \A x \in Cells : [stock[x] EXCEPT !.booked = 0].qty = stock[x].qty
      BY DEF PickInv, Types, Table, Row
    <3> QED BY <2>1, <3>1
  <2> QED BY <2>1, <2>2, HeldSame DEF PickInv, Types
<1>4. CASE MoveGoods
  <2>1. PICK b \in Batches, from \in Locations, to \in Locations, n \in MoveQtys :
          /\ n \in Nat /\ <<from, b>> \in Cells /\ <<to, b>> \in Cells
          /\ Move(<<from, b>>, <<to, b>>, n)
          /\ Avail(stock[<<from, b>>]) >= n
    BY <1>4, Moves
  <2>2. /\ stock' \in Table /\ from # to
        /\ \A z \in Cells \ {<<from, b>>, <<to, b>>} : stock'[z] = stock[z]
        /\ stock'[<<from, b>>].qty = IF n <= stock[<<from, b>>].qty
                                       THEN stock[<<from, b>>].qty - n ELSE 0
        /\ stock'[<<to, b>>].qty = stock[<<to, b>>].qty + n
    BY <2>1, MovedRows DEF PickInv, Types
  <2>3. n <= stock[<<from, b>>].qty
    <3>1. PICK row \in Row : row = stock[<<from, b>>]
      BY <2>1 DEF PickInv, Types, Table
    <3>2. row.qty \in Nat /\ row.booked \in Nat
      BY DEF Row
    <3> QED BY <2>1, <3>1, <3>2 DEF Avail
  <2> QED BY <2>1, <2>2, <2>3, HeldMoved DEF PickInv, Types
<1>5. \/ stock' = stock
      \/ \E s \in Sessions : BookOrder(s)
      \/ \E s \in Sessions : ReleaseCommit(s)
      \/ MoveGoods
  BY DEF Next, vars, Pick, PlanOrder, Ship, ShipOrder, ShipRead, ShipWrite, Release,
         ReleaseRead, Rollback, BlockBatch, ReleaseBatch
<1> QED BY <1>1, <1>2, <1>3, <1>4, <1>5

(* What the steps of endpoints that are not used leave alone. *)
Unused ==
    /\ "ship" \notin Handlers =>
         /\ \A s \in Sessions : ~Ships(req[s])
         /\ \A o \in Orders : orders[o].status # "completed"
    /\ "release" \notin Handlers => \A s \in Sessions : req[s].pc # "releasing"

LEMMA UnusedStart == Init => Unused
BY DEF Init, Unused, Ships, Idle, NoOrder

LEMMA UnusedStep == PickInv /\ Unused /\ [Next]_vars => Unused'
<1> SUFFICES ASSUME PickInv, Unused, [Next]_vars PROVE Unused'
  OBVIOUS
<1>1. CASE \E s \in Sessions : BookOrder(s)
  <2>1. PICK s, q :
          /\ s \in Sessions
          /\ q = req[s] /\ q.pc = "picking" /\ Picks(q)
          /\ orders' = [orders EXCEPT ![q.order] =
                          [status |-> "in_progress", route |-> Booked(q).route,
                           items |-> Booked(q).items]]
          /\ req' = [req EXCEPT ![s] = Idle]
    BY <1>1, BookResult DEF PickInv
  <2>2. \A o \in Orders : orders'[o] = orders[o] \/ orders'[o].status = "in_progress"
    BY <2>1 DEF PickInv, Types
  <2>3. \A t \in Sessions : req'[t] = req[t] \/ req'[t] = Idle
    BY <2>1 DEF PickInv, Types
  <2> QED BY <2>2, <2>3 DEF Unused, Ships, Idle
<1>2. CASE \E s \in Sessions : ShipCommit(s)
  <2>1. PICK s \in Sessions : ShipCommit(s)
    BY <1>2
  <2>2. Ships(req[s]) /\ req' = [req EXCEPT ![s] = Idle]
    BY <2>1 DEF ShipCommit, Ships, End
  <2>3. \A t \in Sessions : req'[t] = req[t] \/ req'[t] = Idle
    BY <2>2 DEF PickInv, Types
  <2> QED BY <2>2, <2>3 DEF Unused, Ships, Idle
<1>3. CASE \E s \in Sessions : ReleaseCommit(s)
  <2>1. PICK s, q :
          /\ s \in Sessions
          /\ \A o \in Orders :
               orders'[o].status = IF o \in q.docs THEN "cancelled" ELSE orders[o].status
          /\ req' = [req EXCEPT ![s] = Idle]
    BY <1>3, ReleaseResult
  <2>2. \A t \in Sessions : req'[t] = req[t] \/ req'[t] = Idle
    BY <2>1 DEF PickInv, Types
  <2> QED BY <2>1, <2>2 DEF Unused, Ships, Idle
<1>4. CASE /\ orders' = orders
           /\ \A t \in Sessions :
                \/ req'[t] = req[t] \/ req'[t].pc \in {"idle", "picking"}
                \/ Ships(req'[t]) /\ (Ships(req[t]) \/ "ship" \in Handlers)
                \/ req'[t].pc = "releasing" /\ "release" \in Handlers
  BY <1>4 DEF Unused, Ships
<1>5. \/ \E s \in Sessions : BookOrder(s) \/ ShipCommit(s) \/ ReleaseCommit(s)
      \/ /\ orders' = orders
         /\ \A t \in Sessions :
              \/ req'[t] = req[t] \/ req'[t].pc \in {"idle", "picking"}
              \/ Ships(req'[t]) /\ (Ships(req[t]) \/ "ship" \in Handlers)
              \/ req'[t].pc = "releasing" /\ "release" \in Handlers
  <2>1. DOMAIN req = Sessions
    BY DEF PickInv, Types
  <2>2. CASE UNCHANGED vars
    BY <2>2 DEF vars
  <2>3. CASE \E s \in Sessions : (\E o \in Orders : PlanOrder(s, o))
    BY <2>1, <2>3 DEF PlanOrder
  <2>4. CASE \E s \in Sessions : \E o \in Orders : ShipOrder(s, o)
    BY <2>1, <2>4 DEF ShipOrder, Ships
  <2>5. CASE \E s \in Sessions : ShipRead(s)
    <3>1. PICK s \in Sessions : ShipRead(s)
      BY <2>5
    <3>2. PICK v :
            /\ req[s].pc = "shipping" /\ orders' = orders
            /\ req' = [req EXCEPT ![s] = v] /\ v.pc = "deducting"
      BY <3>1, ShipReadResult DEF ItemRead
    <3> QED BY <2>1, <3>2 DEF Ships
  <2>6. CASE \E s \in Sessions : ShipWrite(s)
    <3>1. PICK s \in Sessions : ShipWrite(s)
      BY <2>6
    <3>2. PICK v :
            /\ req[s].pc = "deducting" /\ orders' = orders
            /\ req' = [req EXCEPT ![s] = v] /\ v.pc = "shipping"
      BY <3>1, ShipWriteResult DEF DeductedBy
    <3> QED BY <2>1, <3>2 DEF Ships
  <2>7. CASE \E s \in Sessions : ReleaseRead(s)
    BY <2>1, <2>7 DEF ReleaseRead
  <2>8. CASE \E s \in Sessions : Rollback(s)
    BY <2>1, <2>8 DEF Rollback, End, Idle
  <2>9. CASE MoveGoods
    BY <2>9, Moves, ZenonT(40) DEF Move
  <2>10. CASE \E b \in Batches : BlockBatch(b) \/ ReleaseBatch(b)
    BY <2>10 DEF BlockBatch, ReleaseBatch
  <2> QED BY <2>2, <2>3, <2>4, <2>5, <2>6, <2>7, <2>8, <2>9, <2>10
          DEF Next, Pick, Ship, Release
<1> QED BY <1>1, <1>2, <1>3, <1>4, <1>5

(* Boxes received are in stock, as long as none are shipped: however many  *)
(* pick tasks, replenishments and releases overlap, the bookings and the   *)
(* moves neither create nor destroy boxes.                                 *)
THEOREM PickingKeepsBoxes ==
    ASSUME OpenLoc \notin Locations, Handlers \cap {"ship", "move"} = {}
    PROVE  Spec => []BoxesConserved
<1> DEFINE Kept == \A b \in Batches : Held(stock, b) = BatchSum(InitialQty, b)
           Inv == PickInv /\ Unused /\ Kept
<1>1. Init => Inv
  <2> SUFFICES ASSUME Init PROVE Kept
    BY PickStart, UnusedStart
  <2>1. [x \in Cells |-> stock[x].qty] = InitialQty
    BY PickingAssumption DEF PickingAssumption, Init
  <2> QED BY <2>1 DEF Held
<1>2. Inv /\ [Next]_vars => Inv'
  <2> SUFFICES ASSUME Inv, [Next]_vars PROVE Kept'
    BY PickStep, UnusedStep
  <2>1. \A s \in Sessions : ~ShipCommit(s)
    BY DEF Unused, ShipCommit, Ships
  <2>2. \A b \in Batches : Held(stock', b) = Held(stock, b)
    BY <2>1, BoxesStay
  <2> QED BY <2>2 DEF Held
<1>3. Inv => BoxesConserved
  <2> SUFFICES ASSUME Inv, NEW b \in Batches
               PROVE  Held(stock, b) + Total([o \in Orders |-> BatchSum(orders[o].route, b)], Shipped)
                        = BatchSum(InitialQty, b)
    BY DEF BoxesConserved, Held
  <2>1. Shipped = {}
    BY DEF Unused, Shipped
  <2>2. Held(stock, b) \in Nat
    BY HeldType DEF PickInv, Types
  <2> QED BY <2>1, <2>2, TotalEmpty
<1> HIDE DEF Inv
<1> QED BY <1>1, <1>2, <1>3, PTL DEF Spec

(* What each order was given of a batch. *)
LEMMA PromisedNow ==
    ASSUME NEW docs, \A o \in Orders : docs[o].route \in Routes, NEW b \in Batches
    PROVE  /\ Promised(docs, b) \in Nat
           /\ (\A o \in Orders : docs[o].route = NoOrder.route) => Promised(docs, b) = 0
           /\ \A new : \A p \in Orders :
                /\ \A o \in Orders : new[o].route \in Routes
                /\ docs[p].route = NoOrder.route
                /\ \A o \in Orders \ {p} : new[o].route = docs[o].route
                => Promised(new, b) = Promised(docs, b) + BatchSum(new[p].route, b)
<1> DEFINE f == [o \in Orders |-> BatchSum(docs[o].route, b)]
<1>1. \A o \in Orders : f[o] \in Nat /\ f[o] = BatchSum(docs[o].route, b)
  BY BoxesType
<1>2. Promised(docs, b) = Total(f, Orders)
  BY DEF Promised
<1>3. ASSUME NEW new, NEW p \in Orders, \A o \in Orders : new[o].route \in Routes,
             docs[p].route = NoOrder.route,
             \A o \in Orders \ {p} : new[o].route = docs[o].route
      PROVE  Promised(new, b) = Promised(docs, b) + BatchSum(new[p].route, b)
  <2> DEFINE g == [o \in Orders |-> BatchSum(new[o].route, b)]
  <2>1. \A o \in Orders : g[o] = BatchSum(new[o].route, b) /\ g[o] \in Nat
    BY <1>3, BoxesType
  <2>2. Promised(new, b) = Total(g, Orders)
    BY DEF Promised
  <2>3. \A o \in Orders : o # p => g[o] = f[o]
    BY <1>3
  <2>4. f[p] = 0
    BY <1>1, <1>3, NothingPicked
  <2> HIDE DEF f, g
  <2>5. g[p] \in Int /\ \A o \in Orders : f[o] \in Int /\ (o # p => g[o] = f[o])
    BY <1>1, <2>1, <2>3
  <2>6. Total(g, Orders) = Total(f, Orders) + g[p] - f[p]
    BY <2>5, FiniteTables, TotalChange
  <2>7. Total(f, Orders) \in Int
    BY <2>5, FiniteTables, TotalInt
  <2> QED BY <1>2, <2>1, <2>2, <2>4, <2>5, <2>6, <2>7
<1>4. (\A o \in Orders : docs[o].route = NoOrder.route) => Promised(docs, b) = 0
  <2> SUFFICES ASSUME \A o \in Orders : docs[o].route = NoOrder.route
               PROVE  Promised(docs, b) = 0
    OBVIOUS
  <2>1. \A o \in Orders : f[o] = 0
    BY <1>1, NothingPicked
  <2> HIDE DEF f
  <2> QED BY <1>2, <2>1, FiniteTables, TotalZero
<1>5. Promised(docs, b) \in Nat
  <2> HIDE DEF f
  <2>1. \A o \in Orders : f[o] \in Nat
    BY <1>1
  <2> QED BY <1>2, <2>1, FiniteTables, TotalNat
<1> QED BY <1>3, <1>4, <1>5

(* Until something is shipped, the ledger is the stock less the promises;  *)
(* once something is, it stays shipped.                                    *)
LedgerKept ==
    \A b \in Batches : Shipped = {} => ledger[b] = Held(stock, b) - Promised(orders, b)

LEMMA LedgerStep ==
    ASSUME OpenLoc \notin Locations, "move" \notin Handlers,
           "ship" \notin Handlers \/ "release" \notin Handlers,
           PickInv, Unused, LedgerKept, [Next]_vars
    PROVE  LedgerKept'
<1>0. \A o \in Orders : orders[o].route \in Routes
  BY OrderTypes DEF PickInv
<1>1. CASE \E s \in Sessions : BookOrder(s)
  <2>1. PICK s, q :
          /\ s \in Sessions
          /\ q = req[s] /\ q.pc = "picking" /\ Picks(q)
          /\ OnTrack(Booked(q), LinesOf(q), q)
          /\ ledger' = Booked(q).ledger
          /\ Booked(q).route \in Routes
          /\ orders' = [orders EXCEPT ![q.order] =
                          [status |-> "in_progress", route |-> Booked(q).route,
                           items |-> Booked(q).items]]
    BY <1>1, BookResult DEF PickInv
  <2>2. PICK p \in Orders : p = q.order
    BY <2>1 DEF Picks
  <2>3. orders[p].status = "none" /\ orders[p].route = NoOrder.route
    BY <2>1, <2>2 DEF PickInv, PickedOnce
  <2>4. PICK new : new = orders'
    OBVIOUS
  <2>5. PICK route \in Routes : route = Booked(q).route
    BY <2>1
  <2>6. /\ new[p].route = route /\ new[p].status = "in_progress"
        /\ \A o \in Orders \ {p} : new[o] = orders[o]
    BY <2>1, <2>2, <2>4, <2>5 DEF PickInv, Types
  <2>7. \A o \in Orders : new[o].route \in Routes
    BY <1>0, <2>6
  <2>8. Shipped' = Shipped
    BY <2>3, <2>4, <2>6 DEF Shipped
  <2>9. ASSUME NEW b \in Batches, Shipped = {}
        PROVE  ledger'[b] = Held(stock', b) - Promised(new, b)
    <3>1. ledger[b] = Held(stock, b) - Promised(orders, b)
      BY <2>9 DEF LedgerKept
    <3>2. Held(stock', b) = Held(stock, b)
      <4>1. \A t \in Sessions : ~ShipCommit(t)
        <5>1. \A t \in Sessions : ShipCommit(t) => \E o \in Orders : orders'[o].status = "completed"
          <6> SUFFICES ASSUME NEW t \in Sessions, ShipCommit(t)
                       PROVE  \E o \in Orders : orders'[o].status = "completed"
            OBVIOUS
          <6>1. PICK o \in Orders :
                  orders'[o] = [status |-> "completed", route |-> orders[o].route,
                                items |-> orders[o].items]
            BY ShipCommitResult
          <6> QED BY <6>1
        <5> QED BY <2>4, <2>8, <2>9, <5>1 DEF Shipped
      <4> QED BY <4>1, BoxesStay
    <3>3. PICK docs : docs = orders
      OBVIOUS
    <3>4. Promised(new, b) = Promised(docs, b) + BatchSum(new[p].route, b)
      <4>1. /\ \A o \in Orders : docs[o].route \in Routes
            /\ docs[p].route = NoOrder.route
            /\ \A o \in Orders \ {p} : new[o].route = docs[o].route
        BY <1>0, <2>3, <2>6, <3>3
      <4> QED BY <2>7, <4>1, PromisedNow
    <3>5. ledger'[b] = ledger[b] - BatchSum(route, b)
      BY <2>1, <2>5 DEF OnTrack
    <3>6. Promised(docs, b) \in Nat /\ Held(stock, b) \in Nat /\ BatchSum(route, b) \in Nat
      BY <1>0, <3>3, PromisedNow, HeldType, BoxesType DEF PickInv, Types
    <3> QED BY <2>6, <3>1, <3>2, <3>3, <3>4, <3>5, <3>6
  <2> QED BY <2>4, <2>8, <2>9 DEF LedgerKept
<1>2. CASE \E s \in Sessions : ShipCommit(s)
  <2>1. PICK o \in Orders : orders'[o] = [status |-> "completed", route |-> orders[o].route,
                                          items |-> orders[o].items]
    BY <1>2, ShipCommitResult
  <2>2. o \in Shipped'
    BY <2>1 DEF Shipped
  <2> QED BY <2>2 DEF LedgerKept
<1>3. CASE /\ \A s \in Sessions : ~ShipCommit(s)
           /\ \A s \in Sessions : ~BookOrder(s)
  <2>1. stock' \in Table /\ \A b \in Batches : Held(stock', b) = Held(stock, b)
    BY <1>3, BoxesStay
  <2>2. ledger' = ledger
    <3>1. \A s \in Sessions : ReleaseCommit(s) => ledger' = ledger
      BY DEF ReleaseCommit
    <3> QED BY <1>3, <3>1, Moves
            DEF Next, vars, Pick, PlanOrder, Ship, ShipOrder, ShipRead, ShipWrite, Release,
                ReleaseRead, Rollback, Move, BlockBatch, ReleaseBatch
  <2>3. PICK new : new = orders'
    OBVIOUS
  <2>4. \A o \in Orders : new[o].route = orders[o].route
    <3>1. CASE UNCHANGED vars
      BY <2>3, <3>1 DEF vars
    <3>2. CASE Next
      BY <1>3, <2>3, <3>2, RoutesKept
    <3> QED BY <3>1, <3>2
  <2>5. Shipped' = {} => Shipped = {}
    <3>1. CASE \E s \in Sessions : ReleaseCommit(s)
      <4>1. "ship" \notin Handlers
        BY <3>1 DEF Unused, ReleaseCommit
      <4> QED BY <4>1 DEF Unused, Shipped
    <3>2. CASE \A s \in Sessions : ~ReleaseCommit(s)
      <4>1. orders' = orders
        BY <1>3, <3>2, Moves
           DEF Next, vars, Pick, PlanOrder, Ship, ShipOrder, ShipRead, ShipWrite, Release,
               ReleaseRead, Rollback, Move, BlockBatch, ReleaseBatch
      <4> QED BY <4>1 DEF Shipped
    <3> QED BY <3>1, <3>2
  <2>6. \A b \in Batches : Promised(new, b) = Promised(orders, b)
    <3> SUFFICES ASSUME NEW b \in Batches PROVE Promised(new, b) = Promised(orders, b)
      OBVIOUS
    <3>1. [o \in Orders |-> BatchSum(new[o].route, b)] = [o \in Orders |-> BatchSum(orders[o].route, b)]
      BY <2>4
    <3> QED BY <3>1 DEF Promised
  <2> QED BY <2>1, <2>2, <2>3, <2>5, <2>6 DEF LedgerKept
<1> QED BY <1>1, <1>2, <1>3

(* Until something is shipped, reconciliation's sum over the ledger        *)
(* (_ledger_sums) is the stock less what orders were ever promised of it,  *)
(* for any overlap of pick tasks, replenishments and releases: each BOOK   *)
(* entry counts what was booked after the re-check.  A release that read   *)
(* an order as open while its shipment commits would cancel it after it    *)
(* was shipped, hence not both.                                            *)
THEOREM LedgerIsStockLessPromises ==
    ASSUME OpenLoc \notin Locations, "move" \notin Handlers,
           "ship" \notin Handlers \/ "release" \notin Handlers
    PROVE  Spec => []LedgerCountsPromises
<1> DEFINE Inv == PickInv /\ Unused /\ LedgerKept
<1>1. Init => Inv
  <2> SUFFICES ASSUME Init PROVE LedgerKept
    BY PickStart, UnusedStart
  <2>1. [x \in Cells |-> stock[x].qty] = InitialQty
    BY PickingAssumption DEF PickingAssumption, Init
  <2>2. \A o \in Orders : orders[o].route = NoOrder.route
    BY DEF Init
  <2>3. ASSUME NEW b \in Batches
        PROVE  ledger[b] = Held(stock, b) - Promised(orders, b)
    <3>1. ledger[b] = Held(stock, b)
      BY <2>1 DEF Init, Held
    <3>2. PICK docs : docs = orders
      OBVIOUS
    <3>3. Promised(docs, b) = 0
      BY <2>2, <3>2, NothingPicked, PromisedNow
    <3>4. Held(stock, b) \in Nat
      BY PickStart, HeldType DEF PickInv, Types
    <3> QED BY <3>1, <3>2, <3>3, <3>4
  <2> QED BY <2>3 DEF LedgerKept
<1>2. Inv /\ [Next]_vars => Inv'
  BY PickStep, UnusedStep, LedgerStep
<1>3. Inv => LedgerCountsPromises
  BY DEF LedgerKept, LedgerCountsPromises, Held, Promised
<1> HIDE DEF Inv
<1> QED BY <1>1, <1>2, <1>3, PTL DEF Spec

-----------------------------------------------------------------------------
(* Bookings and the orders that back them, with one request at a time,     *)
(* beside the movements and the quarantine, on stock without batches.      *)

BackedBy(docs, S, x) == Total([o \in Orders |-> docs[o].route[x]], S)

LEMMA BackedType ==
    ASSUME NEW docs, \A o \in Orders : docs[o].route \in Routes,
           NEW S \in SUBSET Orders, NEW x \in Cells
    PROVE  /\ BackedBy(docs, S, x) \in Nat
           /\ \A o \in S : /\ docs[o].route[x] <= BackedBy(docs, S, x)
                           /\ docs[o].route[x] \in Nat
                           /\ BackedBy(docs, S \ {o}, x) = BackedBy(docs, S, x) - docs[o].route[x]
           /\ \A new : (\A o \in S : new[o].route = docs[o].route) =>
                BackedBy(new, S, x) = BackedBy(docs, S, x)
<1> DEFINE f == [o \in Orders |-> docs[o].route[x]]
<1>1. \A o \in S : f[o] \in Nat /\ f[o] = docs[o].route[x]
  BY DEF Routes
<1>2. \A o \in S : f[o] \in Int
  BY <1>1, SMTT(20)
<1>3. IsFiniteSet(S)
  BY FiniteTables, FS_Subset
<1>4. \A T : BackedBy(docs, T, x) = Total(f, T)
  BY DEF BackedBy
<1>5. ASSUME NEW new, \A o \in S : new[o].route = docs[o].route
      PROVE  BackedBy(new, S, x) = BackedBy(docs, S, x)
  <2> DEFINE g == [o \in Orders |-> new[o].route[x]]
  <2>1. \A o \in S : g[o] = f[o]
    BY <1>5
  <2>2. BackedBy(new, S, x) = Total(g, S)
    BY DEF BackedBy
  <2> HIDE DEF f, g
  <2>3. \A o \in S : f[o] \in Int /\ g[o] = f[o]
    BY <1>2, <2>1
  <2> QED BY <1>3, <1>4, <2>2, <2>3, TotalSame
<1> HIDE DEF f
<1>6. Total(f, S) \in Nat
  BY <1>1, <1>3, TotalNat
<1>7. ASSUME NEW o \in S
      PROVE  /\ docs[o].route[x] <= BackedBy(docs, S, x)
             /\ docs[o].route[x] \in Nat
             /\ BackedBy(docs, S \ {o}, x) = BackedBy(docs, S, x) - docs[o].route[x]
  <2>1. f[o] <= Total(f, S)
    BY <1>1, <1>3, TotalMember
  <2>2. Total(f, S) = f[o] + Total(f, S \ {o})
    BY <1>2, <1>3, TotalWithout
  <2>3. Total(f, S \ {o}) \in Nat
    <3>1. IsFiniteSet(S \ {o}) /\ \A p \in S \ {o} : f[p] \in Nat
      BY <1>1, <1>3, FS_RemoveElement
    <3> QED BY <3>1, TotalNat
  <2> QED BY <1>1, <1>4, <1>6, <2>1, <2>2, <2>3
<1> QED BY <1>4, <1>5, <1>6, <1>7

(* Boxes of row x on the items that are left. *)
LinesLeft(left, d, x) == {i \in DOMAIN d.items : [line |-> i, row |-> x] \in left}
LeftOn(left, d, x) == Total(ItemsOf(d.items, x), LinesLeft(left, d, x))

LEMMA LeftToShip ==
    ASSUME NEW d, d.route \in Routes, d.items \in Seq(Routes), Itemised(d.route, d.items),
           NEW x \in Cells
    PROVE  /\ \A left : LeftOn(left, d, x) \in Nat
           /\ LeftOn({}, d, x) = 0
           /\ LeftOn(Items(d), d, x) = d.route[x]
<1>1. PICK f, S : f = ItemsOf(d.items, x) /\ S = DOMAIN d.items
  OBVIOUS
<1>2. IsFiniteSet(S) /\ \A i \in S : f[i] \in Nat /\ f[i] = d.items[i][x]
  BY <1>1, ItemTypes
<1>3. \A left : LeftOn(left, d, x) = Total(f, LinesLeft(left, d, x))
  BY <1>1 DEF LeftOn
<1>4. ASSUME NEW left
      PROVE  LeftOn(left, d, x) \in Nat
  <2>1. IsFiniteSet(LinesLeft(left, d, x)) /\ LinesLeft(left, d, x) \subseteq S
    BY <1>1, <1>2, FS_Subset DEF LinesLeft
  <2> QED BY <1>2, <1>3, <2>1, TotalNat
<1>5. LeftOn({}, d, x) = 0
  <2>1. LinesLeft({}, d, x) = {}
    BY DEF LinesLeft
  <2> QED BY <1>3, <2>1, TotalEmpty
<1>6. LeftOn(Items(d), d, x) = d.route[x]
  <2>1. LinesLeft(Items(d), d, x) = {i \in S : f[i] > 0}
    BY <1>1, <1>2 DEF LinesLeft, Items
  <2>2. PICK T : T = {i \in S : f[i] > 0}
    OBVIOUS
  <2>3. T \in SUBSET S /\ \A i \in S \ T : f[i] = 0
    BY <1>2, <2>2
  <2>4. Total(f, S) = Total(f, T)
    BY <1>2, <2>3, TotalOutside
  <2>5. d.route[x] = Total(f, S)
    BY <1>1 DEF Itemised
  <2> QED BY <1>3, <2>1, <2>2, <2>4, <2>5
<1> QED BY <1>4, <1>5, <1>6

Listed(d) == d.items \in Seq(Routes)

(* Taking an item off the list takes its boxes off its row. *)
WithoutItem(q, d, item) ==
    /\ LeftOn(q.left, d, item.row) =
         d.items[item.line][item.row] + LeftOn(q.left \ {item}, d, item.row)
    /\ \A x \in Cells :
         x # item.row => LeftOn(q.left \ {item}, d, x) = LeftOn(q.left, d, x)

LEMMA ItemTaken ==
    ASSUME NEW d, Listed(d), NEW q, OnRoute(q, d), NEW item, item \in q.left
    PROVE  WithoutItem(q, d, item)
<1>1. PICK i \in DOMAIN d.items, y \in Cells : item = [line |-> i, row |-> y]
  BY DEF OnRoute
<1>2. PICK f, S : f = ItemsOf(d.items, y) /\ S = LinesLeft(q.left, d, y)
  OBVIOUS
<1>3. i \in S /\ LinesLeft(q.left \ {item}, d, y) = S \ {i}
  BY <1>1, <1>2 DEF LinesLeft
<1>4. /\ IsFiniteSet(S) /\ \A j \in S : f[j] \in Int
      /\ f[i] = d.items[i][y]
  <2>1. S \subseteq DOMAIN d.items
    BY <1>2 DEF LinesLeft
  <2>2. IsFiniteSet(DOMAIN d.items) /\ \A j \in DOMAIN d.items : f[j] \in Nat
        /\ f[i] = d.items[i][y]
    BY <1>2, ItemTypes DEF Listed
  <2> QED BY <2>1, <2>2, FS_Subset
<1>5. Total(f, S) = f[i] + Total(f, S \ {i})
  BY <1>3, <1>4, TotalWithout
<1>6. ASSUME NEW x \in Cells, x # y
      PROVE  LinesLeft(q.left \ {item}, d, x) = LinesLeft(q.left, d, x)
  BY <1>1, <1>6 DEF LinesLeft
<1> QED BY <1>1, <1>2, <1>3, <1>4, <1>5, <1>6 DEF LeftOn, WithoutItem

(* What the request s has read still holds; what a shipment has written    *)
(* takes the boxes of its route off the bookings, item by item.            *)
Backed(s) ==
    /\ BookingsBacked
    /\ \A x \in Cells :
         /\ req[s].pc = "picking" => req[s].seen[x].booked = stock[x].booked
         /\ req[s].pc = "releasing" => (x \in req[s].rows \/ stock[x].booked = 0)
         /\ \A o \in Orders : Ships(req[s]) /\ req[s].order = o =>
              View(req[s], x).booked =
                stock[x].booked - orders[o].route[x] + LeftOn(req[s].left, orders[o], x)
         /\ req[s].pc = "deducting" /\ req[s].item.row = x =>
              req[s].seen.booked = View(req[s], x).booked
    /\ \A o \in Orders :
         /\ Ships(req[s]) /\ req[s].order = o => orders[o].status = "in_progress"
         /\ req[s].pc = "releasing" /\ orders[o].status = "in_progress" => o \in req[s].docs

LEMMA BackedNow ==
    BookingsBacked <=> \A x \in Cells : stock[x].booked = BackedBy(orders, Open, x)
BY DEF BookingsBacked, BackedBy

LEMMA BackedWillBe ==
    ASSUME NEW docs, docs = orders',
           \A x \in Cells :
             stock'[x].booked = BackedBy(docs, {o \in Orders : docs[o].status = "in_progress"}, x)
    PROVE  BookingsBacked'
BY DEF BookingsBacked, BackedBy, Open

LEMMA AtRestBacked ==
    ASSUME NEW s, BookingsBacked', req'[s] = Idle
    PROVE  Backed(s)'
BY DEF Backed, Idle, Ships

LEMMA BookBacked ==
    ASSUME NEW s \in Sessions, PickInv, Backed(s), BookOrder(s)
    PROVE  Backed(s)'
<1>1. PICK q : /\ q = req[s] /\ q.pc = "picking" /\ Picks(q)
               /\ stock' = BookedStock(q)
               /\ Booked(q).route \in Routes
               /\ orders' = [orders EXCEPT ![q.order] =
                               [status |-> "in_progress", route |-> Booked(q).route,
                                items |-> Booked(q).items]]
               /\ req' = [req EXCEPT ![s] = Idle]
  BY BookResult DEF PickInv
<1>2. PICK route \in Routes : route = Booked(q).route
  BY <1>1
<1>3. PICK o \in Orders : o = q.order
  BY <1>1 DEF Picks
<1>4. PICK new : new = orders'
  OBVIOUS
<1>5. /\ \A p \in Orders \ {o} : new[p] = orders[p]
      /\ new[o].status = "in_progress" /\ new[o].route = route
  BY <1>1, <1>2, <1>3, <1>4 DEF PickInv, Types
<1>6. orders[o].status = "none"
  BY <1>1, <1>3 DEF PickInv, PickedOnce
<1>7. \A p \in Orders : orders[p].route \in Routes /\ new[p].route \in Routes
  BY <1>5, OrderTypes DEF PickInv
<1>8. PICK before : before = Open /\ o \notin before /\ before \in SUBSET Orders
  <2>1. o \notin Open /\ Open \in SUBSET Orders
    BY <1>6 DEF Open
  <2> QED BY <2>1
<1>12. PICK after : after = {p \in Orders : new[p].status = "in_progress"}
  OBVIOUS
<1>13. after = before \cup {o}
  BY <1>5, <1>8, <1>12 DEF Open
<1>9. ASSUME NEW x \in Cells
      PROVE  stock'[x].booked = BackedBy(new, after, x)
  <2>1. Loaded(q)[x].booked = stock[x].booked
    BY <1>1 DEF Loaded, Backed
  <2>2. stock'[x].booked = stock[x].booked + route[x]
    BY <1>1, <1>2, <2>1, BookedRows DEF PickInv, Types
  <2>3. stock[x].booked = BackedBy(orders, before, x)
    BY <1>8, BackedNow DEF Backed
  <2>4. BackedBy(new, before, x) = BackedBy(orders, before, x)
    <3>1. \A p \in before : new[p].route = orders[p].route
      BY <1>5, <1>8
    <3>2. PICK docs : docs = orders
      OBVIOUS
    <3>3. \A p \in Orders : docs[p].route \in Routes
      BY <1>7, <3>2
    <3>4. \A p \in before : new[p].route = docs[p].route
      BY <3>1, <3>2
    <3>5. BackedBy(new, before, x) = BackedBy(docs, before, x)
      BY <1>8, <3>3, <3>4, BackedType, ZenonT(40)
    <3> QED BY <3>2, <3>5
  <2>5. /\ BackedBy(new, after \ {o}, x) = BackedBy(new, after, x) - route[x]
        /\ BackedBy(new, after, x) \in Nat /\ route[x] \in Nat
    <3>1. after \in SUBSET Orders /\ o \in after
      BY <1>8, <1>13
    <3> QED BY <1>5, <1>7, <3>1, BackedType
  <2>6. after \ {o} = before
    BY <1>8, <1>13
  <2>7. BackedBy(new, before, x) = BackedBy(new, after, x) - route[x]
    BY <2>5, <2>6
  <2>8. stock[x].booked = BackedBy(new, after, x) - route[x]
    BY <2>3, <2>4, <2>7
  <2> QED BY <2>2, <2>5, <2>8
<1>10. BookingsBacked'
  BY <1>4, <1>12, <1>9, BackedWillBe
<1>11. req'[s] = Idle
  BY <1>1 DEF PickInv, Types
<1> QED BY <1>10, <1>11, AtRestBacked

LEMMA ShipCommitBacked ==
    ASSUME NEW s \in Sessions, PickInv, Backed(s), ShipCommit(s)
    PROVE  Backed(s)'
<1>1. PICK q : \E o \in Orders :
        /\ q = req[s] /\ q.pc = "shipping" /\ q.left = {} /\ q.order = o /\ Proper(q)
        /\ orders[o].status # "none"
        /\ DOMAIN orders' = Orders /\ orders' = [p \in Orders |-> orders'[p]]
        /\ orders'[o] = [status |-> "completed", route |-> orders[o].route,
                         items |-> orders[o].items]
        /\ \A p \in Orders \ {o} : orders'[p] = orders[p]
        /\ stock' = [x \in Cells |-> View(q, x)]
        /\ req' = [req EXCEPT ![s] = Idle]
        /\ available' = available /\ ledger' \in [Batches -> Int]
  BY ShipCommitResult
<1>2. PICK o \in Orders :
        /\ q.order = o
        /\ orders'[o] = [status |-> "completed", route |-> orders[o].route,
                         items |-> orders[o].items]
        /\ \A p \in Orders \ {o} : orders'[p] = orders[p]
  BY <1>1
<1>3. PICK new : new = orders'
  OBVIOUS
<1>4. orders[o].status = "in_progress"
  BY <1>1, <1>2 DEF Backed, Ships
<1>5. PICK docs : docs = orders /\ \A p \in Orders : docs[p].route \in Routes
  BY OrderTypes DEF PickInv
<1>10. \A p \in Orders : new[p].route = docs[p].route
  BY <1>2, <1>3, <1>5
<1>6. PICK before : before = Open /\ o \in before /\ before \in SUBSET Orders
  BY <1>4 DEF Open
<1>11. PICK after : after = {p \in Orders : new[p].status = "in_progress"}
  OBVIOUS
<1>12. after = before \ {o}
  BY <1>2, <1>3, <1>6, <1>11 DEF Open
<1>7. ASSUME NEW x \in Cells
      PROVE  stock'[x].booked = BackedBy(new, after, x)
  <2>1. stock'[x].booked = stock[x].booked - orders[o].route[x]
    <3>1. View(q, x).booked = stock[x].booked - orders[o].route[x] + LeftOn({}, orders[o], x)
      BY <1>1, <1>2 DEF Backed, Ships
    <3>2. LeftOn({}, orders[o], x) = 0
      BY OrderTypes, LeftToShip DEF PickInv
    <3>3. stock[x].booked \in Nat /\ orders[o].route[x] \in Nat
      BY OrderTypes DEF PickInv, Types, Table, Row, Routes
    <3> QED BY <1>1, <3>1, <3>2, <3>3
  <2>2. stock[x].booked = BackedBy(docs, before, x)
    BY <1>5, <1>6, BackedNow DEF Backed
  <2>3. BackedBy(docs, before \ {o}, x) = BackedBy(docs, before, x) - docs[o].route[x]
    BY <1>5, <1>6, BackedType
  <2>4. BackedBy(new, after, x) = BackedBy(docs, after, x)
    <3>1. after \in SUBSET Orders
      BY <1>6, <1>12
    <3>2. \A p \in after : new[p].route = docs[p].route
      BY <1>10, <3>1
    <3> QED BY <1>5, <3>1, <3>2, BackedType
  <2> QED BY <1>5, <1>12, <2>1, <2>2, <2>3, <2>4
<1>8. BookingsBacked'
  BY <1>3, <1>7, <1>11, BackedWillBe
<1>9. req'[s] = Idle
  BY <1>1 DEF PickInv, Types
<1> QED BY <1>8, <1>9, AtRestBacked

LEMMA ReleaseBacked ==
    ASSUME NEW s \in Sessions, PickInv, Backed(s), ReleaseCommit(s)
    PROVE  Backed(s)'
<1>1. PICK q : /\ q = req[s] /\ q.pc = "releasing"
               /\ stock' = [x \in Cells |-> IF x \in q.rows THEN [stock[x] EXCEPT !.booked = 0]
                                            ELSE stock[x]]
               /\ \A o \in Orders :
                    orders'[o].status = IF o \in q.docs THEN "cancelled" ELSE orders[o].status
               /\ req' = [req EXCEPT ![s] = Idle]
  BY ReleaseResult
<1>2. PICK new : new = orders'
  OBVIOUS
<1>3. {o \in Orders : new[o].status = "in_progress"} = {}
  BY <1>1, <1>2 DEF Backed
<1>4. \A x \in Cells : stock'[x].booked = 0
  <2> SUFFICES ASSUME NEW x \in Cells PROVE stock'[x].booked = 0
    OBVIOUS
  <2>1. CASE x \in q.rows
    <3>1. [stock[x] EXCEPT !.booked = 0].booked = 0
      BY DEF PickInv, Types, Table, Row
    <3> QED BY <1>1, <2>1, <3>1
  <2>2. CASE x \notin q.rows
    BY <1>1, <2>2 DEF Backed
  <2> QED BY <2>1, <2>2
<1>5. \A x \in Cells : BackedBy(new, {}, x) = 0
  BY TotalEmpty DEF BackedBy
<1>6. BookingsBacked'
  BY <1>2, <1>3, <1>4, <1>5, BackedWillBe
<1>7. req'[s] = Idle
  BY <1>1 DEF PickInv, Types
<1> QED BY <1>6, <1>7, AtRestBacked

(* The boxes of the item come off the row's bookings: what backs them is   *)
(* enough, so nothing is cut off at zero.                                  *)
LEMMA DeductedRow ==
    ASSUME NEW s \in Sessions, PickInv, Backed(s), Batches = {NoBatch},
           req[s].pc = "deducting", NEW o \in Orders, o = req[s].order,
           NEW x \in Cells, x = req[s].item.row
    PROVE  /\ ShippedRow(x) = x
           /\ RowShipped(req[s]).booked =
                View(req[s], x).booked - orders[o].items[req[s].item.line][x]
<1>1. ShippedRow(x) = x
  BY DEF ShippedRow, Cells
<1>2. PICK q : q = req[s] /\ Proper(q) /\ q.pc = "deducting" /\ q.order = o /\ q.item.row = x
  BY DEF PickInv, Types
<1>3. PICK seen \in Row : seen = q.seen /\ seen.booked = View(q, x).booked
  BY <1>1, <1>2 DEF Proper, Backed
<1>4. PICK view : view = View(q, x) /\ view.booked = seen.booked
  BY <1>3
<1>5. PICK k \in Nat : k = orders[o].items[q.item.line][x] /\ k <= seen.booked
  <2>1. orders[o].status = "in_progress"
    BY <1>2 DEF Backed, Ships
  <2>2. PICK open : open = Open /\ o \in open /\ open \in SUBSET Orders
    BY <2>1 DEF Open
  <2>3. PICK docs : docs = orders /\ \A p \in Orders : docs[p].route \in Routes
    BY OrderTypes DEF PickInv
  <2>4. stock[x].booked = BackedBy(docs, open, x)
    BY <2>2, <2>3, BackedNow DEF Backed
  <2>5. docs[o].route[x] <= BackedBy(docs, open, x) /\ docs[o].route[x] \in Nat
        /\ BackedBy(docs, open, x) \in Nat
    BY <2>2, <2>3, BackedType
  <2>6. PICK d : d = orders[o] /\ d.route \in Routes /\ d.items \in Seq(Routes)
                 /\ Itemised(d.route, d.items)
    BY OrderTypes DEF PickInv
  <2>7. /\ OnRoute(q, d) /\ q.item \in q.left /\ d.items[q.item.line][x] \in Nat
    BY <1>2, <2>6, ItemAtHand
  <2>8. LeftOn(q.left, d, x) = d.items[q.item.line][x] + LeftOn(q.left \ {q.item}, d, x)
    <3>1. PICK item : item = q.item /\ item \in q.left /\ item.row = x
      BY <1>2, <2>7
    <3>2. Listed(d) /\ OnRoute(q, d) /\ item \in q.left
      BY <2>6, <2>7, <3>1 DEF Listed
    <3>3. WithoutItem(q, d, item)
      BY <3>2, ItemTaken
    <3> QED BY <3>1, <3>3 DEF WithoutItem
  <2>9. LeftOn(q.left \ {q.item}, d, x) \in Nat
    BY <2>6, LeftToShip
  <2>10. seen.booked = stock[x].booked - d.route[x] + LeftOn(q.left, d, x)
    BY <1>2, <1>3, <2>6 DEF Backed, Ships
  <2>11. PICK k, left \in Nat :
           /\ k = d.items[q.item.line][x] /\ left = LeftOn(q.left \ {q.item}, d, x)
           /\ seen.booked = stock[x].booked - d.route[x] + (k + left)
    BY <2>7, <2>8, <2>9, <2>10
  <2>12. PICK have, on \in Nat : have = stock[x].booked /\ on = d.route[x] /\ on <= have
    BY <2>3, <2>4, <2>5, <2>6
  <2>13. k <= seen.booked
    BY <2>11, <2>12
  <2> QED BY <2>6, <2>11, <2>13
<1>6. seen.qty \in Nat /\ seen.booked \in Nat
  BY DEF Row
<1>7. PICK b \in Nat : b = Max({0, seen.booked - k}) /\ b = seen.booked - k
  <2>1. PICK n \in Nat : n = seen.booked - k
    <3>1. PICK booked \in Nat : booked = seen.booked /\ k <= booked
      BY <1>5, <1>6
    <3>2. booked - k \in Nat
      BY <3>1
    <3> QED BY <3>1, <3>2
  <2>2. Max({0, n}) = n
    <3>1. 0 \in Int /\ n \in Int
      OBVIOUS
    <3> QED BY <3>1, MaxOfTwo
  <2> QED BY <2>1, <2>2
<1>8. PICK m \in Nat : m = Max({0, seen.qty - k}) /\ m >= seen.qty - k
  <2>1. PICK n \in Int : n = seen.qty - k
    <3>1. seen.qty - k \in Int
      BY <1>6
    <3> QED BY <3>1
  <2>2. Max({0, n}) \in Nat /\ Max({0, n}) >= n
    <3>1. 0 \in Int
      OBVIOUS
    <3>2. Max({0, n}) = IF 0 >= n THEN 0 ELSE n
      BY <3>1, MaxOfTwo
    <3> QED BY <3>2
  <2> QED BY <2>1, <2>2
<1>9. PICK first \in Row : first = Deduct(seen, k) /\ first.booked = b
  <2>1. Deduct(seen, k) = [seen EXCEPT !.qty = m, !.booked = b]
    BY <1>7, <1>8 DEF Deduct
  <2>2. seen = [qty |-> seen.qty, booked |-> seen.booked, open |-> seen.open]
        /\ seen.open \in BOOLEAN
    BY DEF Row
  <2>3. Deduct(seen, k) = [qty |-> m, booked |-> b, open |-> seen.open]
    BY <2>1, <2>2
  <2>4. b <= m
    <3>1. seen.qty \in Nat /\ seen.booked \in Nat /\ seen.booked <= seen.qty
      BY DEF Row
    <3>2. b = seen.booked - k /\ k \in Nat
      BY <1>5, <1>7
    <3> QED BY <1>8, <3>1, <3>2
  <2> QED BY <2>2, <2>3, <2>4 DEF Row
<1>10. PICK second : second = Adjust(first, -k) /\ second.booked = b
  <2>1. Adjust(first, -k).booked = first.booked
    BY DEF Adjust, Row
  <2> QED BY <1>9, <2>1
<1>11. RowShipped(q) = Merge(seen, second, view)
  <2>1. RowShipped(q) = RowsWritten(q, view)[2]
    BY <1>1, <1>2, <1>4 DEF RowShipped
  <2> QED BY <1>2, <1>3, <1>5, <1>9, <1>10, <2>1 DEF RowsWritten
<1>12. Merge(seen, second, view).booked = IF b = seen.booked THEN view.booked ELSE b
  BY <1>10 DEF Merge
<1> QED BY <1>1, <1>2, <1>3, <1>4, <1>5, <1>7, <1>11, <1>12, <1>6

(* A step that books nothing and closes no document leaves the backing.    *)
LEMMA RequestBacked ==
    ASSUME NEW s, PickInv, Backed(s), UNCHANGED <<stock, orders>>,
           NEW v, v = req'[s],
           \A x \in Cells :
             /\ v.pc = "picking" => v.seen[x].booked = stock[x].booked
             /\ v.pc = "releasing" => (x \in v.rows \/ stock[x].booked = 0)
             /\ \A o \in Orders : Ships(v) /\ v.order = o =>
                  View(v, x).booked =
                    stock[x].booked - orders[o].route[x] + LeftOn(v.left, orders[o], x)
             /\ v.pc = "deducting" /\ v.item.row = x => v.seen.booked = View(v, x).booked,
           \A o \in Orders :
             /\ Ships(v) /\ v.order = o => orders[o].status = "in_progress"
             /\ v.pc = "releasing" /\ orders[o].status = "in_progress" => o \in v.docs
    PROVE  Backed(s)'
<1>1. BookingsBacked'
  <2>1. BookingsBacked
    BY DEF Backed
  <2> QED BY <2>1 DEF BookingsBacked, Open
<1>2. \A x \in Cells : View(req[s], x)' = View(v, x)
  BY DEF View
<1>3. /\ stock' = stock /\ orders' = orders /\ v = req'[s]
  OBVIOUS
<1> QED BY <1>1, <1>2, <1>3 DEF Backed, View

LEMMA ShipWriteBacked ==
    ASSUME NEW s \in Sessions, PickInv, Backed(s), Batches = {NoBatch}, ShipWrite(s)
    PROVE  Backed(s)'
<1>1. PICK q : q = req[s] /\ q.pc = "deducting" /\ Proper(q) /\ UNCHANGED <<stock, orders>>
  BY ShipWriteResult
<1>2. PICK row : row = RowShipped(q)
  OBVIOUS
<1>3. PICK v : DeductedBy(v, q, row) /\ v = req'[s]
  <2>1. PICK v : DeductedBy(v, q, row) /\ req' = [req EXCEPT ![s] = v]
    BY <1>1, <1>2, ShipWriteResult
  <2> QED BY <2>1 DEF PickInv, Types
<1>4. PICK o \in Orders, y \in Cells : o = q.order /\ y = q.item.row
  BY <1>1, ItemAtHand
<1>5. PICK d : d = orders[o] /\ d.route \in Routes /\ d.items \in Seq(Routes)
               /\ Itemised(d.route, d.items)
  BY OrderTypes DEF PickInv
<1>6. PICK k \in Nat : k = d.items[q.item.line][y] /\ OnRoute(q, d) /\ q.item \in q.left
  BY <1>1, <1>4, <1>5, ItemAtHand
<1>7. ShippedRow(y) = y /\ row.booked = View(q, y).booked - k
  BY <1>1, <1>2, <1>4, <1>5, <1>6, DeductedRow
<1>8. /\ v.pc = "shipping" /\ v.order = o /\ v.left = q.left \ {q.item}
      /\ v.mine = [z \in DOMAIN q.mine \cup {y} |-> IF z = y THEN row ELSE q.mine[z]]
  BY <1>3, <1>4, <1>7 DEF DeductedBy
<1>11. /\ LeftOn(q.left, d, y) = k + LeftOn(q.left \ {q.item}, d, y)
       /\ \A x \in Cells : x # y => LeftOn(q.left \ {q.item}, d, x) = LeftOn(q.left, d, x)
  <2>1. PICK item : item = q.item /\ item \in q.left /\ item.row = y
    BY <1>4, <1>6
  <2>2. Listed(d) /\ OnRoute(q, d) /\ item \in q.left
    BY <1>5, <1>6, <2>1 DEF Listed
  <2>3. WithoutItem(q, d, item)
    BY <2>2, ItemTaken
  <2> QED BY <1>6, <2>1, <2>3 DEF WithoutItem
<1>9. \A x \in Cells :
        View(v, x).booked = stock[x].booked - d.route[x] + LeftOn(v.left, d, x)
  <2> SUFFICES ASSUME NEW x \in Cells
               PROVE  View(v, x).booked = stock[x].booked - d.route[x] + LeftOn(v.left, d, x)
    OBVIOUS
  <2>1. View(q, x).booked = stock[x].booked - d.route[x] + LeftOn(q.left, d, x)
    BY <1>1, <1>4, <1>5 DEF Backed, Ships
  <2>2. CASE x = y
    <3>1. View(v, x) = row
      BY <1>8, <2>2 DEF View
    <3>2. LeftOn(q.left, d, x) = k + LeftOn(v.left, d, x)
      BY <1>4, <1>6, <1>8, <1>11, <2>2
    <3>3. /\ LeftOn(v.left, d, x) \in Nat /\ stock[x].booked \in Nat /\ d.route[x] \in Nat
      BY <1>5, LeftToShip DEF PickInv, Types, Table, Row, Routes
    <3> QED BY <1>7, <2>1, <2>2, <3>1, <3>2, <3>3
  <2>3. CASE x # y
    <3>1. View(v, x) = View(q, x)
      BY <1>8, <2>3 DEF View
    <3>2. LeftOn(v.left, d, x) = LeftOn(q.left, d, x)
      BY <1>4, <1>8, <1>11, <2>3
    <3> QED BY <2>1, <3>1, <3>2
  <2> QED BY <2>2, <2>3
<1>10. orders[o].status = "in_progress"
  BY <1>1, <1>4 DEF Backed, Ships
<1>12. \A x \in Cells :
         /\ v.pc = "picking" => v.seen[x].booked = stock[x].booked
         /\ v.pc = "releasing" => (x \in v.rows \/ stock[x].booked = 0)
         /\ \A p \in Orders : Ships(v) /\ v.order = p =>
              View(v, x).booked =
                stock[x].booked - orders[p].route[x] + LeftOn(v.left, orders[p], x)
         /\ v.pc = "deducting" /\ v.item.row = x => v.seen.booked = View(v, x).booked
  BY <1>5, <1>8, <1>9
<1>13. \A p \in Orders :
         /\ Ships(v) /\ v.order = p => orders[p].status = "in_progress"
         /\ v.pc = "releasing" /\ orders[p].status = "in_progress" => p \in v.docs
  BY <1>8, <1>10
<1> QED BY <1>1, <1>3, <1>12, <1>13, RequestBacked

LEMMA ShipReadBacked ==
    ASSUME NEW s \in Sessions, PickInv, Backed(s), Batches = {NoBatch}, ShipRead(s)
    PROVE  Backed(s)'
<1>1. PICK q : q = req[s] /\ q.pc = "shipping" /\ Proper(q) /\ UNCHANGED <<stock, orders>>
  BY ShipReadResult
<1>2. PICK item, v : item \in q.left /\ ItemRead(v, q, item) /\ req' = [req EXCEPT ![s] = v]
  BY <1>1, ShipReadResult
<1>3. /\ v.pc = "deducting" /\ v.order = q.order /\ v.left = q.left /\ v.mine = q.mine
      /\ v.item = item /\ v.seen = View(q, ShippedRow(item.row))
  BY <1>2 DEF ItemRead
<1>4. v = req'[s]
  BY <1>2 DEF PickInv, Types
<1>5. PICK o \in Orders : o = q.order
  BY <1>1 DEF Proper, Ships
<1>6. /\ orders[o].status = "in_progress"
      /\ \A x \in Cells :
           View(q, x).booked = stock[x].booked - orders[o].route[x] + LeftOn(q.left, orders[o], x)
  BY <1>1, <1>5 DEF Backed, Ships
<1>7. \A x \in Cells : View(v, x) = View(q, x)
  BY <1>3 DEF View
<1>8. \A x \in Cells : ShippedRow(x) = x
  BY DEF ShippedRow, Cells
<1> QED BY <1>1, <1>3, <1>4, <1>5, <1>6, <1>7, <1>8, RequestBacked

LEMMA ShipOrderBacked ==
    ASSUME NEW s \in Sessions, PickInv, Backed(s), NEW o \in Orders, ShipOrder(s, o)
    PROVE  Backed(s)'
<1>1. PICK v : v = [pc |-> "shipping", order |-> o, left |-> Items(orders[o]),
                    mine |-> [x \in {} |-> stock[x]]]
  OBVIOUS
<1>2. /\ v.pc = "shipping" /\ v.order = o /\ DOMAIN v.mine = {} /\ v.left = Items(orders[o])
      /\ req' = [req EXCEPT ![s] = v] /\ UNCHANGED <<stock, orders>>
      /\ orders[o].status = "in_progress"
  BY <1>1 DEF ShipOrder
<1>3. v = req'[s]
  BY <1>2 DEF PickInv, Types
<1>4. \A x \in Cells : View(v, x) = stock[x]
  BY <1>2 DEF View
<1>5. ASSUME NEW x \in Cells
      PROVE  stock[x].booked = stock[x].booked - orders[o].route[x] + LeftOn(v.left, orders[o], x)
  <2>1. orders[o].route[x] \in Nat /\ stock[x].booked \in Nat
    BY OrderTypes DEF PickInv, Types, Routes, Table, Row
  <2>2. PICK d : d = orders[o] /\ d.route \in Routes /\ d.items \in Seq(Routes)
                 /\ Itemised(d.route, d.items)
    BY OrderTypes DEF PickInv
  <2>3. LeftOn(Items(d), d, x) = d.route[x]
    BY <2>2, LeftToShip
  <2> QED BY <1>2, <2>1, <2>2, <2>3
<1> QED BY <1>2, <1>3, <1>4, <1>5, RequestBacked

(* Movements keep the bookings, and what a request has read of them. *)
LEMMA MoveBacked ==
    ASSUME NEW s \in Sessions, PickInv, Backed(s), MoveGoods
    PROVE  Backed(s)'
<1>1. PICK x \in Cells, y \in Cells, n \in Nat : Move(x, y, n)
  BY Moves
<1>2. stock' \in Table /\ \A z \in Cells : stock'[z].booked = stock[z].booked
  <2>1. /\ stock' \in Table
        /\ \A z \in Cells \ {x, y} : stock'[z] = stock[z]
        /\ stock'[x].booked = stock[x].booked /\ stock'[y].booked = stock[y].booked
    BY <1>1, MovedRows DEF PickInv, Types
  <2> QED BY <2>1
<1>3. orders' = orders /\ req' = req
  BY <1>1 DEF Move
<1>4. BookingsBacked'
  <2>1. BookingsBacked
    BY DEF Backed
  <2> QED BY <1>2, <1>3, <2>1 DEF BookingsBacked, Open
<1>5. \A z \in Cells : View(req[s], z)'.booked = View(req[s], z).booked
  BY <1>2, <1>3 DEF View
<1> QED BY <1>2, <1>3, <1>4, <1>5 DEF Backed, View

LEMMA BackedStep ==
    ASSUME NEW s, Sessions = {s}, Batches = {NoBatch} \/ "ship" \notin Handlers,
           PickInv, Unused, Backed(s), [Next]_vars
    PROVE  Backed(s)'
<1>1. CASE UNCHANGED vars
  <2>1. UNCHANGED <<stock, orders, req>>
    BY <1>1 DEF vars
  <2>2. PICK v : v = req[s] /\ v = req'[s]
    BY <2>1
  <2> QED BY <2>1, <2>2, RequestBacked DEF Backed
<1>2. CASE \E o \in Orders : PlanOrder(s, o)
  <2>1. PICK o \in Orders : PlanOrder(s, o)
    BY <1>2
  <2>2. PICK v : v = [pc |-> "picking", order |-> o, seen |-> stock, ok |-> available]
    OBVIOUS
  <2>3. v.pc = "picking" /\ v.seen = stock /\ req' = [req EXCEPT ![s] = v]
        /\ UNCHANGED <<stock, orders>>
    BY <2>1, <2>2 DEF PlanOrder
  <2>4. v = req'[s]
    BY <2>3 DEF PickInv, Types
  <2> QED BY <2>3, <2>4, RequestBacked DEF Ships
<1>3. CASE BookOrder(s)
  BY <1>3, BookBacked
<1>4. CASE \E o \in Orders : ShipOrder(s, o)
  BY <1>4, ShipOrderBacked
<1>5. CASE ShipRead(s)
  <2>1. Batches = {NoBatch}
    BY <1>5 DEF ShipRead, Unused, Ships
  <2> QED BY <1>5, <2>1, ShipReadBacked
<1>6. CASE ShipWrite(s)
  <2>1. Batches = {NoBatch}
    BY <1>6 DEF ShipWrite, Unused, Ships
  <2> QED BY <1>6, <2>1, ShipWriteBacked
<1>7. CASE ShipCommit(s)
  BY <1>7, ShipCommitBacked
<1>8. CASE ReleaseRead(s)
  <2>1. PICK v : v = [pc |-> "releasing", docs |-> Open,
                      rows |-> {x \in Cells : stock[x].booked > 0}]
    OBVIOUS
  <2>2. /\ v.pc = "releasing" /\ v.docs = Open /\ v.rows = {x \in Cells : stock[x].booked > 0}
        /\ req' = [req EXCEPT ![s] = v] /\ UNCHANGED <<stock, orders>>
    BY <1>8, <2>1 DEF ReleaseRead
  <2>3. v = req'[s]
    BY <2>2 DEF PickInv, Types
  <2>4. \A x \in Cells : x \in v.rows \/ stock[x].booked = 0
    <3>1. \A x \in Cells : stock[x].booked \in Nat
      BY DEF PickInv, Types, Table, Row
    <3> QED BY <2>2, <3>1
  <2>5. \A o \in Orders : orders[o].status = "in_progress" => o \in v.docs
    BY <2>2 DEF Open
  <2> QED BY <2>2, <2>3, <2>4, <2>5, RequestBacked DEF Ships
<1>9. CASE ReleaseCommit(s)
  BY <1>9, ReleaseBacked
<1>10. CASE Rollback(s) \/ (\E b \in Batches : BlockBatch(b) \/ ReleaseBatch(b))
  <2>1. UNCHANGED <<stock, orders>> /\ (req' = req \/ req' = [req EXCEPT ![s] = Idle])
    BY <1>10 DEF Rollback, End, BlockBatch, ReleaseBatch
  <2>2. CASE req' = req
    <3>1. PICK v : v = req[s] /\ v = req'[s]
      BY <2>2
    <3> QED BY <2>1, <3>1, RequestBacked DEF Backed
  <2>3. CASE req' = [req EXCEPT ![s] = Idle]
    <3>1. req'[s] = Idle
      BY <2>3 DEF PickInv, Types
    <3>2. BookingsBacked'
      <4>1. BookingsBacked
        BY DEF Backed
      <4> QED BY <2>1, <4>1 DEF BookingsBacked, Open
    <3> QED BY <3>1, <3>2, AtRestBacked
  <2> QED BY <2>1, <2>2, <2>3
<1>11. CASE MoveGoods
  BY <1>11, MoveBacked
<1> QED BY <1>1, <1>2, <1>3, <1>4, <1>5, <1>6, <1>7, <1>8, <1>9, <1>10, <1>11
        DEF Next, Pick, Ship, Release

(* With one request at a time, beside the movements and the quarantine,    *)
(* what is booked on a row is what the open orders were given of it, from  *)
(* pick to shipment or release.  A shipment deducts the row without a      *)
(* batch (confirm_shipment_endpoint passes none), so the stock shipped     *)
(* from must have none.                                                    *)
THEOREM BookingsBackedAlone ==
    ASSUME NEW s, Sessions = {s}, Batches = {NoBatch} \/ "ship" \notin Handlers
    PROVE  Spec => []BookingsBacked
<1> DEFINE Inv == PickInv /\ Unused /\ Backed(s)
<1>1. Init => Inv
  <2> SUFFICES ASSUME Init PROVE Backed(s)
    BY PickStart, UnusedStart
  <2>1. req[s] = Idle
    BY DEF Init
  <2>2. Open = {} /\ \A x \in Cells : stock[x].booked = 0
    BY DEF Init, Open, NoOrder
  <2>3. BookingsBacked
    BY <2>2, TotalEmpty DEF BookingsBacked
  <2> QED BY <2>1, <2>3 DEF Backed, Idle, Ships, Init, NoOrder
<1>2. Inv /\ [Next]_vars => Inv'
  BY PickStep, UnusedStep, BackedStep
<1>3. Inv => BookingsBacked
  BY DEF Backed
<1> HIDE DEF Inv
<1> QED BY <1>1, <1>2, <1>3, PTL DEF Spec

-----------------------------------------------------------------------------
(* What the order list, the pick task and the wave find *)

(* Boxes of an order line. *)
LEMMA BoxesHoldPieces ==
    ASSUME NEW a \in Nat, NEW p \in Nat \ {0}
    PROVE  LET n == (a + p - 1) \div p IN n \in Nat /\ a \in (n - 1) * p + 1 .. n * p
<1>1. PICK n \in Nat : n = (a + p - 1) \div p
  OBVIOUS
<1>2. n * p <= a + p - 1
  BY <1>1, SMTT(30)
<1>3. a + p - 1 < n * p + p
  BY <1>1, SMTT(30)
<1>4. a \in (n - 1) * p + 1 .. n * p
  BY <1>2, <1>3, SMTT(30)
<1> QED BY <1>1, <1>4

FreeNow == [x \in Cells |-> Avail(stock[x])]
FreeRows(records) ==
    {x \in CellsOf(records) : x[2] \in available \cup {NoBatch} /\ Avail(stock[x]) > 0}

LEMMA FreeNowType ==
    ASSUME stock \in Table
    PROVE  /\ \A x \in Cells : FreeNow[x] \in Nat /\ FreeNow[x] = Avail(stock[x])
           /\ \A S \in SUBSET Cells : IsFiniteSet(S) /\ Total(FreeNow, S) \in Nat
<1>1. \A x \in Cells : FreeNow[x] \in Nat /\ FreeNow[x] = Avail(stock[x])
  BY RowsAreObjects DEF FreeNow, Table
<1>2. ASSUME NEW S \in SUBSET Cells
      PROVE  IsFiniteSet(S) /\ Total(FreeNow, S) \in Nat
  <2>1. IsFiniteSet(S) /\ \A x \in S : FreeNow[x] \in Nat
    BY <1>1, FiniteTables, FS_Subset
  <2> QED BY <2>1, TotalNat
<1> QED BY <1>1, <1>2

(* A plan from some records' rows: the free boxes of their available       *)
(* batches, up to what is asked for.                                       *)
LEMMA PlanFinds ==
    ASSUME stock \in Table, NEW records, NEW n \in Nat
    PROVE  /\ FreeRows(records) \in SUBSET Cells
           /\ Total(PlanFrom(records, n), Cells) =
                IF n <= Total(FreeNow, FreeRows(records)) THEN n
                ELSE Total(FreeNow, FreeRows(records))
           /\ \A x \in Cells : /\ PlanFrom(records, n)[x] \in Nat
                               /\ x \notin CellsOf(records) => PlanFrom(records, n)[x] = 0
                               /\ PlanFrom(records, n)[x] <= Avail(stock[x])
<1> DEFINE rows == [x \in Cells |-> IF x \in CellsOf(records) THEN stock[x] ELSE NoStock]
<1>1. rows \in [Cells -> Object]
  <2>1. NoStock \in Object
    BY DEF NoStock, Object
  <2> QED BY <2>1, RowsAreObjects DEF Table
<1>2. PlanFrom(records, n) = Taken(n, rows, available)
  BY DEF PlanFrom, Taken
<1>3. /\ Pickable(rows, available) = FreeRows(records) /\ FreeRows(records) \in SUBSET Cells
      /\ \A x \in FreeRows(records) : rows[x] = stock[x]
  BY DEF Pickable, FreeRows, CellsOf, NoStock, Avail
<1>4. PICK st \in [Cells -> Object] : st = rows
  BY <1>1
<1> HIDE DEF rows
<1>5. PICK P \in SUBSET Cells : P = FreeRows(records) /\ P = Pickable(st, available)
  BY <1>3, <1>4
<1>6. Total(Free(st), P) = Total(FreeNow, P)
  <2>1. \A x \in P : FreeNow[x] \in Nat /\ Free(st)[x] = FreeNow[x]
    BY <1>3, <1>4, <1>5, FreeNowType, FreeBoxes
  <2>2. \A x \in P : FreeNow[x] \in Int /\ Free(st)[x] = FreeNow[x]
    BY <2>1
  <2>3. IsFiniteSet(P)
    BY <1>5, FreeNowType
  <2> QED BY <2>2, <2>3, TotalSame
<1>7. Total(PlanFrom(records, n), Cells) = IF n <= Total(FreeNow, P) THEN n ELSE Total(FreeNow, P)
  <2>1. Total(Taken(n, st, available), Cells) =
          IF n <= Total(Free(st), P) THEN n ELSE Total(Free(st), P)
    BY <1>5, TakeAll
  <2> QED BY <1>2, <1>4, <1>6, <2>1
<1>8. ASSUME NEW x \in Cells
      PROVE  /\ PlanFrom(records, n)[x] \in Nat
             /\ x \notin CellsOf(records) => PlanFrom(records, n)[x] = 0
             /\ PlanFrom(records, n)[x] <= Avail(stock[x])
  <2>1. PICK t : t = Take(x, n, st, available) /\ PlanFrom(records, n)[x] = t
    BY <1>2, <1>4 DEF Taken
  <2>2. Avail(stock[x]) \in Nat
    BY FreeNowType
  <2>3. CASE x \notin P
    <3>1. t = 0
      BY <1>5, <2>1, <2>3, TakeOfRow
    <3> QED BY <2>1, <2>2, <3>1
  <2>4. CASE x \in P
    <3>1. x \in CellsOf(records) /\ st[x] = stock[x]
      BY <1>3, <1>4, <1>5, <2>4 DEF FreeRows
    <3>2. /\ TakenEarlier(x, st, available) \in Nat /\ t \in Nat
          /\ t = IF n <= TakenEarlier(x, st, available) THEN 0
                 ELSE IF Avail(st[x]) <= n - TakenEarlier(x, st, available) THEN Avail(st[x])
                 ELSE n - TakenEarlier(x, st, available)
      BY <1>5, <2>1, <2>4, TakeOfRow
    <3>3. t <= Avail(stock[x])
      BY <2>2, <3>1, <3>2
    <3> QED BY <2>1, <3>1, <3>2, <3>3
  <2> QED BY <2>3, <2>4
<1> QED BY <1>3, <1>5, <1>7, <1>8

(* The boxes shown are those to be had and those of blocked batches. *)
LEMMA ShownIsFreeOrBlocked ==
    ASSUME stock \in Table, NEW r
    PROVE  /\ Blocked(r) \in Nat
           /\ Shown(r) = Total(FreeNow, FreeRows(Siblings(r))) + Blocked(r)
<1> DEFINE C == CellsOf(Siblings(r))
           P == FreeRows(Siblings(r))
           B == {x \in C : x[2] \notin available \cup {NoBatch}}
           g == [x \in Cells |-> Max({0, Avail(stock[x])})]
<1>1. /\ C \in SUBSET Cells /\ P \in SUBSET C /\ B \in SUBSET C /\ P \cap B = {}
      /\ P \cup B \in SUBSET C
  BY DEF CellsOf, FreeRows
<1>2. \A S \in SUBSET C : IsFiniteSet(S) /\ Total(FreeNow, S) \in Nat
  <2>1. \A S \in SUBSET C : S \in SUBSET Cells
    BY <1>1
  <2> QED BY <2>1, FreeNowType
<1>3. \A x \in C : FreeNow[x] \in Nat /\ FreeNow[x] = Avail(stock[x])
  BY <1>1, FreeNowType
<1>4. \A x \in C : FreeNow[x] \in Int
  BY <1>3
<1>5. Shown(r) = Total(FreeNow, C)
  BY DEF Shown, RowFree, FreeNow
<1>6. Blocked(r) = Total(FreeNow, B)
  <2>1. \A x \in B : g[x] = FreeNow[x] /\ FreeNow[x] \in Int
    <3> SUFFICES ASSUME NEW x \in B PROVE g[x] = FreeNow[x] /\ FreeNow[x] \in Int
      OBVIOUS
    <3>1. PICK a \in Nat : a = FreeNow[x] /\ a = Avail(stock[x]) /\ x \in Cells
      BY <1>1, <1>3
    <3>2. Max({0, a}) = a
      BY MaxOfTwo
    <3> QED BY <3>1, <3>2
  <2>2. Blocked(r) = Total(g, B)
    BY DEF Blocked
  <2>3. IsFiniteSet(B)
    BY <1>1, <1>2
  <2> HIDE DEF B, g
  <2> QED BY <2>1, <2>2, <2>3, TotalSame
<1>7. Total(FreeNow, C) = Total(FreeNow, P \cup B)
  <2>1. \A x \in C \ (P \cup B) : FreeNow[x] = 0
    BY <1>3 DEF FreeRows
  <2>2. \A x \in P \cup B : FreeNow[x] \in Int
    BY <1>1, <1>4
  <2>3. IsFiniteSet(C)
    BY <1>2
  <2> HIDE DEF B, C, P
  <2> QED BY <1>1, <2>1, <2>2, <2>3, TotalOutside
<1>8. Total(FreeNow, P \cup B) = Total(FreeNow, P) + Total(FreeNow, B)
  <2>1. IsFiniteSet(P) /\ IsFiniteSet(B) /\ \A x \in P \cup B : FreeNow[x] \in Int
    BY <1>1, <1>2, <1>4
  <2> HIDE DEF B, C, P
  <2> QED BY <1>1, <2>1, TotalUnion
<1>9. Total(FreeNow, B) \in Nat
  BY <1>1, <1>2
<1> QED BY <1>5, <1>6, <1>7, <1>8, <1>9

LEMMA OrdersFind == stock \in Table => OrdersFindTheirStock
<1> SUFFICES ASSUME stock \in Table, NEW line \in OrderLines, NEW r \in Resolved(line)
             PROVE  LET n == BoxesFor(line)
                        taken == Total(TaskPlan(r, n), Cells) IN
                    /\ taken <= Shown(r)
                    /\ Min({n, Shown(r)}) - taken <= Blocked(r)
                    /\ taken = n => line.amount \in (n - 1) * line.pack + 1 .. n * line.pack \cup {0}
                    /\ Total(WavePlan(r, n), Cells) <= taken
                    /\ \A other \in OrderLines : \A q \in Resolved(other) \ {r} : \A x \in Cells :
                         WavePlan(r, n)[x] + WavePlan(q, BoxesFor(other))[x]
                           <= Max({0, Avail(stock[x])})
  BY DEF OrdersFindTheirStock
<1>1. \A l \in OrderLines : BoxesFor(l) \in Nat
                            /\ l.amount \in (BoxesFor(l) - 1) * l.pack + 1 .. BoxesFor(l) * l.pack
  BY OrdersAssumption, BoxesHoldPieces DEF OrdersAssumption, BoxesFor
<1>2. PICK n \in Nat : n = BoxesFor(line)
  BY <1>1
<1>3. r \in Siblings(r)
  BY DEF Resolved, Siblings
<1>4. PICK P, W : /\ P = FreeRows(Siblings(r)) /\ W = FreeRows({r})
                  /\ P \in SUBSET Cells /\ W \in SUBSET P
  <2>1. FreeRows(Siblings(r)) \in SUBSET Cells /\ FreeRows({r}) \in SUBSET FreeRows(Siblings(r))
    BY <1>3 DEF FreeRows, CellsOf
  <2> QED BY <2>1
<1>5. PICK p \in Nat, w \in Nat : p = Total(FreeNow, P) /\ w = Total(FreeNow, W) /\ w <= p
  <2>1. IsFiniteSet(P) /\ \A x \in P : FreeNow[x] \in Nat
    BY <1>4, FreeNowType
  <2>2. Total(FreeNow, W) <= Total(FreeNow, P)
    BY <1>4, <2>1, TotalPart
  <2>3. Total(FreeNow, P) \in Nat /\ Total(FreeNow, W) \in Nat
    BY <1>4, FreeNowType
  <2> QED BY <2>2, <2>3
<1>6. PICK taken \in Nat : /\ taken = Total(TaskPlan(r, n), Cells)
                           /\ taken = IF n <= p THEN n ELSE p
  <2>1. Total(TaskPlan(r, n), Cells) = IF n <= p THEN n ELSE p
    BY <1>4, <1>5, PlanFinds DEF TaskPlan
  <2> QED BY <2>1
<1>7. Total(WavePlan(r, n), Cells) = IF n <= w THEN n ELSE w
  BY <1>4, <1>5, PlanFinds DEF WavePlan
<1>8. PICK blocked \in Nat : blocked = Blocked(r) /\ Shown(r) = p + blocked
  BY <1>4, <1>5, ShownIsFreeOrBlocked
<1>9. Min({n, p + blocked}) = IF n <= p + blocked THEN n ELSE p + blocked
  BY MinOfTwo
<1>10. taken <= Shown(r) /\ Min({n, Shown(r)}) - taken <= Blocked(r)
       /\ Total(WavePlan(r, n), Cells) <= taken
  BY <1>5, <1>6, <1>7, <1>8, <1>9
<1>11. line.amount \in (n - 1) * line.pack + 1 .. n * line.pack
  BY <1>1, <1>2
<1>12. ASSUME NEW other \in OrderLines, NEW q \in Resolved(other) \ {r}, NEW x \in Cells
       PROVE  WavePlan(r, n)[x] + WavePlan(q, BoxesFor(other))[x] <= Max({0, Avail(stock[x])})
  <2>1. PICK m \in Nat : m = BoxesFor(other)
    BY <1>1
  <2>2. PICK a \in Nat : a = Avail(stock[x])
    BY FreeNowType
  <2>3. PICK i \in Nat : i = WavePlan(r, n)[x] /\ i <= a /\ (x \notin CellsOf({r}) => i = 0)
    BY <2>2, PlanFinds DEF WavePlan
  <2>4. PICK j \in Nat : j = WavePlan(q, m)[x] /\ j <= a /\ (x \notin CellsOf({q}) => j = 0)
    BY <2>1, <2>2, PlanFinds DEF WavePlan
  <2>5. x \notin CellsOf({r}) \/ x \notin CellsOf({q})
    BY DEF CellsOf
  <2>6. Max({0, a}) = a
    BY MaxOfTwo
  <2> QED BY <2>1, <2>2, <2>3, <2>4, <2>5, <2>6
<1> QED BY <1>2, <1>6, <1>10, <1>11, <1>12

(* A pick task finds what the order list showed but for blocked batches,   *)
(* in whole boxes, and no wave plans a box twice: for any records, lines   *)
(* and stock, whatever requests overlap.                                   *)
THEOREM OrderLinesFindStock == Spec => []OrdersFindTheirStock
<1>1. PickInv => OrdersFindTheirStock
  BY OrdersFind DEF PickInv, Types
<1> QED BY <1>1, PickInvHolds, PTL
=============================================================================
