--------------------------- MODULE PutawayProofs ---------------------------
(***************************************************************************)
(* Proofs about Putaway, for any number of overlapping requests, workers,  *)
(* locations, products and reservations.                                   *)
(***************************************************************************)
EXTENDS Slotting, SumTheorems

ResvRow == [status : ReservationStatus, code : Codes, loc : Locations, overdue : BOOLEAN]

(* Open transactions work on reservations that exist, so their codes are   *)
(* fixed: only an identifier no row has yet is given to a new reservation. *)
Existing ==
    \A p \in Procs :
      /\ req[p].pc \in {"confirming", "placing", "cancelling"} =>
           resv[req[p].res].status # "none"
      /\ req[p].pc \in {"reserving", "sweeping"} =>
           \A r \in req[p].stale : resv[r].status # "none"

TypeInv == TypeOK /\ Existing

-----------------------------------------------------------------------------
(* Helpers *)

LEMMA BoxesType == ASSUME NEW c \in Codes PROVE Boxes(c) \in Nat /\ Boxes(c) > 0
BY PutawayAssumption DEF PutawayAssumption, Boxes

LEMMA ExistingRow ==
    ASSUME TypeOK, NEW r \in Reservations, resv[r].status # "none"
    PROVE  resv[r] \in ResvRow
BY DEF TypeOK, ResvRow, NoReservation

LEMMA RequestFields ==
    ASSUME TypeOK, NEW p \in Procs
    PROVE  LET q == req[p] IN
           /\ q.pc = "reserving" =>
                q.code \in Codes /\ q.loc \in Locations /\ q.stale \subseteq Reservations
           /\ q.pc = "confirming" =>
                /\ q.res \in Reservations /\ q.loc \in Locations
                /\ q.redirect \in BOOLEAN /\ q.seen \in LocationStatus
           /\ q.pc = "placing" =>
                /\ q.res \in Reservations /\ q.loc \in Locations
                /\ q.redirect \in BOOLEAN /\ q.fresh \in BOOLEAN /\ q.qty \in Nat
           /\ q.pc = "cancelling" => q.res \in Reservations
           /\ q.pc = "sweeping" => q.stale \subseteq Reservations
<1>1. req[p] \in Requests
  BY DEF TypeOK
<1> QED BY <1>1 DEF Requests

LEMMA RowType ==
    ASSUME NEW l \in Locations, NEW c \in Codes, Known(c)
    PROVE  <<l, ProductOf[c]>> \in Rows
BY DEF Rows, Known

LEMMA OverwriteType ==
    ASSUME TypeOK, NEW R \in SUBSET Reservations, NEW st \in ReservationStatus,
           \A r \in R : resv[r].status # "none",
           NEW new, new = Overwrite(R, st)
    PROVE  /\ new \in [Reservations -> ResvRow \cup {NoReservation}]
           /\ \A r \in Reservations : /\ new[r].code = resv[r].code
                                      /\ new[r].loc = resv[r].loc
                                      /\ new[r].overdue = resv[r].overdue
           /\ \A r \in Reservations : new[r].status = IF r \in R THEN st ELSE resv[r].status
<1>1. \A r \in Reservations : resv[r] \in ResvRow \cup {NoReservation}
  BY DEF TypeOK, ResvRow
<1>2. \A r \in R : [resv[r] EXCEPT !.status = st] \in ResvRow
  BY ExistingRow DEF ResvRow
<1>3. /\ DOMAIN new = Reservations
      /\ new \in [Reservations -> ResvRow \cup {NoReservation}]
  BY <1>1, <1>2 DEF Overwrite
<1>4. \A r \in Reservations :
        new[r] = IF r \in R THEN [resv[r] EXCEPT !.status = st] ELSE resv[r]
  BY DEF Overwrite
<1>5. \A r \in R : resv[r] \in ResvRow
  BY ExistingRow
<1> QED BY <1>3, <1>4, <1>5 DEF ResvRow

LEMMA SessionIsProc == ASSUME NEW s \in Sessions PROVE s \in Procs
BY DEF Procs

(* A transaction goes on to its next step, or ends, and no reservation     *)
(* ceases to exist.                                                        *)
LEMMA RequestWritten ==
    ASSUME TypeInv, NEW p \in Procs, NEW new \in Requests,
           req' = [req EXCEPT ![p] = new],
           \A r \in Reservations : resv[r].status # "none" => resv'[r].status # "none",
           new.pc \in {"confirming", "placing", "cancelling"} =>
             resv[new.res].status # "none" /\ new.res \in Reservations,
           new.pc \in {"reserving", "sweeping"} =>
             \A r \in new.stale : resv[r].status # "none" /\ r \in Reservations
    PROVE  req' \in [Procs -> Requests] /\ Existing'
<1>1. req' \in [Procs -> Requests]
  BY DEF TypeInv, TypeOK
<1>2. ASSUME NEW t \in Procs
      PROVE  /\ req'[t].pc \in {"confirming", "placing", "cancelling"} =>
                  resv'[req'[t].res].status # "none"
             /\ req'[t].pc \in {"reserving", "sweeping"} =>
                  \A r \in req'[t].stale : resv'[r].status # "none"
  <2>1. CASE t = p
    <3>1. req'[t] = new
      BY <2>1 DEF TypeInv, TypeOK
    <3> QED BY <3>1
  <2>2. CASE t # p
    <3>1. req'[t] = req[t]
      BY <2>2 DEF TypeInv, TypeOK
    <3>2. /\ req[t].pc \in {"confirming", "placing", "cancelling"} =>
               req[t].res \in Reservations
          /\ req[t].pc \in {"reserving", "sweeping"} => req[t].stale \subseteq Reservations
      BY RequestFields DEF TypeInv
    <3> QED BY <3>1, <3>2 DEF TypeInv, Existing
  <2> QED BY <2>1, <2>2
<1> QED BY <1>1, <1>2 DEF Existing

LEMMA RequestEnded ==
    ASSUME TypeInv, NEW p \in Procs, End(p),
           \A r \in Reservations : resv[r].status # "none" => resv'[r].status # "none"
    PROVE  req' \in [Procs -> Requests] /\ Existing'
<1>1. Idle \in Requests /\ Idle.pc = "idle"
  BY DEF Idle, Requests
<1>2. req' = [req EXCEPT ![p] = Idle]
  BY DEF End
<1> QED BY <1>1, <1>2, RequestWritten

-----------------------------------------------------------------------------
(* Types *)

LEMMA InitTypeInv == Init => TypeInv
<1> SUFFICES ASSUME Init PROVE TypeInv
    OBVIOUS
<1>1. Idle \in Requests /\ Idle.pc = "idle"
  BY DEF Idle, Requests
<1>2. TypeOK
  BY <1>1 DEF Init, TypeOK, LocationStatus
<1>3. Existing
  BY <1>1 DEF Init, Existing
<1> QED BY <1>2, <1>3 DEF TypeInv

(* A request that only reads opens a transaction of one of the kinds.      *)
LEMMA ReadStep ==
    ASSUME TypeInv, NEW p \in Procs, NEW new \in Requests, Begin(p, new), UNCHANGED tables,
           new.pc \in {"confirming", "placing", "cancelling"} =>
             resv[new.res].status # "none" /\ new.res \in Reservations,
           new.pc \in {"reserving", "sweeping"} =>
             \A r \in new.stale : resv[r].status # "none" /\ r \in Reservations
    PROVE  TypeInv'
<1>1. req' = [req EXCEPT ![p] = new]
  BY DEF Begin
<1>2. UNCHANGED <<resv, status, rows, stock, extra, ledger, placed, codeLoc, bypassed>>
  BY DEF tables
<1>3. req' \in [Procs -> Requests] /\ Existing'
  BY <1>1, <1>2, RequestWritten
<1> QED BY <1>2, <1>3 DEF TypeInv, TypeOK

LEMMA ReserveCommitType ==
    ASSUME TypeInv, NEW s \in Sessions, ReserveCommit(s)
    PROVE  TypeInv'
<1> DEFINE q == req[s]
<1>1. q.code \in Codes /\ q.loc \in Locations /\ q.stale \subseteq Reservations
      /\ \A r \in q.stale : resv[r].status # "none"
  BY SessionIsProc, RequestFields DEF ReserveCommit, TypeInv, Existing
<1> DEFINE swept == Overwrite(q.stale, "expired")
           row == [status |-> "pending", code |-> q.code, loc |-> q.loc, overdue |-> FALSE]
<1>2. PICK new \in Unused : resv' = [swept EXCEPT ![new] = row]
  BY DEF ReserveCommit
<1>3. row \in ResvRow
  BY <1>1 DEF ResvRow, ReservationStatus
<1>4. /\ swept \in [Reservations -> ResvRow \cup {NoReservation}]
      /\ \A r \in Reservations : resv[r].status # "none" => swept[r].status # "none"
  BY <1>1, OverwriteType DEF TypeInv, ReservationStatus
<1> HIDE DEF swept, row
<1>5. /\ resv' \in [Reservations -> ResvRow \cup {NoReservation}]
      /\ \A r \in Reservations : resv[r].status # "none" => resv'[r].status # "none"
  BY <1>2, <1>3, <1>4 DEF Unused, ResvRow, ReservationStatus
<1>6. req' \in [Procs -> Requests] /\ Existing'
  BY <1>5, SessionIsProc, RequestEnded DEF ReserveCommit
<1>7. bypassed' \subseteq Locations
  BY <1>1 DEF ReserveCommit, TypeInv, TypeOK
<1> QED BY <1>5, <1>6, <1>7 DEF ReserveCommit, TypeInv, TypeOK, ResvRow

LEMMA ConfirmCommitType ==
    ASSUME TypeInv, NEW s \in Sessions, ConfirmCommit(s)
    PROVE  TypeInv'
<1> DEFINE q == req[s]
           c == resv[q.res].code
           x == RowOf(q)
<1>1. /\ q.res \in Reservations /\ q.loc \in Locations /\ q.qty \in Nat
      /\ resv[q.res].status # "none"
  BY SessionIsProc, RequestFields DEF ConfirmCommit, TypeInv, Existing
<1>2. resv[q.res] \in ResvRow
  BY <1>1, ExistingRow DEF TypeInv
<1>3. c \in Codes /\ Boxes(c) \in Nat
  BY <1>2, BoxesType DEF ResvRow
<1>4. /\ rows' \subseteq Rows /\ stock' \in [Rows -> Nat]
      /\ extra' \in [Rows -> Nat] /\ ledger' \in [Rows -> Nat]
  <2>1. CASE Known(c)
    <3>1. x \in Rows
      BY <1>1, <1>3, <2>1, RowType DEF RowOf
    <3>2. /\ rows' = rows \cup {x}
          /\ \/ stock' = [stock EXCEPT ![x] = q.qty + Boxes(c)] /\ extra' = extra
             \/ extra' = [extra EXCEPT ![x] = @ + Boxes(c)] /\ stock' = stock
          /\ ledger' = [ledger EXCEPT ![x] = @ + Boxes(c)]
      BY <2>1 DEF ConfirmCommit
    <3> HIDE DEF x, c, q
    <3> QED BY <1>1, <1>3, <3>1, <3>2 DEF TypeInv, TypeOK
  <2>2. CASE ~Known(c)
    BY <2>2 DEF ConfirmCommit, TypeInv, TypeOK
  <2> QED BY <2>1, <2>2
<1>5. /\ placed' \in [Reservations -> Nat]
      /\ codeLoc' \in [Codes -> Locations \cup {NoLoc}]
      /\ bypassed' \subseteq Locations
  BY <1>1, <1>3 DEF ConfirmCommit, StampedLoc, TypeInv, TypeOK
<1>6. status' \in [Locations -> LocationStatus]
  BY <1>1 DEF ConfirmCommit, TypeInv, TypeOK, LocationStatus
<1>7. LocAfter(q) \in Locations
  BY <1>1, <1>2 DEF LocAfter, ResvRow
<1>8. resv' = [resv EXCEPT ![q.res].status = "confirmed", ![q.res].loc = LocAfter(q)]
  BY DEF ConfirmCommit
<1>9. /\ resv' \in [Reservations -> ResvRow \cup {NoReservation}]
      /\ \A r \in Reservations : resv[r].status # "none" => resv'[r].status # "none"
  <2>1. resv \in [Reservations -> ResvRow \cup {NoReservation}]
    BY DEF TypeInv, TypeOK, ResvRow
  <2>2. "confirmed" \in ReservationStatus
    BY DEF ReservationStatus
  <2> HIDE DEF q
  <2> QED BY <1>1, <1>2, <1>7, <1>8, <2>1, <2>2 DEF ResvRow
<1>10. req' \in [Procs -> Requests] /\ Existing'
  BY <1>9, SessionIsProc, RequestEnded DEF ConfirmCommit
<1> QED BY <1>4, <1>5, <1>6, <1>9, <1>10 DEF TypeInv, TypeOK, ResvRow

(* CancelCommit and SweepCommit: the status of existing rows is overwritten. *)
LEMMA OverwriteStep ==
    ASSUME TypeInv, NEW p \in Procs, NEW R \in SUBSET Reservations,
           NEW st \in ReservationStatus, \A r \in R : resv[r].status # "none",
           resv' = Overwrite(R, st), End(p),
           UNCHANGED <<status, rows, stock, extra, ledger, placed, codeLoc, bypassed>>
    PROVE  TypeInv'
<1>1. /\ resv' \in [Reservations -> ResvRow \cup {NoReservation}]
      /\ \A r \in Reservations : resv'[r].status = IF r \in R THEN st ELSE resv[r].status
  BY OverwriteType DEF TypeInv
<1>2. \A r \in Reservations : resv[r].status # "none" => resv'[r].status # "none"
  BY <1>1 DEF ReservationStatus
<1>3. req' \in [Procs -> Requests] /\ Existing'
  BY <1>2, RequestEnded
<1> QED BY <1>1, <1>3 DEF TypeInv, TypeOK, ResvRow

LEMMA StepTypeInv == TypeInv /\ [Next]_vars => TypeInv'
<1> SUFFICES ASSUME TypeInv, [Next]_vars PROVE TypeInv'
    OBVIOUS
<1>0. TypeOK
  BY DEF TypeInv
<1> USE SessionIsProc
<1>1. ASSUME NEW s \in Sessions, NEW c \in Codes, NEW l \in Locations,
             NEW force \in BOOLEAN, ReserveRead(s, c, l, force)
      PROVE  TypeInv'
  <2> DEFINE new == [pc |-> "reserving", code |-> c, loc |-> l, stale |-> Overdue,
                     override |-> force \/ ~Known(c)]
  <2>1. (force \/ ~Known(c)) \in BOOLEAN
    BY Zenon
  <2>2. Overdue \subseteq Reservations /\ \A r \in Overdue : resv[r].status # "none"
    BY DEF Overdue, Pending
  <2>3. new \in Requests
    BY <2>1, <2>2 DEF Requests
  <2>4. Begin(s, new) /\ UNCHANGED tables
    BY <1>1 DEF ReserveRead
  <2>5. new.pc = "reserving" /\ new.stale = Overdue
    OBVIOUS
  <2> HIDE DEF new
  <2> QED BY <2>2, <2>3, <2>4, <2>5, ReadStep
<1>2. ASSUME NEW s \in Sessions, NEW r \in Reservations, NEW l \in Locations,
             ConfirmRead(s, r, l)
      PROVE  TypeInv'
  <2> DEFINE new == [pc |-> "confirming", res |-> r, loc |-> l,
                     redirect |-> l # resv[r].loc, seen |-> status[l]]
  <2>1. (l # resv[r].loc) \in BOOLEAN /\ status[l] \in LocationStatus
    BY <1>0 DEF TypeOK
  <2>2. new \in Requests
    BY <2>1 DEF Requests
  <2>3. Begin(s, new) /\ UNCHANGED tables /\ resv[r].status # "none"
    BY <1>2 DEF ConfirmRead, Confirmable
  <2>4. new.pc = "confirming" /\ new.res = r
    OBVIOUS
  <2> HIDE DEF new
  <2> QED BY <2>2, <2>3, <2>4, ReadStep
<1>3. ASSUME NEW s \in Sessions, ConfirmPlace(s) PROVE TypeInv'
  <2> DEFINE q == req[s]
             c == resv[q.res].code
             fresh == Known(c) /\ RowOf(q) \notin rows
             qty == IF Known(c) THEN stock[RowOf(q)] ELSE 0
             full == PalletsWith(q.loc, q) >= MaxPallets[q.loc]
             new == [pc |-> "placing", res |-> q.res, loc |-> q.loc, redirect |-> q.redirect,
                     seen |-> q.seen, fresh |-> fresh, qty |-> qty, full |-> full]
  <2>1. /\ q.res \in Reservations /\ q.loc \in Locations
        /\ q.redirect \in BOOLEAN /\ q.seen \in LocationStatus
        /\ resv[q.res].status # "none"
    BY <1>3, <1>0, RequestFields DEF ConfirmPlace, TypeInv, Existing
  <2>2. c \in Codes
    BY <1>0, <2>1, ExistingRow DEF ResvRow
  <2>3. fresh \in BOOLEAN /\ full \in BOOLEAN
    <3>1. fresh \in BOOLEAN
      BY Zenon
    <3>2. full \in BOOLEAN
      BY SMT
    <3> QED BY <3>1, <3>2
  <2>4. qty \in Nat
    BY <1>0, <2>1, <2>2, RowType DEF RowOf, TypeOK
  <2>5. req' = [req EXCEPT ![s] = new] /\ UNCHANGED tables
    BY <1>3 DEF ConfirmPlace
  <2> HIDE DEF fresh, qty, full
  <2>6. new \in Requests
    BY <2>1, <2>3, <2>4 DEF Requests
  <2>7. new.pc = "placing" /\ new.res = q.res
    OBVIOUS
  <2>8. UNCHANGED <<resv, status, rows, stock, extra, ledger, placed, codeLoc, bypassed>>
    BY <2>5 DEF tables
  <2> HIDE DEF new
  <2>9. req' \in [Procs -> Requests] /\ Existing'
    BY <2>1, <2>5, <2>6, <2>7, <2>8, RequestWritten
  <2> QED BY <1>0, <2>8, <2>9 DEF TypeInv, TypeOK
<1>4. ASSUME NEW p \in Procs, End(p), UNCHANGED tables PROVE TypeInv'
  <2>1. UNCHANGED <<resv, status, rows, stock, extra, ledger, placed, codeLoc, bypassed>>
    BY <1>4 DEF tables
  <2>2. req' \in [Procs -> Requests] /\ Existing'
    BY <1>4, <2>1, RequestEnded
  <2> QED BY <1>0, <2>1, <2>2 DEF TypeInv, TypeOK
<1>5. ASSUME NEW s \in Sessions, NEW r \in Reservations, CancelRead(s, r) PROVE TypeInv'
  <2> DEFINE new == [pc |-> "cancelling", res |-> r]
  <2>1. new \in Requests /\ new.pc = "cancelling" /\ new.res = r
    BY DEF Requests
  <2>2. Begin(s, new) /\ UNCHANGED tables /\ resv[r].status # "none"
    BY <1>5 DEF CancelRead
  <2> HIDE DEF new
  <2> QED BY <2>1, <2>2, ReadStep
<1>6. ASSUME NEW s \in Sessions, CancelCommit(s) PROVE TypeInv'
  <2>1. req[s].res \in Reservations /\ resv[req[s].res].status # "none"
    BY <1>6, <1>0, RequestFields DEF CancelCommit, TypeInv, Existing
  <2>2. "cancelled" \in ReservationStatus
    BY DEF ReservationStatus
  <2> QED BY <1>6, <2>1, <2>2, OverwriteStep DEF CancelCommit
<1>7. ASSUME NEW p \in Procs, SweepRead(p) PROVE TypeInv'
  <2> DEFINE new == [pc |-> "sweeping", stale |-> Overdue]
  <2>1. Overdue \subseteq Reservations /\ \A r \in Overdue : resv[r].status # "none"
    BY DEF Overdue, Pending
  <2>2. new \in Requests /\ new.pc = "sweeping" /\ new.stale = Overdue
    BY <2>1 DEF Requests
  <2>3. Begin(p, new) /\ UNCHANGED tables
    BY <1>7 DEF SweepRead
  <2> HIDE DEF new
  <2> QED BY <2>1, <2>2, <2>3, ReadStep
<1>8. ASSUME NEW p \in Procs, SweepCommit(p) PROVE TypeInv'
  <2>1. req[p].stale \subseteq Reservations /\ \A r \in req[p].stale : resv[r].status # "none"
    BY <1>8, <1>0, RequestFields DEF SweepCommit, TypeInv, Existing
  <2>2. "expired" \in ReservationStatus
    BY DEF ReservationStatus
  <2> QED BY <1>8, <2>1, <2>2, OverwriteStep DEF SweepCommit
<1>9. ASSUME NEW r \in Reservations, TtlElapses(r) PROVE TypeInv'
  <2>1. resv[r] \in ResvRow /\ resv' = [resv EXCEPT ![r].overdue = TRUE]
    BY <1>9, <1>0, ExistingRow DEF TtlElapses, Pending
  <2>2. resv \in [Reservations -> ResvRow \cup {NoReservation}]
    BY <1>0 DEF TypeOK, ResvRow
  <2>3. /\ resv' \in [Reservations -> ResvRow \cup {NoReservation}]
        /\ \A t \in Reservations : resv'[t].status = resv[t].status
    BY <2>1, <2>2 DEF ResvRow
  <2>4. Existing'
    BY <1>9, <1>0, <2>3, RequestFields DEF TtlElapses, TypeInv, Existing
  <2> QED BY <1>9, <1>0, <2>3, <2>4 DEF TtlElapses, TypeInv, TypeOK, ResvRow
<1>10. ASSUME NEW l \in Locations, NEW st \in PatchStatuses, UpdateLocation(l, st)
       PROVE  TypeInv'
  <2>1. st \in LocationStatus
    BY PutawayAssumption DEF PutawayAssumption
  <2> QED BY <1>10, <1>0, <2>1 DEF UpdateLocation, TypeInv, TypeOK, Existing
<1>11. CASE UNCHANGED vars
  BY <1>11, <1>0 DEF vars, TypeInv, TypeOK, Existing
<1>12. ASSUME NEW s \in Sessions, Reserve(s) \/ Confirm(s) \/ Cancel(s) PROVE TypeInv'
  BY <1>12, <1>1, <1>2, <1>3, <1>4, <1>5, <1>6, ReserveCommitType, ConfirmCommitType
     DEF Reserve, Confirm, Cancel, ConfirmConflict
<1>13. ASSUME NEW p \in Procs, Sweep(p) \/ Rollback(p) PROVE TypeInv'
  BY <1>13, <1>4, <1>7, <1>8 DEF Sweep, Rollback
<1> QED BY <1>9, <1>10, <1>11, <1>12, <1>13 DEF Next

(* Tables and open transactions keep their types, however requests overlap. *)
THEOREM TypeCorrect == Spec => []TypeOK
<1>1. TypeInv => TypeOK
  BY DEF TypeInv
<1> QED BY <1>1, InitTypeInv, StepTypeInv, PTL DEF Spec

-----------------------------------------------------------------------------
(* What steps do to reservations and to open transactions *)

LEMMA ConfirmCommitResv ==
    ASSUME TypeInv, NEW s \in Sessions, ConfirmCommit(s)
    PROVE  /\ req[s].res \in Reservations
           /\ \A r \in Reservations : resv'[r].code = resv[r].code
           /\ \A r \in Reservations \ {req[s].res} : resv'[r] = resv[r]
           /\ resv'[req[s].res].status = "confirmed"
           /\ resv'[req[s].res].loc = LocAfter(req[s])
<1>1. req[s].res \in Reservations /\ resv[req[s].res].status # "none"
  BY SessionIsProc, RequestFields DEF ConfirmCommit, TypeInv, Existing
<1>2. resv[req[s].res] \in ResvRow /\ DOMAIN resv = Reservations
  BY <1>1, ExistingRow DEF TypeInv, TypeOK
<1>3. resv' = [resv EXCEPT ![req[s].res].status = "confirmed",
                           ![req[s].res].loc = LocAfter(req[s])]
  BY DEF ConfirmCommit
<1> QED BY <1>1, <1>2, <1>3 DEF ResvRow

(* A reservation does not cease to exist, its code never changes, nor does *)
(* its location but by a confirmation, and once closed it stays closed.    *)
LEMMA ReservationStep ==
    ASSUME TypeInv, [Next]_vars, NEW r \in Reservations, resv[r].status # "none"
    PROVE  /\ resv'[r].code = resv[r].code
           /\ resv'[r].status # "none"
           /\ resv[r].status \in Terminal => resv'[r].status \in Terminal
           /\ resv'[r].loc = resv[r].loc \/ \E s \in Sessions : ConfirmCommit(s)
           /\ resv'[r].status = "confirmed" =>
                resv[r].status = "confirmed" \/ \E s \in Sessions : ConfirmCommit(s)
<1>0. TypeOK
  BY DEF TypeInv
<1>1. ASSUME NEW s \in Sessions, ReserveCommit(s)
      PROVE  /\ resv'[r].code = resv[r].code /\ resv'[r].loc = resv[r].loc
             /\ resv'[r].status \in {resv[r].status, "expired"}
  <2>1. /\ req[s].stale \subseteq Reservations
        /\ \A t \in req[s].stale : resv[t].status # "none"
    BY <1>0, <1>1, SessionIsProc, RequestFields DEF ReserveCommit, TypeInv, Existing
  <2> DEFINE swept == Overwrite(req[s].stale, "expired")
             row == [status |-> "pending", code |-> req[s].code, loc |-> req[s].loc,
                     overdue |-> FALSE]
  <2>2. PICK new \in Unused : resv' = [swept EXCEPT ![new] = row]
    BY <1>1 DEF ReserveCommit
  <2>3. new # r
    BY DEF Unused
  <2>4. /\ swept[r].code = resv[r].code /\ swept[r].loc = resv[r].loc
        /\ swept[r].status \in {resv[r].status, "expired"}
        /\ DOMAIN swept = Reservations
    BY <1>0, <2>1, OverwriteType DEF ReservationStatus
  <2> HIDE DEF swept, row
  <2> QED BY <2>2, <2>3, <2>4
<1>2. ASSUME NEW p \in Procs, NEW R \in SUBSET Reservations, NEW st \in {"expired", "cancelled"},
             \A t \in R : resv[t].status # "none", resv' = Overwrite(R, st)
      PROVE  /\ resv'[r].code = resv[r].code /\ resv'[r].loc = resv[r].loc
             /\ resv'[r].status \in {resv[r].status, "expired", "cancelled"}
  BY <1>0, <1>2, OverwriteType DEF ReservationStatus
<1>3. ASSUME NEW s \in Sessions, CancelCommit(s)
      PROVE  /\ resv'[r].code = resv[r].code /\ resv'[r].loc = resv[r].loc
             /\ resv'[r].status \in {resv[r].status, "expired", "cancelled"}
  <2>1. req[s].res \in Reservations /\ resv[req[s].res].status # "none"
    BY <1>0, <1>3, SessionIsProc, RequestFields DEF CancelCommit, TypeInv, Existing
  <2> QED BY <1>2, <1>3, <2>1, SessionIsProc DEF CancelCommit
<1>4. ASSUME NEW p \in Procs, SweepCommit(p)
      PROVE  /\ resv'[r].code = resv[r].code /\ resv'[r].loc = resv[r].loc
             /\ resv'[r].status \in {resv[r].status, "expired", "cancelled"}
  <2>1. /\ req[p].stale \subseteq Reservations
        /\ \A t \in req[p].stale : resv[t].status # "none"
    BY <1>0, <1>4, RequestFields DEF SweepCommit, TypeInv, Existing
  <2> QED BY <1>2, <1>4, <2>1 DEF SweepCommit
<1>5. ASSUME NEW t \in Reservations, TtlElapses(t)
      PROVE  /\ resv'[r].code = resv[r].code /\ resv'[r].loc = resv[r].loc
             /\ resv'[r].status = resv[r].status
  <2>1. resv' = [resv EXCEPT ![t].overdue = TRUE] /\ resv[r] \in ResvRow
    BY <1>0, <1>5, ExistingRow DEF TtlElapses
  <2> QED BY <1>0, <2>1 DEF TypeOK, ResvRow
<1>6. ASSUME NEW s \in Sessions, ConfirmCommit(s)
      PROVE  /\ resv'[r].code = resv[r].code
             /\ resv'[r].status \in {resv[r].status, "confirmed"}
  BY <1>6, ConfirmCommitResv
<1>7. CASE resv' = resv
  BY <1>7
<1>8. \/ resv' = resv
      \/ \E s \in Sessions : ReserveCommit(s) \/ CancelCommit(s) \/ ConfirmCommit(s)
      \/ \E p \in Procs : SweepCommit(p)
      \/ \E t \in Reservations : TtlElapses(t)
  BY DEF Next, vars, Reserve, Confirm, Cancel, Sweep, Rollback, ReserveRead, ConfirmRead,
         ConfirmPlace, ConfirmConflict, CancelRead, SweepRead, UpdateLocation, tables
<1> QED BY <1>1, <1>3, <1>4, <1>5, <1>6, <1>7, <1>8 DEF Terminal

(* No step makes a closed reservation hold capacity again, nor gives its   *)
(* row to another code, whatever commits in between.                       *)
THEOREM ClosedForGood == Spec => ClosedStaysClosed
<1> DEFINE Kept == \A r \in Reservations :
                     resv[r].status \in Terminal =>
                       resv'[r].status \in Terminal /\ resv'[r].code = resv[r].code
<1>1. TypeInv /\ [Next]_vars => Kept
  BY ReservationStep DEF Terminal
<1>2. TypeInv /\ [Next]_vars => [Kept]_vars
  BY <1>1
<1> QED BY <1>2, InitTypeInv, StepTypeInv, PTL DEF Spec, ClosedStaysClosed

-----------------------------------------------------------------------------
(* The stock cache and the ledger *)

CodeOf(p) == resv[req[p].res].code

(* A confirmation that has read a stock item still knows its quantity: it  *)
(* is the only one that holds the row, or the row did not exist and its    *)
(* own will be a second one, or fail, if another's has come first.         *)
QtyIsCurrent ==
    \A p \in Procs :
      Placing(p) /\ Known(CodeOf(p)) =>
        IF req[p].fresh THEN req[p].qty = 0
        ELSE RowOf(req[p]) \in rows /\ req[p].qty = stock[RowOf(req[p])]

RowHeldOnce ==
    \A p, t \in Procs :
      /\ Placing(p) /\ Known(CodeOf(p)) /\ ~req[p].fresh
      /\ Placing(t) /\ Known(CodeOf(t)) /\ ~req[t].fresh
      /\ RowOf(req[p]) = RowOf(req[t])
      => p = t

Ledgers == LedgerMatchesStock /\ QtyIsCurrent /\ RowHeldOnce

LEMMA OnHandType ==
    ASSUME TypeInv
    PROVE  /\ OnHand \in [Rows -> Nat]
           /\ \A x \in Rows : /\ OnHand[x] = stock[x] + extra[x]
                              /\ stock[x] \in Nat /\ extra[x] \in Nat
BY DEF TypeInv, TypeOK, OnHand

LEMMA OnHandTypeAfter == TypeInv /\ [Next]_vars => OnHand' \in [Rows -> Nat]
BY StepTypeInv DEF TypeInv, TypeOK, OnHand

LEMMA OnHandStill == ASSUME UNCHANGED <<stock, extra>> PROVE OnHand' = OnHand
BY DEF OnHand

LEMMA InitLedgers == Init => Ledgers
BY DEF Init, Ledgers, LedgerMatchesStock, OnHand, QtyIsCurrent, RowHeldOnce, Placing, Idle

(* The row a transaction is placing goods on stays the same. *)
LEMMA RowOfStable ==
    ASSUME TypeInv, [Next]_vars, NEW p \in Procs, Placing(p), req'[p] = req[p]
    PROVE  /\ CodeOf(p)' = CodeOf(p) /\ RowOf(req[p])' = RowOf(req[p])
           /\ CodeOf(p) \in Codes
           /\ Known(CodeOf(p)) => RowOf(req[p]) \in Rows
<1>1. req[p].res \in Reservations /\ req[p].loc \in Locations
      /\ resv[req[p].res].status # "none"
  BY RequestFields DEF TypeInv, Existing, Placing
<1>2. resv[req[p].res] \in ResvRow
  BY <1>1, ExistingRow DEF TypeInv
<1>3. resv'[req[p].res].code = resv[req[p].res].code
  BY <1>1, ReservationStep
<1> QED BY <1>1, <1>2, <1>3, RowType DEF CodeOf, RowOf, ResvRow

(* Steps that leave the stock alone and bring no transaction to placing.   *)
LEMMA QuietLedgers ==
    ASSUME TypeInv, Ledgers, [Next]_vars, UNCHANGED <<rows, stock, extra, ledger>>,
           \A p \in Procs : req'[p] = req[p] \/ req'[p].pc # "placing"
    PROVE  Ledgers'
<1>1. \A p \in Procs : Placing(p)' =>
        /\ Placing(p) /\ req'[p] = req[p]
        /\ CodeOf(p)' = CodeOf(p) /\ RowOf(req[p])' = RowOf(req[p])
  BY RowOfStable DEF Placing
<1>2. QtyIsCurrent'
  BY <1>1 DEF Ledgers, QtyIsCurrent, Known
<1>3. RowHeldOnce'
  BY <1>1 DEF Ledgers, RowHeldOnce, Known
<1> QED BY <1>2, <1>3, OnHandStill DEF Ledgers, LedgerMatchesStock

LEMMA ConfirmPlaceLedgers ==
    ASSUME TypeInv, Ledgers, [Next]_vars, NEW s \in Sessions, ConfirmPlace(s)
    PROVE  Ledgers'
<1> DEFINE q == req[s]
           c == resv[q.res].code
           x == RowOf(q)
<1>1. UNCHANGED <<resv, rows, stock, extra, ledger>>
  BY DEF ConfirmPlace, tables
<1>2. /\ q.res \in Reservations /\ q.loc \in Locations
      /\ resv[q.res].status # "none"
  BY SessionIsProc, RequestFields DEF ConfirmPlace, TypeInv, Existing
<1>3. c \in Codes /\ (Known(c) => x \in Rows)
  BY <1>2, ExistingRow, RowType DEF ResvRow, RowOf, TypeInv
<1>4. /\ \A p \in Procs \ {s} : req'[p] = req[p]
      /\ req'[s].res = q.res /\ req'[s].loc = q.loc
      /\ req'[s].fresh <=> Known(c) /\ x \notin rows
      /\ req'[s].qty = IF Known(c) THEN stock[x] ELSE 0
  BY SessionIsProc DEF ConfirmPlace, TypeInv, TypeOK
<1>5. CodeOf(s)' = c /\ RowOf(req[s])' = x
  BY <1>1, <1>4 DEF CodeOf, RowOf
<1>6. Known(c) => ~RowLocked(x)
  BY DEF ConfirmPlace
<1>7. \A p \in Procs \ {s} : Placing(p)' =>
        /\ Placing(p) /\ CodeOf(p)' = CodeOf(p) /\ RowOf(req[p])' = RowOf(req[p])
  BY <1>4, RowOfStable DEF Placing
<1> HIDE DEF x, c, q
<1>8. QtyIsCurrent'
  <2>1. ASSUME NEW p \in Procs, Placing(p)', Known(CodeOf(p))'
        PROVE  IF req'[p].fresh THEN req'[p].qty = 0
               ELSE RowOf(req[p])' \in rows' /\ req'[p].qty = stock'[RowOf(req[p])']
    <3>1. CASE p = s
      <4>1. Known(c)
        BY <2>1, <3>1, <1>5 DEF Known
      <4>2. CASE x \in rows
        <5>1. ~req'[s].fresh /\ req'[s].qty = stock[x]
          BY <1>4, <4>1, <4>2
        <5> QED BY <1>1, <1>5, <3>1, <4>2, <5>1
      <4>3. CASE x \notin rows
        <5>1. stock[x] = 0
          <6>1. x \in Rows /\ OnHand[x] = 0
            BY <1>3, <4>1, <4>3 DEF Ledgers, LedgerMatchesStock
          <6> QED BY <6>1, OnHandType
        <5>2. req'[s].fresh /\ req'[s].qty = 0
          BY <1>4, <4>1, <4>3, <5>1
        <5> QED BY <3>1, <5>2
      <4> QED BY <4>2, <4>3
    <3>2. CASE p # s
      <4>1. req'[p] = req[p] /\ Placing(p) /\ Known(CodeOf(p))
            /\ RowOf(req[p])' = RowOf(req[p])
        BY <1>4, <1>7, <2>1, <3>2 DEF Known
      <4> QED BY <1>1, <4>1 DEF Ledgers, QtyIsCurrent
    <3> QED BY <3>1, <3>2
  <2> QED BY <2>1 DEF QtyIsCurrent
<1>9. RowHeldOnce'
  <2>1. ASSUME NEW p \in Procs, p # s,
               Placing(p)', ~req'[p].fresh, Known(CodeOf(s))', RowOf(req[p])' = RowOf(req[s])'
        PROVE  FALSE
    <3>1. Placing(p) /\ ~req[p].fresh /\ RowOf(req[p]) = x
      BY <1>4, <1>5, <1>7, <2>1
    <3>2. Known(c)
      BY <1>5, <2>1 DEF Known
    <3> QED BY <1>6, <3>1, <3>2 DEF RowLocked
  <2>2. ASSUME NEW p \in Procs, NEW t \in Procs, p # s, t # s,
               Placing(p)', Known(CodeOf(p))', ~req'[p].fresh,
               Placing(t)', Known(CodeOf(t))', ~req'[t].fresh,
               RowOf(req[p])' = RowOf(req[t])'
        PROVE  p = t
    <3>1. /\ Placing(p) /\ Known(CodeOf(p)) /\ ~req[p].fresh
          /\ Placing(t) /\ Known(CodeOf(t)) /\ ~req[t].fresh
          /\ RowOf(req[p]) = RowOf(req[t])
      BY <1>4, <1>7, <2>2 DEF Known
    <3> QED BY <3>1 DEF Ledgers, RowHeldOnce
  <2> QED BY <2>1, <2>2 DEF RowHeldOnce
<1> QED BY <1>1, <1>8, <1>9, OnHandStill DEF Ledgers, LedgerMatchesStock

(* What a confirmation adds to the stock: exactly the boxes of its code,   *)
(* in the row it has locked, in the first one or in a further one.         *)
LEMMA ConfirmCommitStock ==
    ASSUME TypeInv, Ledgers, NEW s \in Sessions, ConfirmCommit(s)
    PROVE  LET x == RowOf(req[s])
               n == Boxes(CodeOf(s)) IN
           /\ CodeOf(s) \in Codes /\ req[s].loc \in Locations
           /\ Known(CodeOf(s)) =>
                /\ x \in Rows
                /\ rows' = rows \cup {x}
                /\ OnHand' = [OnHand EXCEPT ![x] = OnHand[x] + n]
                /\ ledger' = [ledger EXCEPT ![x] = ledger[x] + n]
                /\ \A y \in Rows : stock'[y] = stock[y] \/ (y = x /\ (~req[s].fresh \/ x \notin rows))
           /\ ~Known(CodeOf(s)) => UNCHANGED <<rows, stock, extra, ledger, OnHand>>
<1>1. /\ req[s].res \in Reservations /\ req[s].loc \in Locations
      /\ resv[req[s].res].status # "none" /\ Placing(s) /\ req[s].fresh \in BOOLEAN
  BY SessionIsProc, RequestFields DEF ConfirmCommit, Placing, TypeInv, Existing
<1>2. CodeOf(s) \in Codes
  BY <1>1, ExistingRow DEF CodeOf, ResvRow, TypeInv
<1>3. CASE Known(CodeOf(s))
  <2>1. PICK x \in Rows : x = RowOf(req[s])
    BY <1>1, <1>2, <1>3, RowType DEF RowOf, CodeOf
  <2>2. PICK n \in Nat : n = Boxes(CodeOf(s))
    BY <1>2, BoxesType
  <2>3. /\ rows' = rows \cup {x}
        /\ IF req[s].fresh /\ x \in rows
             THEN extra' = [extra EXCEPT ![x] = @ + n] /\ stock' = stock
             ELSE stock' = [stock EXCEPT ![x] = req[s].qty + n] /\ extra' = extra
        /\ ledger' = [ledger EXCEPT ![x] = @ + n]
    BY <1>3, <2>1, <2>2 DEF ConfirmCommit, InsertedAgain, CodeOf
  <2>4. ~(req[s].fresh /\ x \in rows) => req[s].qty = stock[x]
    <3>1. CASE req[s].fresh /\ x \notin rows
      <4>1. req[s].qty = 0 /\ OnHand[x] = 0
        BY <1>1, <1>3, <2>1, <3>1, SessionIsProc DEF Ledgers, QtyIsCurrent, LedgerMatchesStock
      <4> QED BY <4>1, OnHandType
    <3>2. CASE ~req[s].fresh
      BY <1>1, <1>3, <2>1, <3>2, SessionIsProc DEF Ledgers, QtyIsCurrent
    <3> QED BY <3>1, <3>2
  <2>5. stock \in [Rows -> Nat] /\ extra \in [Rows -> Nat]
    BY DEF TypeInv, TypeOK
  <2>6. OnHand' = [OnHand EXCEPT ![x] = OnHand[x] + n]
    <3>1. \A y \in Rows : stock'[y] + extra'[y]
                          = IF y = x THEN stock[x] + extra[x] + n ELSE stock[y] + extra[y]
      BY <2>3, <2>4, <2>5
    <3> QED BY <3>1 DEF OnHand
  <2>7. \A y \in Rows : stock'[y] = stock[y] \/ (y = x /\ (~req[s].fresh \/ x \notin rows))
    BY <2>3, <2>5
  <2> QED BY <1>1, <1>2, <1>3, <2>1, <2>2, <2>3, <2>6, <2>7
<1>4. CASE ~Known(CodeOf(s))
  BY <1>1, <1>2, <1>4, OnHandStill DEF ConfirmCommit, CodeOf
<1> QED BY <1>3, <1>4

LEMMA ConfirmCommitLedgers ==
    ASSUME TypeInv, Ledgers, [Next]_vars, NEW s \in Sessions, ConfirmCommit(s)
    PROVE  Ledgers'
<1> DEFINE x == RowOf(req[s])
           c == CodeOf(s)
<1>1. /\ s \in Procs /\ Placing(s) /\ ~Placing(s)'
      /\ \A p \in Procs \ {s} : req'[p] = req[p]
  BY SessionIsProc DEF ConfirmCommit, End, Idle, Placing, TypeInv, TypeOK
<1>2. \A p \in Procs : Placing(p)' =>
        /\ p # s /\ Placing(p) /\ req'[p] = req[p]
        /\ CodeOf(p)' = CodeOf(p) /\ RowOf(req[p])' = RowOf(req[p])
        /\ Known(CodeOf(p)) => RowOf(req[p]) \in Rows
  <2>1. ASSUME NEW p \in Procs, Placing(p)' PROVE p # s /\ req'[p] = req[p] /\ Placing(p)
    BY <1>1, <2>1 DEF Placing
  <2> QED BY <2>1, RowOfStable
<1>3. RowHeldOnce'
  BY <1>2 DEF Ledgers, RowHeldOnce, Known
<1>4. CASE Known(c)
  <2>1. /\ c \in Codes /\ x \in Rows
        /\ rows' = rows \cup {x}
        /\ OnHand' = [OnHand EXCEPT ![x] = OnHand[x] + Boxes(c)]
        /\ ledger' = [ledger EXCEPT ![x] = ledger[x] + Boxes(c)]
        /\ \A y \in Rows : stock'[y] = stock[y] \/ (y = x /\ (~req[s].fresh \/ x \notin rows))
    BY <1>4, ConfirmCommitStock
  <2>2. OnHand \in [Rows -> Nat] /\ ledger \in [Rows -> Nat] /\ Boxes(c) \in Nat
    BY <2>1, BoxesType, OnHandType DEF TypeInv, TypeOK
  <2>3. LedgerMatchesStock'
    <3> HIDE DEF x, c
    <3> QED BY <2>1, <2>2 DEF Ledgers, LedgerMatchesStock
  <2>4. ASSUME NEW p \in Procs, Placing(p)', Known(CodeOf(p))', ~req'[p].fresh
        PROVE  RowOf(req[p])' \in rows' /\ req'[p].qty = stock'[RowOf(req[p])']
    <3>1. /\ p # s /\ Placing(p) /\ Known(CodeOf(p)) /\ ~req[p].fresh /\ req'[p] = req[p]
          /\ RowOf(req[p])' = RowOf(req[p]) /\ RowOf(req[p]) \in Rows
      BY <1>2, <2>4 DEF Known
    <3>2. RowOf(req[p]) \in rows /\ req[p].qty = stock[RowOf(req[p])]
      BY <3>1 DEF Ledgers, QtyIsCurrent
    <3>3. stock'[RowOf(req[p])] = stock[RowOf(req[p])]
      <4> SUFFICES ASSUME RowOf(req[p]) = x, ~req[s].fresh PROVE FALSE
        BY <2>1, <3>1, <3>2
      <4> QED BY <1>1, <1>4, <3>1 DEF Ledgers, RowHeldOnce
    <3> HIDE DEF x, c
    <3> QED BY <2>1, <3>1, <3>2, <3>3
  <2>5. ASSUME NEW p \in Procs, Placing(p)', Known(CodeOf(p))', req'[p].fresh
        PROVE  req'[p].qty = 0
    BY <1>2, <2>5 DEF Ledgers, QtyIsCurrent, Known
  <2>6. QtyIsCurrent'
    BY <2>4, <2>5 DEF QtyIsCurrent
  <2> QED BY <1>3, <2>3, <2>6 DEF Ledgers
<1>5. CASE ~Known(c)
  <2>1. UNCHANGED <<rows, stock, extra, ledger>>
    BY <1>5, ConfirmCommitStock
  <2>2. \A p \in Procs : req'[p] = req[p] \/ req'[p].pc # "placing"
    BY <1>2 DEF Placing
  <2> QED BY <2>1, <2>2, QuietLedgers
<1> QED BY <1>4, <1>5

(* A step is one of a confirmation, or leaves the stock alone and brings   *)
(* nobody to confirming or placing goods.                                  *)
ConfirmStep(s) ==
    \/ ConfirmCommit(s) \/ ConfirmPlace(s)
    \/ \E r \in Reservations, l \in Locations : ConfirmRead(s, r, l)

Confirming(p) == req[p].pc \in {"confirming", "placing"}

StillGoods ==
    /\ UNCHANGED <<rows, stock, extra, ledger, placed, codeLoc>>
    /\ \A p \in Procs : req'[p] = req[p] \/ ~Confirming(p)'

LEMMA StockSteps ==
    ASSUME TypeInv, [Next]_vars
    PROVE  (\E s \in Sessions : ConfirmStep(s)) \/ StillGoods
<1>1. ASSUME NEW p \in Procs, End(p), UNCHANGED <<rows, stock, extra, ledger, placed, codeLoc>>
      PROVE  StillGoods
  BY <1>1 DEF End, Idle, TypeInv, TypeOK, StillGoods, Confirming
<1>2. ASSUME NEW p \in Procs, NEW new, Begin(p, new), UNCHANGED tables,
             new.pc \notin {"confirming", "placing"}
      PROVE  StillGoods
  BY <1>2 DEF Begin, TypeInv, TypeOK, StillGoods, Confirming, tables
<1>3. ASSUME NEW s \in Sessions, Reserve(s) \/ Confirm(s) \/ Cancel(s)
      PROVE  ConfirmStep(s) \/ StillGoods
  <2>0. s \in Procs
    BY SessionIsProc
  <2>1. ASSUME NEW c \in Codes, NEW l \in Locations, NEW force \in BOOLEAN,
               ReserveRead(s, c, l, force)
        PROVE  StillGoods
    <3> DEFINE new == [pc |-> "reserving", code |-> c, loc |-> l, stale |-> Overdue,
                       override |-> force \/ ~Known(c)]
    <3>1. Begin(s, new) /\ UNCHANGED tables /\ new.pc \notin {"confirming", "placing"}
      BY <2>1 DEF ReserveRead
    <3> HIDE DEF new
    <3> QED BY <2>0, <3>1, <1>2
  <2>2. ASSUME NEW r \in Reservations, CancelRead(s, r)
        PROVE  StillGoods
    <3> DEFINE new == [pc |-> "cancelling", res |-> r]
    <3>1. Begin(s, new) /\ UNCHANGED tables /\ new.pc \notin {"confirming", "placing"}
      BY <2>2 DEF CancelRead
    <3> HIDE DEF new
    <3> QED BY <2>0, <3>1, <1>2
  <2>3. CASE ReserveCommit(s) \/ CancelCommit(s)
    BY <2>0, <2>3, <1>1 DEF ReserveCommit, CancelCommit
  <2>4. CASE ConfirmConflict(s)
    BY <2>0, <2>4, <1>1 DEF ConfirmConflict, tables
  <2> QED BY <1>3, <2>1, <2>2, <2>3, <2>4 DEF Reserve, Confirm, Cancel, ConfirmStep
<1>4. ASSUME NEW p \in Procs, Sweep(p) \/ Rollback(p) PROVE StillGoods
  <2>1. CASE SweepRead(p)
    <3> DEFINE new == [pc |-> "sweeping", stale |-> Overdue]
    <3>1. Begin(p, new) /\ UNCHANGED tables /\ new.pc \notin {"confirming", "placing"}
      BY <2>1 DEF SweepRead
    <3> HIDE DEF new
    <3> QED BY <3>1, <1>2
  <2>2. CASE SweepCommit(p)
    BY <2>2, <1>1 DEF SweepCommit
  <2>3. CASE Rollback(p)
    BY <2>3, <1>1 DEF Rollback, tables
  <2> QED BY <1>4, <2>1, <2>2, <2>3 DEF Sweep
<1>5. ASSUME NEW r \in Reservations, TtlElapses(r) PROVE StillGoods
  BY <1>5 DEF TtlElapses, StillGoods
<1>6. ASSUME NEW l \in Locations, NEW st \in PatchStatuses, UpdateLocation(l, st)
      PROVE  StillGoods
  BY <1>6 DEF UpdateLocation, StillGoods
<1>7. CASE UNCHANGED vars
  BY <1>7 DEF vars, StillGoods
<1> QED BY <1>3, <1>4, <1>5, <1>6, <1>7 DEF Next

LEMMA StepLedgers == TypeInv /\ Ledgers /\ [Next]_vars => Ledgers'
<1> SUFFICES ASSUME TypeInv, Ledgers, [Next]_vars PROVE Ledgers'
    OBVIOUS
<1>1. ASSUME NEW s \in Sessions, NEW r \in Reservations, NEW l \in Locations,
             ConfirmRead(s, r, l)
      PROVE  Ledgers'
  <2>1. UNCHANGED <<rows, stock, extra, ledger>>
    BY <1>1 DEF ConfirmRead, tables
  <2>2. \A p \in Procs : req'[p] = req[p] \/ req'[p].pc # "placing"
    BY <1>1, SessionIsProc DEF ConfirmRead, Begin, TypeInv, TypeOK
  <2> QED BY <2>1, <2>2, QuietLedgers
<1>2. CASE StillGoods
  BY <1>2, QuietLedgers DEF StillGoods, Confirming
<1> QED BY <1>1, <1>2, StockSteps, ConfirmPlaceLedgers, ConfirmCommitLedgers DEF ConfirmStep

(* The cached stock is the ledger's sum for any number of overlapping      *)
(* confirmations, rollbacks and failed inserts (ledger._adjust_stock).     *)
THEOREM CacheIsLedger == Spec => []LedgerMatchesStock
<1>1. Init => TypeInv /\ Ledgers
  BY InitTypeInv, InitLedgers
<1>2. TypeInv /\ Ledgers /\ [Next]_vars => TypeInv' /\ Ledgers'
  BY StepTypeInv, StepLedgers
<1>3. Ledgers => LedgerMatchesStock
  BY DEF Ledgers
<1> QED BY <1>1, <1>2, <1>3, PTL DEF Spec

-----------------------------------------------------------------------------
(* Goods stand where reservations and marking codes say *)

InPlace(r) ==
    /\ placed[r] >= 1
    /\ Known(resv[r].code) =>
         OnHand[<<resv[r].loc, ProductOf[resv[r].code]>>] >= Boxes(resv[r].code)

(* A confirmation that does not redirect its reservation either still sees *)
(* it at the scanned location, or another one has placed its goods since.  *)
Planned ==
    \A p \in Procs :
      Confirming(p) /\ ~req[p].redirect =>
        resv[req[p].res].loc = req[p].loc \/ InPlace(req[p].res)

Goods == ConfirmedGoodsAreInPlace /\ CodeIsWhereItsStockIs /\ Planned

LEMMA InitGoods == Init => Goods
BY DEF Init, Goods, ConfirmedGoodsAreInPlace, CodeIsWhereItsStockIs, Planned, Confirming,
       Idle, NoReservation

(* Nothing in this flow takes goods off a shelf. *)
LEMMA StockGrows ==
    ASSUME TypeInv, Ledgers, [Next]_vars
    PROVE  /\ \A x \in Rows : OnHand'[x] >= OnHand[x]
           /\ \A r \in Reservations : placed'[r] >= placed[r]
<1>0. OnHand \in [Rows -> Nat] /\ placed \in [Reservations -> Nat]
  BY OnHandType DEF TypeInv, TypeOK
<1>1. ASSUME NEW s \in Sessions, ConfirmCommit(s)
      PROVE  /\ \A x \in Rows : OnHand'[x] >= OnHand[x]
             /\ \A r \in Reservations : placed'[r] >= placed[r]
  <2>1. CodeOf(s) \in Codes /\ Boxes(CodeOf(s)) \in Nat
    BY <1>1, ConfirmCommitStock, BoxesType
  <2>2. \A x \in Rows : OnHand'[x] >= OnHand[x]
    <3>1. CASE Known(CodeOf(s))
      BY <1>0, <1>1, <2>1, <3>1, ConfirmCommitStock
    <3>2. CASE ~Known(CodeOf(s))
      BY <1>0, <1>1, <3>2, ConfirmCommitStock
    <3> QED BY <3>1, <3>2
  <2>3. placed' = [placed EXCEPT ![req[s].res] = @ + 1]
    BY <1>1 DEF ConfirmCommit
  <2> QED BY <1>0, <2>2, <2>3
<1>2. CASE UNCHANGED <<OnHand, placed>>
  BY <1>0, <1>2
<1> QED BY <1>1, <1>2, StockSteps, OnHandStill DEF ConfirmStep, ConfirmPlace, ConfirmRead, StillGoods, tables

(* Goods in place stay there as long as their reservation is not moved.    *)
LEMMA InPlaceStays ==
    ASSUME TypeInv, Ledgers, [Next]_vars, NEW r \in Reservations, resv[r].status # "none",
           InPlace(r), resv'[r].loc = resv[r].loc
    PROVE  InPlace(r)'
<1>1. resv[r] \in ResvRow /\ resv'[r].code = resv[r].code
  BY ExistingRow, ReservationStep DEF TypeInv
<1>2. placed[r] \in Nat /\ placed'[r] \in Nat /\ placed'[r] >= placed[r]
  BY StockGrows, StepTypeInv DEF TypeInv, TypeOK
<1>3. ASSUME Known(resv[r].code)
      PROVE  OnHand'[<<resv[r].loc, ProductOf[resv[r].code]>>] >= Boxes(resv[r].code)
  <2> DEFINE x == <<resv[r].loc, ProductOf[resv[r].code]>>
  <2>1. x \in Rows /\ Boxes(resv[r].code) \in Nat
    BY <1>1, <1>3, RowType, BoxesType DEF ResvRow
  <2>2. OnHand[x] \in Nat /\ OnHand'[x] \in Nat /\ OnHand'[x] >= OnHand[x]
    BY <2>1, StockGrows, StepTypeInv, OnHandType, OnHandTypeAfter
  <2>3. OnHand[x] >= Boxes(resv[r].code)
    BY <1>3 DEF InPlace
  <2> HIDE DEF x
  <2>4. OnHand'[x] >= Boxes(resv[r].code)
    BY <2>1, <2>2, <2>3
  <2> QED BY <2>4 DEF x
<1> QED BY <1>1, <1>2, <1>3 DEF InPlace, Known

(* What a confirmation leaves behind. *)
LEMMA ConfirmCommitInPlace ==
    ASSUME TypeInv, Ledgers, Goods, [Next]_vars, NEW s \in Sessions, ConfirmCommit(s),
           NEW r \in Reservations, r = req[s].res
    PROVE  /\ InPlace(r)'
           /\ Known(CodeOf(s)) =>
                OnHand'[<<req[s].loc, ProductOf[CodeOf(s)]>>] >= Boxes(CodeOf(s))
<1> DEFINE q == req[s]
           c == CodeOf(s)
<1>1. /\ resv'[r].code = c /\ resv'[r].loc = LocAfter(q)
      /\ placed' = [placed EXCEPT ![r] = @ + 1]
  BY ConfirmCommitResv DEF ConfirmCommit, CodeOf
<1>2. /\ s \in Procs /\ Confirming(s) /\ q.redirect \in BOOLEAN /\ c \in Codes
      /\ resv[r].status # "none"
  BY SessionIsProc, RequestFields, ConfirmCommitStock
     DEF ConfirmCommit, Confirming, TypeInv, Existing
<1>3. placed'[r] >= 1
  BY <1>1 DEF TypeInv, TypeOK
<1>4. ASSUME Known(c) PROVE OnHand'[<<q.loc, ProductOf[c]>>] >= Boxes(c)
  <2>1. /\ RowOf(q) \in Rows
        /\ OnHand' = [OnHand EXCEPT ![RowOf(q)] = OnHand[RowOf(q)] + Boxes(c)]
    BY <1>4, ConfirmCommitStock
  <2>2. OnHand[RowOf(q)] \in Nat /\ Boxes(c) \in Nat /\ DOMAIN OnHand = Rows
    BY <1>2, <2>1, BoxesType, OnHandType
  <2>3. RowOf(q) = <<q.loc, ProductOf[c]>>
    BY DEF RowOf, CodeOf
  <2> HIDE DEF c, q
  <2> QED BY <2>1, <2>2, <2>3
<1>5. CASE resv'[r].loc = q.loc
  BY <1>1, <1>3, <1>4, <1>5 DEF InPlace, Known
<1>6. CASE resv'[r].loc # q.loc
  <2>1. ~q.redirect /\ resv'[r].loc = resv[r].loc
    BY <1>1, <1>2, <1>6 DEF LocAfter
  <2>2. InPlace(r)
    BY <1>2, <1>6, <2>1 DEF Goods, Planned
  <2>3. InPlace(r)'
    BY <1>1, <1>2, <2>1, <2>2, InPlaceStays
  <2> QED BY <2>3, <1>4
<1> QED BY <1>4, <1>5, <1>6

LEMMA CodesStayPut ==
    ASSUME TypeInv, Ledgers, Goods, [Next]_vars PROVE CodeIsWhereItsStockIs'
<1> SUFFICES ASSUME NEW c \in Codes, codeLoc'[c] # NoLoc, Known(c)
             PROVE  OnHand'[<<codeLoc'[c], ProductOf[c]>>] >= Boxes(c)
  BY DEF CodeIsWhereItsStockIs, Known
<1>1. CASE codeLoc'[c] = codeLoc[c]
  <2> DEFINE x == <<codeLoc[c], ProductOf[c]>>
  <2>1. codeLoc[c] \in Locations
    BY <1>1 DEF TypeInv, TypeOK
  <2>2. x \in Rows /\ Boxes(c) \in Nat
    BY <2>1, RowType, BoxesType
  <2>3. OnHand[x] >= Boxes(c)
    BY <1>1 DEF Goods, CodeIsWhereItsStockIs
  <2>4. OnHand[x] \in Nat /\ OnHand'[x] \in Nat /\ OnHand'[x] >= OnHand[x]
    BY <2>2, StockGrows, OnHandType, OnHandTypeAfter
  <2> HIDE DEF x
  <2>5. OnHand'[x] >= Boxes(c)
    BY <2>2, <2>3, <2>4
  <2> QED BY <1>1, <2>5 DEF x
<1>2. ASSUME NEW s \in Sessions, ConfirmCommit(s), codeLoc'[c] # codeLoc[c]
      PROVE  OnHand'[<<codeLoc'[c], ProductOf[c]>>] >= Boxes(c)
  <2>1. codeLoc' = [codeLoc EXCEPT ![CodeOf(s)] = req[s].loc]
    BY <1>2 DEF ConfirmCommit, StampedLoc, CodeOf
  <2>2. c = CodeOf(s) /\ codeLoc'[c] = req[s].loc
    BY <1>2, <2>1 DEF TypeInv, TypeOK
  <2> QED BY <1>2, <2>2, ConfirmCommitInPlace, ConfirmCommitResv
<1>3. CASE UNCHANGED codeLoc
  BY <1>1, <1>3
<1> QED BY <1>1, <1>2, <1>3, StockSteps DEF ConfirmStep, ConfirmPlace, ConfirmRead, StillGoods, tables

(* Only a confirmation makes a reservation a confirmed one. *)
LEMMA NewReservation ==
    ASSUME TypeInv, [Next]_vars, NEW r \in Reservations, resv[r].status = "none"
    PROVE  resv'[r].status # "confirmed"
<1>0. TypeOK
  BY DEF TypeInv
<1>1. ASSUME NEW p \in Procs, NEW R \in SUBSET Reservations, NEW st \in ReservationStatus,
             \A t \in R : resv[t].status # "none"
      PROVE  Overwrite(R, st)[r].status = "none"
  BY <1>0, <1>1, OverwriteType
<1>2. {"expired", "cancelled"} \subseteq ReservationStatus
  BY DEF ReservationStatus
<1>3. ASSUME NEW s \in Sessions, ReserveCommit(s) PROVE resv'[r].status # "confirmed"
  <2>1. /\ req[s].stale \subseteq Reservations
        /\ \A t \in req[s].stale : resv[t].status # "none"
    BY <1>0, <1>3, SessionIsProc, RequestFields DEF ReserveCommit, TypeInv, Existing
  <2> DEFINE swept == Overwrite(req[s].stale, "expired")
             row == [status |-> "pending", code |-> req[s].code, loc |-> req[s].loc,
                     overdue |-> FALSE]
  <2>2. PICK new \in Unused : resv' = [swept EXCEPT ![new] = row]
    BY <1>3 DEF ReserveCommit
  <2>3. swept[r].status = "none" /\ DOMAIN swept = Reservations
    BY <1>1, <1>2, <2>1, SessionIsProc DEF Overwrite
  <2>4. row.status = "pending"
    OBVIOUS
  <2> HIDE DEF swept, row
  <2> QED BY <2>2, <2>3, <2>4
<1>4. ASSUME NEW s \in Sessions, CancelCommit(s) PROVE resv'[r].status # "confirmed"
  <2>1. req[s].res \in Reservations /\ resv[req[s].res].status # "none"
    BY <1>0, <1>4, SessionIsProc, RequestFields DEF CancelCommit, TypeInv, Existing
  <2> QED BY <1>1, <1>2, <1>4, <2>1, SessionIsProc DEF CancelCommit
<1>5. ASSUME NEW p \in Procs, SweepCommit(p) PROVE resv'[r].status # "confirmed"
  <2>1. /\ req[p].stale \subseteq Reservations
        /\ \A t \in req[p].stale : resv[t].status # "none"
    BY <1>0, <1>5, RequestFields DEF SweepCommit, TypeInv, Existing
  <2> QED BY <1>1, <1>2, <1>5, <2>1 DEF SweepCommit
<1>6. ASSUME NEW t \in Reservations, TtlElapses(t) PROVE resv'[r].status # "confirmed"
  BY <1>0, <1>6 DEF TtlElapses, Pending, Overdue, TypeOK
<1>7. ASSUME NEW s \in Sessions, ConfirmCommit(s) PROVE resv'[r].status # "confirmed"
  <2>1. resv[req[s].res].status # "none"
    BY <1>7, SessionIsProc DEF ConfirmCommit, TypeInv, Existing
  <2> QED BY <1>7, <2>1, ConfirmCommitResv
<1>8. \/ resv' = resv
      \/ \E s \in Sessions : ReserveCommit(s) \/ CancelCommit(s) \/ ConfirmCommit(s)
      \/ \E p \in Procs : SweepCommit(p)
      \/ \E t \in Reservations : TtlElapses(t)
  BY DEF Next, vars, Reserve, Confirm, Cancel, Sweep, Rollback, ReserveRead, ConfirmRead,
         ConfirmPlace, ConfirmConflict, CancelRead, SweepRead, UpdateLocation, tables
<1> QED BY <1>3, <1>4, <1>5, <1>6, <1>7, <1>8

LEMMA ConfirmedStayInPlace ==
    ASSUME TypeInv, Ledgers, Goods, [Next]_vars PROVE ConfirmedGoodsAreInPlace'
<1> SUFFICES ASSUME NEW r \in Reservations, resv'[r].status = "confirmed"
             PROVE  InPlace(r)'
  BY DEF ConfirmedGoodsAreInPlace, InPlace
<1>1. resv[r].status # "none"
  BY NewReservation
<1>2. CASE \E s \in Sessions : ConfirmCommit(s) /\ r = req[s].res
  BY <1>2, ConfirmCommitInPlace
<1>3. CASE ~\E s \in Sessions : ConfirmCommit(s) /\ r = req[s].res
  <2>1. resv[r].status = "confirmed" /\ resv'[r].loc = resv[r].loc
    BY <1>1, <1>3, ReservationStep, ConfirmCommitResv
  <2>2. InPlace(r)
    BY <2>1 DEF Goods, ConfirmedGoodsAreInPlace, InPlace
  <2> QED BY <1>1, <2>1, <2>2, InPlaceStays
<1> QED BY <1>2, <1>3

LEMMA PlansStay ==
    ASSUME TypeInv, Ledgers, Goods, [Next]_vars PROVE Planned'
<1> SUFFICES ASSUME NEW p \in Procs, Confirming(p)', ~req'[p].redirect,
                    NEW r, r = req'[p].res
             PROVE  resv'[r].loc = req'[p].loc \/ InPlace(r)'
  BY DEF Planned, InPlace
<1>1. ASSUME Confirming(p), req'[p].res = req[p].res, req'[p].loc = req[p].loc,
             req'[p].redirect = req[p].redirect
      PROVE  resv'[r].loc = req'[p].loc \/ InPlace(r)'
  <2>1. r \in Reservations /\ resv[r].status # "none"
    BY <1>1, RequestFields DEF Confirming, TypeInv, Existing
  <2>2. resv[r].loc = req[p].loc \/ InPlace(r)
    BY <1>1 DEF Goods, Planned
  <2>3. CASE \E s \in Sessions : ConfirmCommit(s) /\ r = req[s].res
    BY <2>1, <2>3, ConfirmCommitInPlace
  <2>4. CASE ~\E s \in Sessions : ConfirmCommit(s) /\ r = req[s].res
    <3>1. resv'[r].loc = resv[r].loc
      BY <2>1, <2>4, ReservationStep, ConfirmCommitResv
    <3> QED BY <1>1, <2>1, <2>2, <3>1, InPlaceStays
  <2> QED BY <2>3, <2>4
<1>2. CASE req'[p] = req[p]
  BY <1>1, <1>2 DEF Confirming
<1>3. CASE p \in Sessions /\ ConfirmPlace(p)
  BY <1>1, <1>3 DEF Confirming, ConfirmPlace, TypeInv, TypeOK
<1>4. ASSUME NEW t \in Reservations, NEW l \in Locations, ConfirmRead(p, t, l)
      PROVE  resv'[r].loc = req'[p].loc
  <2>1. req'[p] = [pc |-> "confirming", res |-> t, loc |-> l,
                   redirect |-> l # resv[t].loc, seen |-> status[l]]
    BY <1>4 DEF ConfirmRead, Begin, TypeInv, TypeOK
  <2>2. resv' = resv
    BY <1>4 DEF ConfirmRead, tables
  <2>3. req'[p].redirect = (l # resv[t].loc) /\ req'[p].res = t /\ req'[p].loc = l
    BY <2>1
  <2>4. l = resv[t].loc
    BY <2>3, Zenon
  <2> QED BY <2>2, <2>3, <2>4
<1>5. ASSUME NEW s \in Sessions, ConfirmStep(s), s # p PROVE req'[p] = req[p]
  BY <1>5 DEF ConfirmStep, ConfirmCommit, ConfirmPlace, ConfirmRead, Begin, End, TypeInv, TypeOK
<1>6. ASSUME p \in Sessions, ConfirmCommit(p) PROVE FALSE
  BY <1>6 DEF ConfirmCommit, End, Idle, Confirming, TypeInv, TypeOK
<1>7. CASE StillGoods
  BY <1>2, <1>7 DEF StillGoods
<1> QED BY <1>2, <1>3, <1>4, <1>5, <1>6, <1>7, StockSteps DEF ConfirmStep

LEMMA StepGoods == TypeInv /\ Ledgers /\ Goods /\ [Next]_vars => Goods'
BY CodesStayPut, ConfirmedStayInPlace, PlansStay DEF Goods

(* A confirmed reservation names a location that holds its goods, even when *)
(* overlapping confirmations of it scanned different locations.            *)
THEOREM GoodsAreWhereReserved == Spec => []ConfirmedGoodsAreInPlace
<1> DEFINE Inv == TypeInv /\ Ledgers /\ Goods
<1>1. Init => Inv
  BY InitTypeInv, InitLedgers, InitGoods
<1>2. Inv /\ [Next]_vars => Inv'
  BY StepTypeInv, StepLedgers, StepGoods
<1>3. Inv => ConfirmedGoodsAreInPlace
  BY DEF Goods
<1> QED BY <1>1, <1>2, <1>3, PTL DEF Spec

(* The location stamped on a marking code holds the boxes of that code.    *)
THEOREM CodesAreWhereStamped == Spec => []CodeIsWhereItsStockIs
<1> DEFINE Inv == TypeInv /\ Ledgers /\ Goods
<1>1. Init => Inv
  BY InitTypeInv, InitLedgers, InitGoods
<1>2. Inv /\ [Next]_vars => Inv'
  BY StepTypeInv, StepLedgers, StepGoods
<1>3. Inv => CodeIsWhereItsStockIs
  BY DEF Goods
<1> QED BY <1>1, <1>2, <1>3, PTL DEF Spec

-----------------------------------------------------------------------------
(* Boxes on the shelves and boxes confirmed *)

LEMMA FiniteTables ==
    IsFiniteSet(Locations) /\ IsFiniteSet(Products) /\ IsFiniteSet(Reservations)
BY PutawayAssumption DEF PutawayAssumption

(* The reservations of a product, and the boxes each has put on shelves.   *)
OfProduct(p) == {r \in Reservations : resv[r].status # "none" /\ ProductOf[resv[r].code] = p}
PlacedBoxes == [r \in Reservations |-> placed[r] * Boxes(resv[r].code)]
OnShelves(p) == [l \in Locations |-> OnHand[<<l, p>>]]

UnusedPlacedNothing == \A r \in Reservations : resv[r].status = "none" => placed[r] = 0

Balanced == UnusedPlacedNothing /\ StockComesFromConfirmations

LEMMA RowBoxes ==
    ASSUME NEW row \in ResvRow \cup {NoReservation}, row.status # "none"
    PROVE  row.code \in Codes /\ row.loc \in Locations /\ Boxes(row.code) \in Nat
<1>1. row \in ResvRow
  BY DEF NoReservation
<1> QED BY <1>1, BoxesType DEF ResvRow

LEMMA TimesType ==
    ASSUME NEW m \in Nat, NEW n \in Nat
    PROVE  m * n \in Nat /\ 0 * n = 0 /\ (m + 1) * n = m * n + n
OBVIOUS

LEMMA InitBalanced == Init => Balanced
<1> SUFFICES ASSUME Init PROVE Balanced
    OBVIOUS
<1>1. UnusedPlacedNothing
  BY DEF Init, UnusedPlacedNothing
<1>2. ASSUME NEW p \in Products
      PROVE  Total(OnShelves(p), Locations) = Total(PlacedBoxes, OfProduct(p))
  <2>1. \A l \in Locations : OnShelves(p)[l] = 0
    BY DEF Init, OnShelves, OnHand, Rows
  <2>2. OfProduct(p) = {}
    BY DEF Init, OfProduct, NoReservation
  <2> QED BY <2>1, <2>2, FiniteTables, TotalZero, TotalEmpty
<1> QED BY <1>1, <1>2
        DEF Balanced, StockComesFromConfirmations, OnShelves, PlacedBoxes, OfProduct

(* Steps that place nothing: reservations may begin to exist. *)
LEMMA QuietBalanced ==
    ASSUME TypeInv, Balanced, [Next]_vars, UNCHANGED <<OnHand, placed>>
    PROVE  Balanced'
<1>0. resv \in [Reservations -> ResvRow \cup {NoReservation}] /\ placed \in [Reservations -> Nat]
  BY DEF TypeInv, TypeOK, ResvRow
<1>1. resv' \in [Reservations -> ResvRow \cup {NoReservation}]
  BY StepTypeInv DEF TypeInv, TypeOK, ResvRow
<1>2. \A r \in Reservations : resv[r].status # "none" =>
        resv'[r].status # "none" /\ resv'[r].code = resv[r].code
  BY ReservationStep
<1>3. UnusedPlacedNothing'
  BY <1>2 DEF Balanced, UnusedPlacedNothing
<1>4. ASSUME NEW p \in Products
      PROVE  Total(OnShelves(p)', Locations) = Total(PlacedBoxes', OfProduct(p)')
  <2>1. OnShelves(p)' = OnShelves(p)
    BY DEF OnShelves
  <2>2. OfProduct(p) \subseteq OfProduct(p)' /\ OfProduct(p)' \subseteq Reservations
    BY <1>2 DEF OfProduct
  <2>3. \A r \in OfProduct(p) :
          PlacedBoxes'[r] = PlacedBoxes[r] /\ PlacedBoxes[r] \in Int
    <3> SUFFICES ASSUME NEW r \in OfProduct(p)
                 PROVE  PlacedBoxes'[r] = PlacedBoxes[r] /\ PlacedBoxes[r] \in Int
      OBVIOUS
    <3>1. r \in Reservations /\ resv[r].status # "none"
      BY DEF OfProduct
    <3>2. PlacedBoxes'[r] = PlacedBoxes[r] /\ PlacedBoxes[r] = placed[r] * Boxes(resv[r].code)
      BY <1>2, <3>1 DEF PlacedBoxes
    <3>3. placed[r] * Boxes(resv[r].code) \in Nat
      BY <1>0, <3>1, RowBoxes, TimesType
    <3> QED BY <3>2, <3>3
  <2>4. \A r \in OfProduct(p)' \ OfProduct(p) : PlacedBoxes'[r] = 0
    <3> SUFFICES ASSUME NEW r \in OfProduct(p)' \ OfProduct(p) PROVE PlacedBoxes'[r] = 0
      OBVIOUS
    <3>1. r \in Reservations /\ resv'[r].status # "none" /\ resv[r].status = "none"
      BY <1>2 DEF OfProduct
    <3>2. placed'[r] = 0
      BY <3>1 DEF Balanced, UnusedPlacedNothing
    <3>3. PlacedBoxes'[r] = placed'[r] * Boxes(resv'[r].code)
      BY <3>1 DEF PlacedBoxes
    <3>4. Boxes(resv'[r].code) \in Nat
      BY <1>1, <3>1, RowBoxes
    <3> QED BY <3>2, <3>3, <3>4, TimesType
  <2>5. Total(PlacedBoxes', OfProduct(p)') = Total(PlacedBoxes', OfProduct(p))
    <3>1. IsFiniteSet(OfProduct(p)')
      BY <2>2, FiniteTables, FS_Subset
    <3> QED BY <2>2, <2>3, <2>4, <3>1, TotalOutside
  <2>6. Total(PlacedBoxes', OfProduct(p)) = Total(PlacedBoxes, OfProduct(p))
    <3>1. IsFiniteSet(OfProduct(p))
      BY <2>2, FiniteTables, FS_Subset
    <3> QED BY <2>3, <3>1, TotalSame
  <2>7. Total(OnShelves(p), Locations) = Total(PlacedBoxes, OfProduct(p))
    BY DEF Balanced, StockComesFromConfirmations, OnShelves, PlacedBoxes, OfProduct
  <2> QED BY <2>1, <2>5, <2>6, <2>7
<1>5. StockComesFromConfirmations'
  BY <1>4 DEF StockComesFromConfirmations, OnShelves, PlacedBoxes, OfProduct
<1> QED BY <1>3, <1>5 DEF Balanced

(* A confirmation puts as many boxes on a shelf as it counts as placed.    *)
LEMMA ConfirmBalanced ==
    ASSUME TypeInv, Ledgers, Balanced, [Next]_vars, NEW s \in Sessions, ConfirmCommit(s)
    PROVE  Balanced'
<1>0. resv \in [Reservations -> ResvRow \cup {NoReservation}] /\ placed \in [Reservations -> Nat]
      /\ OnHand \in [Rows -> Nat]
  BY OnHandType DEF TypeInv, TypeOK, ResvRow
<1>1. PICK t \in Reservations : t = req[s].res
  BY ConfirmCommitResv
<1>2. resv[t].status # "none" /\ resv'[t].status # "none"
  BY <1>1, SessionIsProc, ReservationStep DEF ConfirmCommit, TypeInv, Existing
<1>3. PICK c \in Codes : c = resv[t].code
  BY <1>0, <1>2, RowBoxes
<1>4. Boxes(c) \in Nat
  BY BoxesType
<1>5. placed' = [placed EXCEPT ![t] = @ + 1]
  BY <1>1 DEF ConfirmCommit
<1>6. \A r \in Reservations : /\ resv'[r].code = resv[r].code
                              /\ resv'[r].status = "none" <=> resv[r].status = "none"
  BY <1>1, <1>2, ConfirmCommitResv
<1>7. CodeOf(s) = c /\ RowOf(req[s]) = <<req[s].loc, ProductOf[c]>>
  BY <1>1, <1>3 DEF CodeOf, RowOf
<1>8. PICK k \in Locations : k = req[s].loc
  BY ConfirmCommitStock
<1>9. UnusedPlacedNothing'
  BY <1>0, <1>2, <1>5, <1>6 DEF Balanced, UnusedPlacedNothing
<1>10. ASSUME NEW p \in Products
       PROVE  Total(OnShelves(p)', Locations) = Total(PlacedBoxes', OfProduct(p)')
  <2>1. OfProduct(p)' = OfProduct(p) /\ OfProduct(p) \subseteq Reservations
    BY <1>6 DEF OfProduct
  <2>2. \A r \in OfProduct(p) : /\ PlacedBoxes[r] \in Int
                                /\ r # t => PlacedBoxes'[r] = PlacedBoxes[r]
    <3> SUFFICES ASSUME NEW r \in OfProduct(p)
                 PROVE  /\ PlacedBoxes[r] \in Int
                        /\ r # t => PlacedBoxes'[r] = PlacedBoxes[r]
      OBVIOUS
    <3>1. r \in Reservations /\ resv[r].status # "none"
      BY DEF OfProduct
    <3>2. PlacedBoxes[r] = placed[r] * Boxes(resv[r].code)
          /\ PlacedBoxes'[r] = placed'[r] * Boxes(resv[r].code)
      BY <1>6, <3>1 DEF PlacedBoxes
    <3>3. placed[r] * Boxes(resv[r].code) \in Nat /\ (r # t => placed'[r] = placed[r])
      BY <1>0, <1>5, <3>1, RowBoxes, TimesType
    <3> QED BY <3>2, <3>3
  <2>3. PlacedBoxes'[t] = PlacedBoxes[t] + Boxes(c) /\ PlacedBoxes[t] \in Int
    <3>1. PlacedBoxes[t] = placed[t] * Boxes(c) /\ PlacedBoxes'[t] = placed'[t] * Boxes(c)
      BY <1>3, <1>6 DEF PlacedBoxes
    <3>2. placed[t] \in Nat /\ placed'[t] = placed[t] + 1
      BY <1>0, <1>5
    <3> QED BY <1>4, <3>1, <3>2, TimesType
  <2>4. t \in OfProduct(p) <=> ProductOf[c] = p
    BY <1>2, <1>3 DEF OfProduct
  <2>5. IsFiniteSet(OfProduct(p))
    BY <2>1, FiniteTables, FS_Subset
  <2>6. Total(OnShelves(p), Locations) = Total(PlacedBoxes, OfProduct(p))
    BY DEF Balanced, StockComesFromConfirmations, OnShelves, PlacedBoxes, OfProduct
  <2>7. \A l \in Locations : OnShelves(p)[l] = OnHand[<<l, p>>] /\ OnShelves(p)[l] \in Int
    BY <1>0 DEF OnShelves, Rows
  <2>8. \A l \in Locations : OnShelves(p)'[l] = OnHand'[<<l, p>>]
    BY DEF OnShelves
  <2>9. CASE ProductOf[c] = p
    <3>1. Known(c)
      BY <2>9 DEF Known
    <3>2. OnHand' = [OnHand EXCEPT ![<<k, p>>] = OnHand[<<k, p>>] + Boxes(c)] /\ <<k, p>> \in Rows
      BY <1>7, <1>8, <2>9, <3>1, ConfirmCommitStock
    <3>3. OnShelves(p)'[k] = OnShelves(p)[k] + Boxes(c)
          /\ \A l \in Locations : l # k => OnShelves(p)'[l] = OnShelves(p)[l]
      BY <1>0, <1>4, <2>7, <2>8, <3>2 DEF Rows
    <3>4. Total(OnShelves(p)', Locations) = Total(OnShelves(p), Locations) + Boxes(c)
      <4>0. OnShelves(p)[k] \in Int
        BY <2>7
      <4>1. OnShelves(p)'[k] \in Int /\ OnShelves(p)[k] \in Int
        BY <1>4, <3>3, <4>0
      <4>2. Total(OnShelves(p)', Locations)
              = Total(OnShelves(p), Locations) + OnShelves(p)'[k] - OnShelves(p)[k]
        BY <2>7, <3>3, <4>1, FiniteTables, TotalChange
      <4>3. Total(OnShelves(p), Locations) \in Int
        BY <2>7, FiniteTables, TotalInt
      <4> QED BY <1>4, <3>3, <4>1, <4>2, <4>3
    <3>5. Total(PlacedBoxes', OfProduct(p)) = Total(PlacedBoxes, OfProduct(p)) + Boxes(c)
      <4>1. PlacedBoxes'[t] \in Int /\ t \in OfProduct(p)
        BY <1>4, <2>3, <2>4, <2>9
      <4>2. Total(PlacedBoxes', OfProduct(p))
              = Total(PlacedBoxes, OfProduct(p)) + PlacedBoxes'[t] - PlacedBoxes[t]
        BY <2>2, <2>5, <4>1, TotalChange
      <4>3. Total(PlacedBoxes, OfProduct(p)) \in Int
        BY <2>2, <2>5, TotalInt
      <4> QED BY <1>4, <2>3, <4>2, <4>3
    <3> QED BY <2>1, <2>6, <3>4, <3>5
  <2>10. CASE ProductOf[c] # p
    <3>1. \A l \in Locations : OnHand'[<<l, p>>] = OnHand[<<l, p>>]
      <4>1. CASE Known(c)
        <5>1. OnHand' = [OnHand EXCEPT ![<<k, ProductOf[c]>>] = OnHand[<<k, ProductOf[c]>>] + Boxes(c)]
          BY <1>7, <1>8, <4>1, ConfirmCommitStock
        <5> QED BY <1>0, <2>10, <5>1 DEF Rows
      <4>2. CASE ~Known(c)
        BY <1>7, <4>2, ConfirmCommitStock
      <4> QED BY <4>1, <4>2
    <3>2. Total(OnShelves(p)', Locations) = Total(OnShelves(p), Locations)
      BY <2>7, <2>8, <3>1, FiniteTables, TotalSame
    <3>3. Total(PlacedBoxes', OfProduct(p)) = Total(PlacedBoxes, OfProduct(p))
      BY <2>2, <2>4, <2>5, <2>10, TotalSame
    <3> QED BY <2>1, <2>6, <3>2, <3>3
  <2> QED BY <2>9, <2>10
<1>11. StockComesFromConfirmations'
  BY <1>10 DEF StockComesFromConfirmations, OnShelves, PlacedBoxes, OfProduct
<1> QED BY <1>9, <1>11 DEF Balanced

LEMMA StepBalanced == TypeInv /\ Ledgers /\ Balanced /\ [Next]_vars => Balanced'
<1> SUFFICES ASSUME TypeInv, Ledgers, Balanced, [Next]_vars PROVE Balanced'
    OBVIOUS
<1>1. (\E s \in Sessions : ConfirmCommit(s)) \/ UNCHANGED <<OnHand, placed>>
  BY StockSteps, OnHandStill DEF ConfirmStep, ConfirmPlace, ConfirmRead, StillGoods, tables
<1> QED BY <1>1, ConfirmBalanced, QuietBalanced

(* Every box of a product on a shelf was counted by a confirmation, and    *)
(* every box a confirmation counted is on a shelf, however confirmations   *)
(* overlap, fail to insert their row or are rolled back (confirm_putaway). *)
THEOREM ShelvesAddUp == Spec => []StockComesFromConfirmations
<1> DEFINE Inv == TypeInv /\ Ledgers /\ Balanced
<1>1. Init => Inv
  BY InitTypeInv, InitLedgers, InitBalanced
<1>2. Inv /\ [Next]_vars => Inv'
  BY StepTypeInv, StepLedgers, StepBalanced
<1>3. Inv => StockComesFromConfirmations
  BY DEF Balanced
<1> QED BY <1>1, <1>2, <1>3, PTL DEF Spec

-----------------------------------------------------------------------------
(* What the terminal suggests *)

(* Holds count for more as long as the overdue ones are among them. *)
LEMMA HeldMonotone ==
    ASSUME TypeInv, NEW l \in Locations, NEW R \in SUBSET Pending, NEW T \in SUBSET R
    PROVE  HeldAt(l, T) <= HeldAt(l, R) /\ HeldAt(l, R) \in Nat /\ HeldAt(l, T) \in Nat
<1> DEFINE f(U) == [r \in U |-> Boxes(resv[r].code)]
           At(U) == {r \in U : resv[r].loc = l}
<1>1. ASSUME NEW U \in SUBSET R
      PROVE  IsFiniteSet(At(U)) /\ \A r \in At(U) : f(U)[r] = f(R)[r] /\ f(R)[r] \in Nat
  <2>1. U \subseteq Reservations
    BY DEF Pending
  <2>2. IsFiniteSet(At(U))
    BY <2>1, FiniteTables, FS_Subset
  <2>3. ASSUME NEW r \in At(U) PROVE f(U)[r] = f(R)[r] /\ f(R)[r] \in Nat
    <3>1. r \in Reservations /\ resv[r].status # "none" /\ r \in U /\ r \in R
      BY <2>1 DEF Pending
    <3>2. Boxes(resv[r].code) \in Nat
      BY <3>1, RowBoxes DEF TypeInv, TypeOK, ResvRow
    <3> QED BY <3>1, <3>2
  <2> QED BY <2>2, <2>3
<1>2. Total(f(T), At(T)) = Total(f(R), At(T))
  <2> HIDE DEF f, At
  <2>1. IsFiniteSet(At(T)) /\ \A r \in At(T) : f(T)[r] = f(R)[r] /\ f(R)[r] \in Int
    <3>1. IsFiniteSet(At(T)) /\ \A r \in At(T) : f(T)[r] = f(R)[r] /\ f(R)[r] \in Nat
      BY <1>1
    <3> QED BY <3>1
  <2> QED BY <2>1, TotalSame
<1>3. At(T) \in SUBSET At(R)
  OBVIOUS
<1>4. IsFiniteSet(At(R)) /\ \A r \in At(R) : f(R)[r] \in Nat
  BY <1>1
<1>5. IsFiniteSet(At(T)) /\ \A r \in At(T) : f(R)[r] \in Nat
  BY <1>1
<1> HIDE DEF f, At
<1>6. Total(f(R), At(T)) <= Total(f(R), At(R))
  BY <1>3, <1>4, TotalPart
<1>7. Total(f(R), At(R)) \in Nat /\ Total(f(R), At(T)) \in Nat
  BY <1>4, <1>5, TotalNat
<1> QED BY <1>2, <1>6, <1>7 DEF HeldAt, f, At

LEMMA StockAtType ==
    ASSUME TypeInv, NEW l \in Locations
    PROVE  StockAt(l) \in Nat
<1>1. \A p \in Products : [q \in Products |-> OnHand[<<l, q>>]][p] \in Nat
  BY OnHandType DEF Rows
<1> QED BY <1>1, FiniteTables, TotalNat DEF StockAt

LEMMA CapacityType ==
    ASSUME NEW l \in Locations, NEW p \in Products
    PROVE  CapacityBoxes(l, p) \in Nat
<1>1. MaxPallets[l] \in Nat /\ BoxesPerPallet[ArticleOf[p]] \in Nat
  BY PutawayAssumption DEF PutawayAssumption
<1> QED BY <1>1, TimesType DEF CapacityBoxes

LEMMA SuggestionsAreReservable == TypeInv => SuggestedIsReservable
<1> SUFFICES ASSUME TypeInv, NEW c \in Codes
             PROVE  /\ \A S \in Suggestions(c) : \A l \in S :
                         (Known(c) => Shown(c, l) >= Boxes(c)) => Reservable(c, l)
                    /\ \A S \in Searched : \A l \in S : CanPlace(c, l) => Reservable(c, l)
  BY DEF SuggestedIsReservable
<1>1. \A l : CanPlace(c, l) => Reservable(c, l)
  BY DEF CanPlace, Reservable, Mixes
<1>2. ASSUME Known(c), NEW l \in Candidates(c), Shown(c, l) >= Boxes(c)
      PROVE  Reservable(c, l)
  <2>1. l \in Locations /\ status[l] # "blocked" /\ ~Mixes(c, l)
    BY SlottingAssumption DEF Candidates, SlottingAssumption
  <2>2. Live \in SUBSET Pending
    BY DEF Live
  <2>3. HeldAt(l, Live) <= HeldAt(l, Pending) /\ HeldAt(l, Live) \in Nat /\ HeldAt(l, Pending) \in Nat
    BY <2>1, <2>2, HeldMonotone
  <2>4. /\ StockAt(l) \in Nat /\ Boxes(c) \in Nat
        /\ CapacityBoxes(l, ProductOf[c]) \in Nat
    BY <1>2, <2>1, StockAtType, CapacityType, BoxesType DEF Known
  <2>5. RemainingBoxes(l, ProductOf[c], Live) >= Boxes(c)
    BY <1>2, <2>3, <2>4 DEF RemainingBoxes, Shown, SumHeld
  <2> QED BY <2>1, <2>5 DEF Reservable, Mixes
<1>3. \A S \in Suggestions(c) : \A l \in S :
        (Known(c) => Shown(c, l) >= Boxes(c)) => Reservable(c, l)
  BY <1>1, <1>2 DEF Suggestions, Ranked, Largest
<1> QED BY <1>1, <1>3

(* The terminal never proposes a place that reserving would refuse at that *)
(* moment, for any zones, rules and holds (suggest_locations,              *)
(* search_locations, reserve_slot).                                        *)
THEOREM SuggestionsHold == Spec => []SuggestedIsReservable
BY InitTypeInv, StepTypeInv, SuggestionsAreReservable, PTL DEF Spec

-----------------------------------------------------------------------------
(* One operator at a time: the session s, beside the workers' sweeps, the  *)
(* clock and the managers.                                                 *)

Tables == [Reservations -> ResvRow \cup {NoReservation}]

(* HeldAt for any contents of the reservations table. *)
HeldIn(table, l, R) ==
    Total([r \in R |-> Boxes(table[r].code)], {r \in R : table[r].loc = l})

LEMMA HeldInType ==
    ASSUME NEW t \in Tables, NEW l, NEW R \in SUBSET Reservations,
           \A r \in R : t[r].status # "none"
    PROVE  /\ IsFiniteSet({r \in R : t[r].loc = l})
           /\ \A r \in R : Boxes(t[r].code) \in Nat
           /\ HeldIn(t, l, R) \in Nat
<1>1. IsFiniteSet({r \in R : t[r].loc = l})
  BY FiniteTables, FS_Subset
<1>2. \A r \in R : Boxes(t[r].code) \in Nat
  BY RowBoxes DEF Tables
<1>3. \A r \in {r \in R : t[r].loc = l} : [q \in R |-> Boxes(t[q].code)][r] \in Nat
  BY <1>2
<1> QED BY <1>1, <1>2, <1>3, TotalNat DEF HeldIn

(* Fewer reservations hold less, those that moved to l not counted. *)
LEMMA HeldInLeq ==
    ASSUME NEW t \in Tables, NEW u \in Tables, NEW l,
           NEW R \in SUBSET Reservations, NEW U \in SUBSET R,
           \A r \in R : t[r].status # "none",
           \A r \in U : /\ u[r].status # "none" /\ u[r].code = t[r].code
                        /\ u[r].loc = l => t[r].loc = l
    PROVE  HeldIn(u, l, U) <= HeldIn(t, l, R)
<1> DEFINE f == [r \in R |-> Boxes(t[r].code)]
           g == [r \in U |-> Boxes(u[r].code)]
           A == {r \in R : t[r].loc = l}
           B == {r \in U : u[r].loc = l}
<1>1. IsFiniteSet(A) /\ \A r \in R : Boxes(t[r].code) \in Nat
  BY HeldInType
<1>2. B \in SUBSET A
  OBVIOUS
<1>3. \A r \in A : f[r] \in Nat
  BY <1>1
<1>4. \A r \in B : g[r] = f[r] /\ f[r] \in Int
  BY <1>1
<1>5. HeldIn(u, l, U) = Total(g, B) /\ HeldIn(t, l, R) = Total(f, A)
  BY DEF HeldIn
<1> HIDE DEF f, g, A, B
<1>6. IsFiniteSet(B)
  BY <1>1, <1>2, FS_Subset
<1>7. Total(g, B) = Total(f, B)
  BY <1>4, <1>6, TotalSame
<1>8. Total(f, B) <= Total(f, A)
  BY <1>1, <1>2, <1>3, TotalPart
<1> QED BY <1>5, <1>7, <1>8

LEMMA HeldInWith ==
    ASSUME NEW t \in Tables, NEW l, NEW R \in SUBSET Reservations,
           NEW a \in Reservations \ R,
           \A r \in R \cup {a} : t[r].status # "none"
    PROVE  HeldIn(t, l, R \cup {a})
             = HeldIn(t, l, R) + (IF t[a].loc = l THEN Boxes(t[a].code) ELSE 0)
<1> DEFINE f == [r \in R \cup {a} |-> Boxes(t[r].code)]
           g == [r \in R |-> Boxes(t[r].code)]
           A == {r \in R \cup {a} : t[r].loc = l}
           B == {r \in R : t[r].loc = l}
<1>1. IsFiniteSet(B) /\ \A r \in R \cup {a} : Boxes(t[r].code) \in Nat
  BY HeldInType
<1>2. \A r \in R \cup {a} : f[r] \in Int
  BY <1>1
<1>3. \A r \in B : g[r] = f[r] /\ f[r] \in Int
  BY <1>1
<1>4. HeldIn(t, l, R \cup {a}) = Total(f, A) /\ HeldIn(t, l, R) = Total(g, B)
  BY DEF HeldIn
<1>5. f[a] = Boxes(t[a].code) /\ a \notin B /\ B \subseteq R \cup {a}
  OBVIOUS
<1>6. IF t[a].loc = l THEN A = B \cup {a} ELSE A = B
  OBVIOUS
<1> HIDE DEF f, g, A, B
<1>7. Total(g, B) = Total(f, B) /\ Total(f, B) \in Int
  BY <1>1, <1>3, TotalSame, TotalInt
<1>8. CASE t[a].loc = l
  <2>1. \A r \in B \cup {a} : f[r] \in Int
    BY <1>2, <1>5
  <2>2. Total(f, B \cup {a}) = f[a] + Total(f, B)
    BY <1>1, <1>5, <2>1, TotalWith
  <2>3. f[a] \in Int
    BY <1>2
  <2>4. A = B \cup {a}
    BY <1>6, <1>8
  <2>5. HeldIn(t, l, R \cup {a}) = f[a] + Total(f, B) /\ HeldIn(t, l, R) = Total(f, B)
    BY <1>4, <1>7, <2>2, <2>4
  <2> QED BY <1>5, <1>7, <1>8, <2>3, <2>5
<1>9. CASE t[a].loc # l
  <2>1. A = B
    BY <1>6, <1>9
  <2>2. HeldIn(t, l, R) \in Int /\ HeldIn(t, l, R \cup {a}) = HeldIn(t, l, R)
    BY <1>4, <1>7, <2>1
  <2> QED BY <1>9, <2>2
<1> QED BY <1>8, <1>9

LEMMA HeldIs == \A l, R : HeldAt(l, R) = HeldIn(resv, l, R)
BY DEF HeldAt, HeldIn

LEMMA HeldWillBe ==
    ASSUME NEW l, NEW S
    PROVE  /\ HeldAt(l, S)' = HeldIn(resv', l, S)
           /\ HeldAt(l, Pending \ S)' = HeldIn(resv', l, Pending' \ S)
BY DEF HeldAt, HeldIn

(* Steps that put nothing on a shelf and open no reservation.              *)
QuietFor(s) ==
    /\ UNCHANGED <<OnHand, bypassed>>
    /\ Pending' \subseteq Pending
    /\ \A r \in Reservations :
         /\ resv[r].status # "none" => resv'[r].loc = resv[r].loc
         /\ resv'[r].status = "confirmed" => resv[r].status = "confirmed"
    /\ \A l \in Locations : status'[l] = status[l] \/ status'[l] \in PatchStatuses
    /\ req'[s] = req[s] \/ req'[s].pc \notin {"reserving", "confirming", "placing"}

ReserveStep(s) ==
    \/ ReserveCommit(s)
    \/ \E c \in Codes, l \in Locations, force \in BOOLEAN : ReserveRead(s, c, l, force)

LEMMA AloneSteps ==
    ASSUME TypeInv, [Next]_vars, NEW s, Sessions = {s}
    PROVE  QuietFor(s) \/ ReserveStep(s) \/ ConfirmStep(s)
<1>0. TypeOK /\ s \in Procs
  BY SessionIsProc DEF TypeInv
<1>1. ASSUME NEW p \in Procs, NEW new, req' = [req EXCEPT ![p] = new],
             new.pc \notin {"reserving", "confirming", "placing"}
      PROVE  req'[s] = req[s] \/ req'[s].pc \notin {"reserving", "confirming", "placing"}
  BY <1>0, <1>1 DEF TypeOK
<1>2. ASSUME NEW p \in Procs, NEW new, req' = [req EXCEPT ![p] = new], UNCHANGED tables,
             new.pc \notin {"reserving", "confirming", "placing"}
      PROVE  QuietFor(s)
  <2>1. UNCHANGED <<resv, status, rows, stock, extra, ledger, placed, codeLoc, bypassed>>
    BY <1>2 DEF tables
  <2>2. Pending' = Pending
    BY <2>1 DEF Pending
  <2> QED BY <1>1, <1>2, <2>1, <2>2, OnHandStill DEF QuietFor
<1>3. ASSUME NEW p \in Procs, NEW R \in SUBSET Reservations, NEW st \in {"expired", "cancelled"},
             \A r \in R : resv[r].status # "none", resv' = Overwrite(R, st), End(p),
             UNCHANGED <<status, stock, extra, bypassed>>
      PROVE  QuietFor(s)
  <2>1. \A r \in Reservations :
          /\ resv'[r].loc = resv[r].loc
          /\ resv'[r].status = IF r \in R THEN st ELSE resv[r].status
    BY <1>0, <1>3, OverwriteType DEF ReservationStatus
  <2>2. Pending' \subseteq Pending
    BY <2>1 DEF Pending
  <2>3. req'[s] = req[s] \/ req'[s].pc \notin {"reserving", "confirming", "placing"}
    BY <1>1, <1>3 DEF End, Idle
  <2> QED BY <1>3, <2>1, <2>2, <2>3, OnHandStill DEF QuietFor
<1>4. ASSUME Reserve(s) \/ Confirm(s) \/ Cancel(s)
      PROVE  QuietFor(s) \/ ReserveStep(s) \/ ConfirmStep(s)
  <2>1. CASE Reserve(s)
    BY <2>1 DEF Reserve, ReserveStep
  <2>2. CASE ConfirmConflict(s)
    BY <1>0, <1>2, <2>2 DEF ConfirmConflict, End, Idle
  <2>3. ASSUME NEW r \in Reservations, CancelRead(s, r) PROVE QuietFor(s)
    <3> DEFINE new == [pc |-> "cancelling", res |-> r]
    <3>1. req' = [req EXCEPT ![s] = new] /\ UNCHANGED tables /\ new.pc = "cancelling"
      BY <2>3 DEF CancelRead, Begin
    <3> HIDE DEF new
    <3> QED BY <1>0, <1>2, <3>1
  <2>4. CASE CancelCommit(s)
    <3>1. {req[s].res} \in SUBSET Reservations /\ resv[req[s].res].status # "none"
      BY <1>0, <2>4, RequestFields DEF CancelCommit, TypeInv, Existing
    <3> QED BY <1>0, <1>3, <2>4, <3>1 DEF CancelCommit
  <2> QED BY <1>4, <2>1, <2>2, <2>3, <2>4 DEF Confirm, Cancel, ConfirmStep
<1>5. ASSUME NEW p \in Procs, Sweep(p) \/ Rollback(p) PROVE QuietFor(s)
  <2>1. CASE SweepRead(p)
    <3> DEFINE new == [pc |-> "sweeping", stale |-> Overdue]
    <3>1. req' = [req EXCEPT ![p] = new] /\ UNCHANGED tables /\ new.pc = "sweeping"
      BY <2>1 DEF SweepRead, Begin
    <3> HIDE DEF new
    <3> QED BY <1>2, <3>1
  <2>2. CASE SweepCommit(p)
    <3>1. /\ req[p].stale \subseteq Reservations
          /\ \A r \in req[p].stale : resv[r].status # "none"
      BY <1>0, <2>2, RequestFields DEF SweepCommit, TypeInv, Existing
    <3> QED BY <1>3, <2>2, <3>1 DEF SweepCommit
  <2>3. CASE Rollback(p)
    BY <1>2, <2>3 DEF Rollback, End, Idle
  <2> QED BY <1>5, <2>1, <2>2, <2>3 DEF Sweep
<1>6. ASSUME NEW r \in Reservations, TtlElapses(r) PROVE QuietFor(s)
  <2>1. resv[r] \in ResvRow /\ resv' = [resv EXCEPT ![r].overdue = TRUE]
    BY <1>0, <1>6, ExistingRow DEF TtlElapses, Pending
  <2>2. \A t \in Reservations : resv'[t].loc = resv[t].loc /\ resv'[t].status = resv[t].status
    BY <1>0, <2>1 DEF TypeOK, ResvRow
  <2>3. Pending' = Pending
    BY <2>2 DEF Pending
  <2> QED BY <1>6, <2>2, <2>3, OnHandStill DEF TtlElapses, QuietFor
<1>7. ASSUME NEW l \in Locations, NEW st \in PatchStatuses, UpdateLocation(l, st)
      PROVE  QuietFor(s)
  <2>1. Pending' = Pending
    BY <1>7 DEF UpdateLocation, Pending
  <2> QED BY <1>0, <1>7, <2>1, OnHandStill DEF UpdateLocation, QuietFor, TypeOK
<1>8. CASE UNCHANGED vars
  BY <1>8, OnHandStill DEF vars, QuietFor, Pending
<1> QED BY <1>4, <1>5, <1>6, <1>7, <1>8 DEF Next

-----------------------------------------------------------------------------
(* Room that was there when the operator's request read stays there.       *)
ReserveFits(s) ==
    \A l \in Locations, c \in Codes, S \in SUBSET Reservations :
      /\ req[s].pc = "reserving" /\ ~req[s].override
      /\ req[s].loc = l /\ req[s].code = c /\ req[s].stale = S
      => /\ Known(c)
         /\ StockAt(l) + HeldAt(l, Pending \ S) + Boxes(c) <= CapacityBoxes(l, ProductOf[c])

ConfirmFits(s) ==
    \A l \in Locations, r \in Reservations :
      /\ Confirming(s) /\ ~req[s].redirect
      /\ req[s].loc = l /\ req[s].res = r
      => /\ resv[r].loc = l
         /\ l \notin bypassed => \A R \in SUBSET Pending : Fits(l, R \cup {r})

RoomKept(s) == NoOverbooking /\ ReserveFits(s) /\ ConfirmFits(s)

LEMMA InitRoom == \A s \in Sessions : Init => RoomKept(s)
<1> SUFFICES ASSUME NEW s \in Sessions, Init PROVE RoomKept(s)
    OBVIOUS
<1>1. req[s].pc = "idle"
  BY SessionIsProc DEF Init, Idle
<1>2. Pending = {}
  BY DEF Init, Pending, NoReservation
<1>3. ASSUME NEW l \in Locations, NEW R \in SUBSET Pending PROVE Fits(l, R)
  <2>1. \A p \in Products : OnHand[<<l, p>>] = 0
    BY DEF Init, OnHand, Rows
  <2>2. GoodsAt(l, R) = {}
    BY <1>2, <2>1 DEF GoodsAt
  <2> QED BY <2>2 DEF Fits
<1> QED BY <1>1, <1>3 DEF RoomKept, NoOverbooking, ReserveFits, ConfirmFits, Confirming

LEMMA TablesBefore == TypeInv => resv \in Tables
BY DEF TypeInv, TypeOK, Tables, ResvRow

LEMMA TablesAfter == TypeInv /\ [Next]_vars => resv' \in Tables
BY StepTypeInv DEF TypeInv, TypeOK, Tables, ResvRow

(* Holds fit as before where nothing was placed and none of them moved. *)
LEMMA FitsCarries ==
    ASSUME TypeInv, [Next]_vars, NEW k \in Locations, NEW R \in SUBSET Reservations, Fits(k, R),
           \A r \in R : resv[r].status # "none" /\ resv'[r].loc = resv[r].loc,
           \A p \in Products : OnHand'[<<k, p>>] = OnHand[<<k, p>>]
    PROVE  Fits(k, R)'
<1>1. \A r \in R : resv'[r].code = resv[r].code /\ resv'[r].status # "none"
  BY ReservationStep
<1>2. GoodsAt(k, R)' = GoodsAt(k, R)
  BY <1>1 DEF GoodsAt
<1>3. StockAt(k)' = StockAt(k) /\ StockAt(k) \in Nat
  <2>1. [p \in Products |-> OnHand'[<<k, p>>]] = [p \in Products |-> OnHand[<<k, p>>]]
    OBVIOUS
  <2> QED BY <2>1, StockAtType DEF StockAt
<1>4. HeldAt(k, R)' <= HeldAt(k, R) /\ HeldAt(k, R)' \in Nat /\ HeldAt(k, R) \in Nat
  <2>1. resv \in Tables /\ resv' \in Tables
    BY TablesBefore, TablesAfter
  <2>2. HeldIn(resv', k, R) <= HeldIn(resv, k, R)
    BY <1>1, <2>1, HeldInLeq
  <2>3. HeldIn(resv', k, R) \in Nat /\ HeldIn(resv, k, R) \in Nat
    BY <1>1, <2>1, HeldInType
  <2> QED BY <2>2, <2>3, HeldIs, HeldWillBe
<1> SUFFICES ASSUME GoodsAt(k, R) # {}
             PROVE  \E p \in GoodsAt(k, R) : StockAt(k)' + HeldAt(k, R)' <= CapacityBoxes(k, p)
  BY <1>2 DEF Fits
<1>5. PICK p \in GoodsAt(k, R) : StockAt(k) + HeldAt(k, R) <= CapacityBoxes(k, p)
  BY DEF Fits
<1>6. CapacityBoxes(k, p) \in Nat
  BY CapacityType DEF GoodsAt
<1> QED BY <1>3, <1>4, <1>5, <1>6

(* Requests that only read. *)
LEMMA ReadRoom ==
    ASSUME TypeInv, [Next]_vars, UNCHANGED <<resv, stock, extra, bypassed>>
    PROVE  /\ Pending' = Pending
           /\ \A k : StockAt(k)' = StockAt(k)
           /\ \A k, R : HeldIn(resv', k, R) = HeldAt(k, R)
           /\ \A k \in Locations, R \in SUBSET Reservations :
                Fits(k, R) /\ (\A r \in R : resv[r].status # "none") => Fits(k, R)'
           /\ NoOverbooking => NoOverbooking'
<1>1. OnHand' = OnHand
  BY OnHandStill
<1>2. Pending' = Pending
  BY DEF Pending
<1>3. ASSUME NEW k \in Locations, NEW R \in SUBSET Reservations,
             Fits(k, R), \A r \in R : resv[r].status # "none"
      PROVE  Fits(k, R)'
  BY <1>1, <1>3, FitsCarries
<1>4. ASSUME NoOverbooking, NEW k \in Locations \ bypassed, NEW R \in SUBSET Pending
      PROVE  Fits(k, R)'
  <2>1. Fits(k, R) /\ R \in SUBSET Reservations /\ \A r \in R : resv[r].status # "none"
    BY <1>4 DEF NoOverbooking, Pending
  <2> QED BY <1>3, <2>1
<1>5. NoOverbooking => NoOverbooking'
  BY <1>2, <1>4 DEF NoOverbooking
<1>6. \A k : StockAt(k)' = StockAt(k)
  BY <1>1 DEF StockAt
<1>7. \A k, R : HeldIn(resv', k, R) = HeldAt(k, R)
  BY HeldIs
<1> QED BY <1>2, <1>3, <1>5, <1>6, <1>7

LEMMA QuietRoom ==
    ASSUME TypeInv, [Next]_vars, NEW s \in Sessions, RoomKept(s), QuietFor(s)
    PROVE  RoomKept(s)'
<1>1. resv \in Tables /\ resv' \in Tables
  BY TablesBefore, TablesAfter
<1>2. /\ OnHand' = OnHand /\ bypassed' = bypassed
      /\ \A l \in Locations : StockAt(l)' = StockAt(l) /\ StockAt(l) \in Nat
  BY StockAtType DEF QuietFor, StockAt
<1>3. Pending' \subseteq Pending /\ \A r \in Pending : r \in Reservations /\ resv[r].status # "none"
  BY DEF QuietFor, Pending
<1>4. ASSUME NEW l \in Locations, NEW R \in SUBSET Reservations, Fits(l, R),
             \A r \in R : resv[r].status # "none"
      PROVE  Fits(l, R)'
  <2>1. \A r \in R : resv'[r].loc = resv[r].loc
    BY <1>4 DEF QuietFor
  <2> QED BY <1>2, <1>4, <2>1, FitsCarries
<1>5. NoOverbooking'
  <2> SUFFICES ASSUME NEW l \in Locations \ bypassed, NEW R \in SUBSET Pending'
               PROVE  Fits(l, R)'
    BY <1>2 DEF NoOverbooking
  <2>1. /\ R \in SUBSET Pending /\ R \in SUBSET Reservations
        /\ \A r \in R : resv[r].status # "none"
    BY <1>3
  <2>2. Fits(l, R)
    BY <2>1 DEF RoomKept, NoOverbooking
  <2> QED BY <1>4, <2>1, <2>2
<1>6. ReserveFits(s)'
  <2> SUFFICES ASSUME NEW l \in Locations, NEW c \in Codes, NEW S \in SUBSET Reservations,
                      req'[s].pc = "reserving", ~req'[s].override,
                      req'[s].loc = l, req'[s].code = c, req'[s].stale = S
               PROVE  /\ Known(c)
                      /\ StockAt(l)' + HeldAt(l, Pending \ S)' + Boxes(c)
                           <= CapacityBoxes(l, ProductOf[c])
    BY DEF ReserveFits, Known
  <2>1. /\ Known(c)
        /\ StockAt(l) + HeldAt(l, Pending \ S) + Boxes(c) <= CapacityBoxes(l, ProductOf[c])
    BY DEF QuietFor, RoomKept, ReserveFits
  <2>2. /\ HeldIn(resv', l, Pending' \ S) <= HeldAt(l, Pending \ S)
        /\ HeldIn(resv', l, Pending' \ S) \in Nat /\ HeldAt(l, Pending \ S) \in Nat
    <3>1. /\ Pending \ S \in SUBSET Reservations /\ Pending' \ S \in SUBSET (Pending \ S)
          /\ \A r \in Pending \ S : resv[r].status # "none"
      BY <1>3
    <3>2. \A r \in Pending \ S : /\ resv'[r].status # "none" /\ resv'[r].code = resv[r].code
                                 /\ resv'[r].loc = resv[r].loc
      BY <3>1, ReservationStep DEF QuietFor
    <3>3. HeldIn(resv', l, Pending' \ S) <= HeldIn(resv, l, Pending \ S)
      BY <1>1, <3>1, <3>2, HeldInLeq
    <3>4. HeldIn(resv', l, Pending' \ S) \in Nat /\ HeldIn(resv, l, Pending \ S) \in Nat
      BY <1>1, <3>1, <3>2, HeldInType
    <3> QED BY <3>3, <3>4, HeldIs
  <2>3. HeldAt(l, Pending \ S)' = HeldIn(resv', l, Pending' \ S)
    BY HeldWillBe
  <2>4. CapacityBoxes(l, ProductOf[c]) \in Nat
    BY <2>1, CapacityType DEF Known
  <2> QED BY <1>2, <2>1, <2>2, <2>3, <2>4, BoxesType
<1>7. ConfirmFits(s)'
  <2> SUFFICES ASSUME NEW l \in Locations, NEW r \in Reservations,
                      Confirming(s)', ~req'[s].redirect, req'[s].loc = l, req'[s].res = r
               PROVE  /\ resv'[r].loc = l
                      /\ l \notin bypassed => \A R \in SUBSET Pending' : Fits(l, R \cup {r})'
    BY <1>2 DEF ConfirmFits
  <2>1. req'[s] = req[s] /\ Confirming(s)
    BY DEF QuietFor, Confirming
  <2>2. resv[r].status # "none"
    BY <2>1, SessionIsProc DEF Confirming, TypeInv, Existing
  <2>3. resv[r].loc = l /\ resv'[r].loc = resv[r].loc
    BY <2>1, <2>2 DEF RoomKept, ConfirmFits, QuietFor
  <2>4. ASSUME l \notin bypassed, NEW R \in SUBSET Pending'
        PROVE  Fits(l, R \cup {r})'
    <3>1. /\ R \in SUBSET Pending /\ R \cup {r} \in SUBSET Reservations
          /\ \A t \in R \cup {r} : resv[t].status # "none"
      BY <1>3, <2>2
    <3>2. Fits(l, R \cup {r})
      BY <2>1, <2>4, <3>1 DEF RoomKept, ConfirmFits
    <3> QED BY <1>4, <3>1, <3>2
  <2> QED BY <2>3, <2>4
<1> QED BY <1>5, <1>6, <1>7 DEF RoomKept

LEMMA ReserveReadRoom ==
    ASSUME TypeInv, [Next]_vars, NEW s \in Sessions, RoomKept(s),
           NEW c \in Codes, NEW l \in Locations, NEW force \in BOOLEAN,
           ReserveRead(s, c, l, force)
    PROVE  RoomKept(s)'
<1>1. UNCHANGED <<resv, stock, extra, bypassed>>
  BY DEF ReserveRead, tables
<1>2. /\ req'[s].pc = "reserving" /\ req'[s].code = c /\ req'[s].loc = l
      /\ req'[s].stale = Overdue /\ req'[s].override = (force \/ ~Known(c))
  BY SessionIsProc DEF ReserveRead, Begin, TypeInv, TypeOK
<1>3. /\ Pending' = Pending
      /\ \A k : StockAt(k)' = StockAt(k)
      /\ \A k, R : HeldIn(resv', k, R) = HeldAt(k, R)
      /\ NoOverbooking'
  BY <1>1, ReadRoom DEF RoomKept
<1>4. ASSUME ~req'[s].override
      PROVE  /\ Known(c)
             /\ StockAt(l) + HeldAt(l, Pending \ Overdue) + Boxes(c)
                  <= CapacityBoxes(l, ProductOf[c])
  <2>1. ~force /\ Known(c)
    BY <1>2, <1>4, Zenon
  <2>2. RemainingBoxes(l, ProductOf[c], Pending \ Overdue) >= Boxes(c)
    BY <2>1 DEF ReserveRead
  <2>3. HeldAt(l, Pending \ Overdue) \in Nat
    <3>1. Pending \ Overdue \in SUBSET Pending
      OBVIOUS
    <3> QED BY <3>1, HeldMonotone
  <2>4. CapacityBoxes(l, ProductOf[c]) \in Nat
    BY <2>1, CapacityType DEF Known
  <2> QED BY <2>1, <2>2, <2>3, <2>4, StockAtType, BoxesType DEF RemainingBoxes
<1>5. ReserveFits(s)'
  <2> SUFFICES ASSUME NEW k \in Locations, NEW e \in Codes, NEW S \in SUBSET Reservations,
                      ~req'[s].override,
                      req'[s].loc = k, req'[s].code = e, req'[s].stale = S
               PROVE  /\ Known(e)
                      /\ StockAt(k)' + HeldAt(k, Pending \ S)' + Boxes(e)
                           <= CapacityBoxes(k, ProductOf[e])
    BY DEF ReserveFits, Known
  <2>1. k = l /\ e = c /\ S = Overdue
    BY <1>2
  <2>2. HeldAt(k, Pending \ S)' = HeldAt(k, Pending \ S)
    <3>1. HeldAt(k, Pending \ S)' = HeldIn(resv', k, Pending' \ S)
      BY HeldWillBe
    <3>2. HeldIn(resv', k, Pending \ S) = HeldAt(k, Pending \ S)
      BY <1>3
    <3> QED BY <1>3, <3>1, <3>2
  <2> QED BY <1>3, <1>4, <2>1, <2>2
<1>6. ConfirmFits(s)'
  BY <1>2 DEF ConfirmFits, Confirming
<1> QED BY <1>3, <1>5, <1>6 DEF RoomKept

LEMMA ReserveCommitRoom ==
    ASSUME TypeInv, [Next]_vars, NEW s \in Sessions, RoomKept(s), ReserveCommit(s)
    PROVE  RoomKept(s)'
<1>0. resv \in Tables /\ resv' \in Tables
  BY TablesBefore, TablesAfter
<1>1. PICK l \in Locations, c \in Codes, S \in SUBSET Reservations :
        /\ req[s].loc = l /\ req[s].code = c /\ req[s].stale = S
        /\ \A r \in S : resv[r].status # "none"
  <2>1. /\ req[s].loc \in Locations /\ req[s].code \in Codes
        /\ req[s].stale \in SUBSET Reservations
    BY SessionIsProc, RequestFields DEF ReserveCommit, TypeInv
  <2>2. \A r \in req[s].stale : resv[r].status # "none"
    BY SessionIsProc DEF ReserveCommit, TypeInv, Existing
  <2> QED BY <2>1, <2>2
<1> DEFINE swept == Overwrite(S, "expired")
           row == [status |-> "pending", code |-> c, loc |-> l, overdue |-> FALSE]
<1>2. PICK new \in Unused : resv' = [swept EXCEPT ![new] = row]
  BY <1>1 DEF ReserveCommit
<1>3. new \in Reservations /\ resv[new].status = "none" /\ new \notin Pending /\ new \notin S
  BY <1>1 DEF Unused, Pending
<1>4. /\ DOMAIN swept = Reservations
      /\ \A r \in Reservations : /\ swept[r].code = resv[r].code
                                 /\ swept[r].loc = resv[r].loc
                                 /\ swept[r].status = IF r \in S THEN "expired" ELSE resv[r].status
  BY <1>1, OverwriteType DEF TypeInv, ReservationStatus
<1>5. row.status = "pending" /\ row.code = c /\ row.loc = l
  OBVIOUS
<1> HIDE DEF swept, row
<1>6. /\ resv'[new].status = "pending" /\ resv'[new].code = c /\ resv'[new].loc = l
      /\ \A r \in Reservations \ {new} :
           /\ resv'[r].code = resv[r].code /\ resv'[r].loc = resv[r].loc
           /\ resv'[r].status = IF r \in S THEN "expired" ELSE resv[r].status
  BY <1>2, <1>3, <1>4, <1>5
<1> DEFINE kept == Pending \ S
<1>7. Pending' = kept \cup {new}
  BY <1>3, <1>6 DEF Pending
<1>8. /\ kept \in SUBSET Reservations /\ kept \in SUBSET Pending /\ new \notin kept
      /\ \A r \in kept : resv[r].status # "none"
      /\ \A r \in kept \cup {new} : resv'[r].status # "none"
      /\ \A r \in kept : resv'[r].code = resv[r].code /\ resv'[r].loc = resv[r].loc
  BY <1>3, <1>6 DEF Pending
<1>9. OnHand' = OnHand /\ \A k : StockAt(k)' = StockAt(k)
  <2>1. OnHand' = OnHand
    BY OnHandStill DEF ReserveCommit
  <2> QED BY <2>1 DEF StockAt
<1>10. ASSUME NEW k \in Locations \ bypassed, NEW T \in SUBSET kept
       PROVE  Fits(k, T)'
  <2>1. /\ T \in SUBSET Reservations
        /\ \A r \in T : resv[r].status # "none" /\ resv'[r].loc = resv[r].loc
    BY <1>8
  <2>2. Fits(k, T)
    BY <1>8 DEF RoomKept, NoOverbooking
  <2> QED BY <1>9, <2>1, <2>2, FitsCarries
(* The holds with the new one among them. *)
<1>11. ASSUME NEW k \in Locations, NEW T \in SUBSET kept
       PROVE  /\ HeldAt(k, T \cup {new})' = HeldAt(k, T)' + (IF l = k THEN Boxes(c) ELSE 0)
              /\ HeldAt(k, T)' \in Nat /\ HeldAt(k, kept) \in Nat
              /\ HeldAt(k, T)' <= HeldAt(k, kept)
  <2>1. /\ T \in SUBSET Reservations /\ new \in Reservations \ T
        /\ \A r \in T \cup {new} : resv'[r].status # "none"
        /\ \A r \in T : resv'[r].code = resv[r].code /\ resv'[r].loc = resv[r].loc
    BY <1>3, <1>8
  <2>2. HeldIn(resv', k, T \cup {new}) = HeldIn(resv', k, T) + (IF l = k THEN Boxes(c) ELSE 0)
    BY <1>0, <1>6, <2>1, HeldInWith
  <2>3. HeldIn(resv', k, T) <= HeldIn(resv, k, kept)
    <3> HIDE DEF kept
    <3> QED BY <1>0, <1>8, <2>1, HeldInLeq
  <2>4. HeldIn(resv', k, T) \in Nat /\ HeldIn(resv, k, kept) \in Nat
    BY <1>0, <1>8, <2>1, HeldInType
  <2> QED BY <2>2, <2>3, <2>4, HeldIs, HeldWillBe
<1>12. NoOverbooking'
  <2> SUFFICES ASSUME NEW k \in Locations \ bypassed', NEW R \in SUBSET Pending'
               PROVE  Fits(k, R)'
    BY DEF NoOverbooking
  <2>1. k \notin bypassed /\ (k = l => ~req[s].override)
    BY <1>1 DEF ReserveCommit
  <2>2. CASE new \notin R
    <3>1. R \in SUBSET kept
      BY <1>7, <2>2
    <3> QED BY <1>10, <2>1, <3>1
  <2>3. CASE new \in R
    <3>1. PICK T \in SUBSET kept : R = T \cup {new}
      <4>1. R \ {new} \in SUBSET kept /\ R = (R \ {new}) \cup {new}
        BY <1>7, <2>3
      <4> QED BY <4>1
    <3>2. CASE k = l
      <4>1. /\ Known(c)
            /\ StockAt(l) + HeldAt(l, kept) + Boxes(c) <= CapacityBoxes(l, ProductOf[c])
        BY <1>1, <2>1, <3>2 DEF ReserveCommit, RoomKept, ReserveFits
      <4>2. ProductOf[c] \in GoodsAt(l, R)'
        BY <1>6, <2>3, <4>1 DEF GoodsAt, Known
      <4>3. StockAt(l)' + HeldAt(l, R)' <= CapacityBoxes(l, ProductOf[c])
        <5>1. CapacityBoxes(l, ProductOf[c]) \in Nat /\ Boxes(c) \in Nat /\ StockAt(l) \in Nat
          BY <4>1, CapacityType, BoxesType, StockAtType DEF Known
        <5>2. /\ HeldAt(l, T \cup {new})' = HeldAt(l, T)' + Boxes(c)
              /\ HeldAt(l, T)' \in Nat /\ HeldAt(l, kept) \in Nat
              /\ HeldAt(l, T)' <= HeldAt(l, kept)
          BY <1>11
        <5> QED BY <1>9, <3>1, <4>1, <5>1, <5>2
      <4> QED BY <3>2, <4>2, <4>3 DEF Fits
    <3>3. CASE k # l
      <4>1. GoodsAt(k, R)' = GoodsAt(k, T)'
        BY <1>6, <3>1, <3>3 DEF GoodsAt
      <4>2. HeldAt(k, R)' = HeldAt(k, T)'
        BY <1>11, <3>1, <3>3
      <4>3. Fits(k, T)'
        BY <1>10, <2>1
      <4> QED BY <4>1, <4>2, <4>3 DEF Fits
    <3> QED BY <3>2, <3>3
  <2> QED BY <2>2, <2>3
<1>13. req'[s].pc = "idle"
  BY SessionIsProc DEF ReserveCommit, End, Idle, TypeInv, TypeOK
<1> QED BY <1>12, <1>13 DEF RoomKept, ReserveFits, ConfirmFits, Confirming

LEMMA ConfirmReadRoom ==
    ASSUME TypeInv, [Next]_vars, NEW s \in Sessions, RoomKept(s),
           NEW r \in Reservations, NEW l \in Locations, ConfirmRead(s, r, l)
    PROVE  RoomKept(s)'
<1>1. UNCHANGED <<resv, stock, extra, bypassed>>
  BY DEF ConfirmRead, tables
<1>2. /\ req'[s].pc = "confirming" /\ req'[s].res = r /\ req'[s].loc = l
      /\ req'[s].redirect = (l # resv[r].loc)
  BY SessionIsProc DEF ConfirmRead, Begin, TypeInv, TypeOK
<1>3. Pending' = Pending /\ NoOverbooking'
  BY <1>1, ReadRoom DEF RoomKept
<1>4. r \in Pending
  BY DEF ConfirmRead, Confirmable, Pending
<1>5. ASSUME ~req'[s].redirect PROVE resv[r].loc = l
  BY <1>2, <1>5, Zenon
<1>6. ConfirmFits(s)'
  <2> SUFFICES ASSUME NEW k \in Locations, NEW t \in Reservations,
                      ~req'[s].redirect, req'[s].loc = k, req'[s].res = t
               PROVE  /\ resv'[t].loc = k
                      /\ k \notin bypassed' => \A R \in SUBSET Pending' : Fits(k, R \cup {t})'
    BY DEF ConfirmFits
  <2>1. k = l /\ t = r
    BY <1>2
  <2>2. ASSUME k \notin bypassed', NEW R \in SUBSET Pending' PROVE Fits(k, R \cup {t})'
    <3>1. R \cup {t} \in SUBSET Pending'
      BY <1>3, <1>4, <2>1
    <3> QED BY <1>3, <2>2, <3>1 DEF NoOverbooking
  <2> QED BY <1>1, <1>5, <2>1, <2>2
<1>7. ReserveFits(s)'
  BY <1>2 DEF ReserveFits
<1> QED BY <1>3, <1>6, <1>7 DEF RoomKept

LEMMA ConfirmPlaceRoom ==
    ASSUME TypeInv, [Next]_vars, NEW s \in Sessions, RoomKept(s), ConfirmPlace(s)
    PROVE  RoomKept(s)'
<1>1. UNCHANGED <<resv, stock, extra, bypassed>>
  BY DEF ConfirmPlace, tables
<1>2. /\ req'[s].pc = "placing" /\ req'[s].res = req[s].res /\ req'[s].loc = req[s].loc
      /\ req'[s].redirect = req[s].redirect /\ req[s].pc = "confirming"
  BY SessionIsProc DEF ConfirmPlace, TypeInv, TypeOK
<1>3. Pending' = Pending /\ NoOverbooking'
  BY <1>1, ReadRoom DEF RoomKept
<1>4. ConfirmFits(s)'
  <2> SUFFICES ASSUME NEW k \in Locations, NEW t \in Reservations,
                      ~req'[s].redirect, req'[s].loc = k, req'[s].res = t
               PROVE  /\ resv'[t].loc = k
                      /\ k \notin bypassed' => \A R \in SUBSET Pending' : Fits(k, R \cup {t})'
    BY DEF ConfirmFits
  <2>1. /\ resv[t].loc = k
        /\ k \notin bypassed => \A R \in SUBSET Pending : Fits(k, R \cup {t})
    BY <1>2 DEF RoomKept, ConfirmFits, Confirming
  <2>2. ASSUME k \notin bypassed', NEW R \in SUBSET Pending' PROVE Fits(k, R \cup {t})'
    <3>1. Fits(k, R \cup {t})
      BY <1>1, <1>3, <2>1, <2>2
    <3>2. /\ R \cup {t} \in SUBSET Reservations
          /\ \A u \in R \cup {t} : resv[u].status # "none"
      BY <1>2, <1>3, SessionIsProc DEF Pending, TypeInv, Existing
    <3> QED BY <1>1, <3>1, <3>2, ReadRoom
  <2> QED BY <1>1, <2>1, <2>2
<1>5. ReserveFits(s)'
  BY <1>2 DEF ReserveFits
<1> QED BY <1>3, <1>4, <1>5 DEF RoomKept

LEMMA ConfirmCommitRoom ==
    ASSUME TypeInv, Ledgers, [Next]_vars, NEW s \in Sessions, RoomKept(s), ConfirmCommit(s)
    PROVE  RoomKept(s)'
<1>0. resv \in Tables /\ resv' \in Tables
  BY TablesBefore, TablesAfter
<1>1. PICK l \in Locations, r \in Reservations :
        req[s].loc = l /\ req[s].res = r /\ resv[r].status # "none"
  BY SessionIsProc, RequestFields DEF ConfirmCommit, TypeInv, Existing
<1>2. PICK c \in Codes : c = resv[r].code
  BY <1>0, <1>1, RowBoxes DEF Tables
<1>3. /\ \A t \in Reservations : resv'[t].code = resv[t].code
      /\ \A t \in Reservations \ {r} : resv'[t] = resv[t]
      /\ resv'[r].status = "confirmed"
  BY <1>1, ConfirmCommitResv
<1>4. Pending' = Pending \ {r}
  BY <1>3 DEF Pending
<1>5. /\ CodeOf(s) = c /\ RowOf(req[s]) = <<l, ProductOf[c]>>
      /\ Boxes(c) \in Nat /\ Boxes(c) > 0 /\ OnHand \in [Rows -> Nat]
  BY <1>1, <1>2, BoxesType, OnHandType DEF CodeOf, RowOf
<1>6. ASSUME NEW k \in Locations, NEW R \in SUBSET Pending', Fits(k, R),
             \A p \in Products : OnHand'[<<k, p>>] = OnHand[<<k, p>>]
      PROVE  Fits(k, R)'
  <2>1. /\ R \in SUBSET Reservations
        /\ \A t \in R : resv[t].status # "none" /\ resv'[t].loc = resv[t].loc
    BY <1>3, <1>4 DEF Pending
  <2> QED BY <1>6, <2>1, FitsCarries
<1>7. ASSUME ~Known(c), NEW k PROVE \A p \in Products : OnHand'[<<k, p>>] = OnHand[<<k, p>>]
  BY <1>5, <1>7, ConfirmCommitStock
<1>8. ASSUME Known(c)
      PROVE  /\ <<l, ProductOf[c]>> \in Rows
             /\ OnHand' = [OnHand EXCEPT ![<<l, ProductOf[c]>>] = OnHand[<<l, ProductOf[c]>>] + Boxes(c)]
  BY <1>5, <1>8, ConfirmCommitStock
<1>9. ASSUME NEW k \in Locations \ {l} PROVE \A p \in Products : OnHand'[<<k, p>>] = OnHand[<<k, p>>]
  <2>1. CASE Known(c)
    BY <1>5, <1>8, <2>1 DEF Rows
  <2>2. CASE ~Known(c)
    BY <1>7, <2>2
  <2> QED BY <2>1, <2>2
<1>10. ASSUME Known(c) PROVE StockAt(l)' = StockAt(l) + Boxes(c)
  <2> DEFINE f == [q \in Products |-> OnHand[<<l, q>>]]
             g == [q \in Products |-> OnHand'[<<l, q>>]]
  <2>1. StockAt(l) = Total(f, Products) /\ StockAt(l)' = Total(g, Products)
    BY DEF StockAt
  <2>2. PICK p \in Products : p = ProductOf[c]
    BY <1>10 DEF Known
  <2>3. \A q \in Products : f[q] \in Nat
    BY <1>5 DEF Rows
  <2>4. g[p] = f[p] + Boxes(c) /\ \A q \in Products : q # p => g[q] = f[q]
    BY <1>5, <1>8, <1>10, <2>2 DEF Rows
  <2> HIDE DEF f, g
  <2>5. f[p] \in Int /\ g[p] \in Int /\ \A q \in Products : f[q] \in Int /\ (q # p => g[q] = f[q])
    <3>1. \A q \in Products : f[q] \in Int
      BY <2>3
    <3>2. f[p] \in Int
      BY <3>1
    <3>3. g[p] \in Int
      BY <1>5, <2>4, <3>2
    <3> QED BY <2>4, <3>1, <3>2, <3>3
  <2>6. Total(g, Products) = Total(f, Products) + g[p] - f[p]
    BY <2>5, FiniteTables, TotalChange
  <2>7. Total(f, Products) \in Nat
    BY <2>3, FiniteTables, TotalNat
  <2> QED BY <1>5, <2>1, <2>4, <2>5, <2>6, <2>7
<1>11. NoOverbooking'
  <2> SUFFICES ASSUME NEW k \in Locations \ bypassed', NEW R \in SUBSET Pending'
               PROVE  Fits(k, R)'
    BY DEF NoOverbooking
  <2>1. k \notin bypassed /\ (k = l => ~req[s].redirect) /\ R \in SUBSET Pending /\ r \notin R
    BY <1>1, <1>4 DEF ConfirmCommit
  <2>2. Fits(k, R)
    BY <2>1 DEF RoomKept, NoOverbooking
  <2>3. CASE k # l \/ ~Known(c)
    BY <1>6, <1>7, <1>9, <2>2, <2>3
  <2>4. CASE k = l /\ Known(c)
    <3>1. resv[r].loc = l /\ Fits(l, R \cup {r})
      BY <1>1, <2>1, <2>4 DEF ConfirmCommit, Confirming, RoomKept, ConfirmFits
    <3>2. ProductOf[c] \in GoodsAt(l, R \cup {r})
      BY <1>2, <2>4, <3>1 DEF GoodsAt, Known
    <3>3. PICK p \in GoodsAt(l, R \cup {r}) :
            StockAt(l) + HeldAt(l, R \cup {r}) <= CapacityBoxes(l, p)
      BY <3>1, <3>2 DEF Fits
    <3>4. p \in GoodsAt(l, R)'
      <4>0. p \in Products
        BY DEF GoodsAt
      <4>1. CASE OnHand[<<l, p>>] > 0 \/ p = ProductOf[c]
        <5>1. OnHand'[<<l, p>>] > 0
          BY <1>5, <1>8, <2>4, <4>0, <4>1 DEF Rows
        <5> QED BY <4>0, <5>1 DEF GoodsAt
      <4>2. CASE ~(OnHand[<<l, p>>] > 0 \/ p = ProductOf[c])
        <5>1. PICK t \in R : resv[t].loc = l /\ ProductOf[resv[t].code] = p
          BY <1>2, <4>2 DEF GoodsAt
        <5>2. resv'[t].loc = l /\ ProductOf[resv'[t].code] = p
          BY <1>3, <2>1, <5>1 DEF Pending
        <5> QED BY <4>0, <5>2 DEF GoodsAt
      <4> QED BY <4>1, <4>2
    <3>5. /\ HeldAt(l, R \cup {r}) = HeldAt(l, R) + Boxes(c)
          /\ HeldAt(l, R)' <= HeldAt(l, R) /\ HeldAt(l, R)' \in Nat /\ HeldAt(l, R) \in Nat
      <4>1. /\ R \in SUBSET Reservations /\ r \in Reservations \ R
            /\ \A t \in R \cup {r} : resv[t].status # "none"
            /\ \A t \in R : /\ resv'[t].status # "none" /\ resv'[t].code = resv[t].code
                            /\ resv'[t].loc = resv[t].loc
        BY <1>1, <1>3, <2>1 DEF Pending
      <4>2. HeldIn(resv, l, R \cup {r}) = HeldIn(resv, l, R) + Boxes(c)
        BY <1>0, <1>2, <3>1, <4>1, HeldInWith
      <4>3. HeldIn(resv', l, R) <= HeldIn(resv, l, R)
        BY <1>0, <4>1, HeldInLeq
      <4>4. HeldIn(resv', l, R) \in Nat /\ HeldIn(resv, l, R) \in Nat
        BY <1>0, <4>1, HeldInType
      <4> QED BY <4>2, <4>3, <4>4, HeldIs, HeldWillBe
    <3>6. CapacityBoxes(l, p) \in Nat /\ StockAt(l) \in Nat
      BY CapacityType, StockAtType DEF GoodsAt
    <3>7. StockAt(l)' + HeldAt(l, R)' <= CapacityBoxes(l, p)
      BY <1>5, <1>10, <2>4, <3>3, <3>5, <3>6
    <3> QED BY <2>4, <3>4, <3>7 DEF Fits
  <2> QED BY <2>3, <2>4
<1>12. req'[s].pc = "idle"
  BY SessionIsProc DEF ConfirmCommit, End, Idle, TypeInv, TypeOK
<1> QED BY <1>11, <1>12 DEF RoomKept, ReserveFits, ConfirmFits, Confirming

LEMMA StepRoom ==
    ASSUME NEW s, Sessions = {s}, TypeInv, Ledgers, [Next]_vars, RoomKept(s)
    PROVE  RoomKept(s)'
BY AloneSteps, QuietRoom, ReserveReadRoom, ReserveCommitRoom, ConfirmReadRoom,
   ConfirmPlaceRoom, ConfirmCommitRoom DEF ReserveStep, ConfirmStep

(* With one operator at a time, beside any number of expiry workers and    *)
(* whatever the managers set, boxes on a shelf and boxes on their way to   *)
(* it never exceed what it takes of some product among them, unless it was *)
(* overridden (reserve_slot's check of _remaining_boxes, and               *)
(* confirm_putaway, which makes none).                                     *)
THEOREM NothingOverbookedAlone ==
    ASSUME NEW s, Sessions = {s}
    PROVE  Spec => []NoOverbooking
<1> DEFINE Inv == TypeInv /\ Ledgers /\ RoomKept(s)
<1>1. Init => Inv
  BY InitTypeInv, InitLedgers, InitRoom
<1>2. Inv /\ [Next]_vars => Inv'
  BY StepTypeInv, StepLedgers, StepRoom
<1>3. Inv => NoOverbooking
  BY DEF RoomKept
<1> QED BY <1>1, <1>2, <1>3, PTL DEF Spec

-----------------------------------------------------------------------------
(* Full locations, with one operator at a time and managers that block     *)
(* locations or mark them occupied.                                        *)

Confirmed(l) == {r \in Reservations : resv[r].status = "confirmed" /\ resv[r].loc = l}
Closed == {"occupied", "blocked"}

(* A confirmation under way was not made yet, and what it has read of the  *)
(* location's status and of its pallets still tells whether it is full.    *)
CountHolds(s) ==
    /\ \A l \in Locations, r \in Reservations :
         Confirming(s) /\ req[s].loc = l /\ req[s].res = r =>
           resv[r].status # "confirmed" /\ (req[s].seen = "occupied" => status[l] \in Closed)
    /\ \A l \in Locations :
         req[s].pc = "placing" /\ req[s].loc = l /\ ~req[s].full =>
           Cardinality(Confirmed(l)) + 1 < MaxPallets[l]

Full(s) == FullIsOccupied /\ CountHolds(s)

LEMMA FullIs ==
    FullIsOccupied <=>
      \A l \in Locations : Cardinality(Confirmed(l)) >= MaxPallets[l] => status[l] \in Closed
BY DEF FullIsOccupied, Confirmed, Closed

LEMMA FullWillBe ==
    FullIsOccupied' <=>
      \A l \in Locations : Cardinality(Confirmed(l)') >= MaxPallets[l] => status'[l] \in Closed
BY DEF FullIsOccupied, Confirmed, Closed

LEMMA ConfirmedFinite ==
    ASSUME NEW l
    PROVE  /\ IsFiniteSet(Confirmed(l)) /\ Cardinality(Confirmed(l)) \in Nat
           /\ IsFiniteSet(Confirmed(l)') /\ Cardinality(Confirmed(l)') \in Nat
<1>1. Confirmed(l) \in SUBSET Reservations /\ Confirmed(l)' \in SUBSET Reservations
  BY DEF Confirmed
<1> QED BY <1>1, FiniteTables, FS_Subset, FS_CardinalityType

LEMMA PalletPlaces == ASSUME NEW l \in Locations PROVE MaxPallets[l] \in Nat /\ MaxPallets[l] > 0
BY PutawayAssumption DEF PutawayAssumption

LEMMA InitFull == \A s \in Sessions : Init => Full(s)
<1> SUFFICES ASSUME NEW s \in Sessions, Init PROVE Full(s)
    OBVIOUS
<1>1. req[s].pc = "idle"
  BY SessionIsProc DEF Init, Idle
<1>2. \A l \in Locations : Cardinality(Confirmed(l)) = 0
  <2>1. \A l : Confirmed(l) = {}
    BY DEF Init, Confirmed, NoReservation
  <2> QED BY <2>1, FS_EmptySet
<1>3. FullIsOccupied
  BY <1>2, PalletPlaces, FullIs
<1> QED BY <1>1, <1>3 DEF Full, CountHolds, Confirming

(* Without a new confirmation there are never more at a location. *)
LEMMA FewerConfirmed ==
    ASSUME NEW l, Confirmed(l)' \subseteq Confirmed(l)
    PROVE  Cardinality(Confirmed(l)') <= Cardinality(Confirmed(l))
BY ConfirmedFinite, FS_Subset

LEMMA QuietFull ==
    ASSUME TypeInv, [Next]_vars, NEW s \in Sessions, Full(s), QuietFor(s),
           PatchStatuses \subseteq Closed
    PROVE  Full(s)'
<1>1. ASSUME NEW l \in Locations
      PROVE  /\ Cardinality(Confirmed(l)') <= Cardinality(Confirmed(l))
             /\ Cardinality(Confirmed(l)') \in Nat /\ Cardinality(Confirmed(l)) \in Nat
             /\ status'[l] = status[l] \/ status'[l] \in Closed
             /\ MaxPallets[l] \in Nat
  <2>1. Confirmed(l)' \subseteq Confirmed(l)
    BY NewReservation DEF QuietFor, Confirmed
  <2> QED BY <2>1, FewerConfirmed, ConfirmedFinite, PalletPlaces DEF QuietFor
<1>2. FullIsOccupied'
  <2> SUFFICES ASSUME NEW l \in Locations, Cardinality(Confirmed(l)') >= MaxPallets[l]
               PROVE  status'[l] \in Closed
    BY FullWillBe
  <2>1. Cardinality(Confirmed(l)) >= MaxPallets[l]
    BY <1>1
  <2> QED BY <1>1, <2>1, FullIs DEF Full
<1>3. ASSUME req'[s].pc \in {"confirming", "placing"} PROVE req'[s] = req[s]
  BY <1>3 DEF QuietFor
<1>4. ASSUME NEW l \in Locations, NEW r \in Reservations,
             Confirming(s)', req'[s].loc = l, req'[s].res = r
      PROVE  resv'[r].status # "confirmed" /\ (req'[s].seen = "occupied" => status'[l] \in Closed)
  <2>1. req'[s] = req[s] /\ Confirming(s)
    BY <1>3, <1>4 DEF Confirming
  <2>2. resv[r].status # "confirmed" /\ (req[s].seen = "occupied" => status[l] \in Closed)
    BY <1>4, <2>1 DEF Full, CountHolds
  <2>3. resv'[r].status # "confirmed"
    BY <2>2 DEF QuietFor
  <2> QED BY <1>1, <2>1, <2>2, <2>3
<1>5. ASSUME NEW l \in Locations, req'[s].pc = "placing", req'[s].loc = l, ~req'[s].full
      PROVE  Cardinality(Confirmed(l)') + 1 < MaxPallets[l]
  <2>1. req'[s] = req[s]
    BY <1>3, <1>5
  <2>2. Cardinality(Confirmed(l)) + 1 < MaxPallets[l]
    BY <1>5, <2>1 DEF Full, CountHolds
  <2> QED BY <1>1, <2>2
<1>6. CountHolds(s)'
  BY <1>4, <1>5 DEF CountHolds
<1> QED BY <1>2, <1>6 DEF Full

(* Reserving confirms nothing. *)
LEMMA ReserveFull ==
    ASSUME TypeInv, [Next]_vars, NEW s \in Sessions, Full(s), ReserveStep(s)
    PROVE  Full(s)'
<1>1. status' = status /\ req'[s].pc \in {"idle", "reserving"}
  BY SessionIsProc DEF ReserveStep, ReserveRead, ReserveCommit, Begin, End, Idle, tables,
                       TypeInv, TypeOK
<1>2. ~\E t \in Sessions : ConfirmCommit(t)
  <2>1. ASSUME NEW t \in Sessions, ConfirmCommit(t) PROVE FALSE
    <3>1. req'[t].pc = "idle" /\ req[t].pc = "placing"
      BY <2>1, SessionIsProc DEF ConfirmCommit, End, Idle, TypeInv, TypeOK
    <3>2. t # s
      BY <3>1, SessionIsProc DEF ReserveStep, ReserveRead, ReserveCommit, Begin, Idle
    <3>3. req'[t] = req[t]
      BY <3>2, SessionIsProc DEF ReserveStep, ReserveRead, ReserveCommit, Begin, End,
                                 TypeInv, TypeOK
    <3> QED BY <3>1, <3>3
  <2> QED BY <2>1
<1>3. ASSUME NEW l \in Locations
      PROVE  Cardinality(Confirmed(l)') <= Cardinality(Confirmed(l))
  <2>1. Confirmed(l)' \subseteq Confirmed(l)
    BY <1>2, NewReservation, ReservationStep DEF Confirmed
  <2> QED BY <2>1, FewerConfirmed
<1>4. FullIsOccupied'
  <2> SUFFICES ASSUME NEW l \in Locations, Cardinality(Confirmed(l)') >= MaxPallets[l]
               PROVE  status'[l] \in Closed
    BY FullWillBe
  <2>1. Cardinality(Confirmed(l)) >= MaxPallets[l]
    BY <1>3, ConfirmedFinite, PalletPlaces
  <2> QED BY <1>1, <2>1, FullIs DEF Full
<1>5. CountHolds(s)'
  BY <1>1 DEF CountHolds, Confirming
<1> QED BY <1>4, <1>5 DEF Full

LEMMA ConfirmReadFull ==
    ASSUME TypeInv, [Next]_vars, NEW s \in Sessions, Full(s),
           NEW r \in Reservations, NEW l \in Locations, ConfirmRead(s, r, l)
    PROVE  Full(s)'
<1>1. UNCHANGED <<resv, status>>
  BY DEF ConfirmRead, tables
<1>2. /\ req'[s].pc = "confirming" /\ req'[s].res = r /\ req'[s].loc = l
      /\ req'[s].seen = status[l]
  BY SessionIsProc DEF ConfirmRead, Begin, TypeInv, TypeOK
<1>3. \A k : Confirmed(k)' = Confirmed(k)
  BY <1>1 DEF Confirmed
<1>4. FullIsOccupied'
  BY <1>1, <1>3, FullIs, FullWillBe DEF Full
<1>5. resv[r].status = "pending"
  BY DEF ConfirmRead, Confirmable
<1>6. CountHolds(s)'
  BY <1>1, <1>2, <1>5 DEF CountHolds, Closed
<1> QED BY <1>4, <1>6 DEF Full

LEMMA ConfirmPlaceFull ==
    ASSUME TypeInv, [Next]_vars, NEW s \in Sessions, Full(s), ConfirmPlace(s)
    PROVE  Full(s)'
<1>1. UNCHANGED <<resv, status>>
  BY DEF ConfirmPlace, tables
<1>2. PICK q : q = req[s]
  OBVIOUS
<1>3. /\ req'[s].pc = "placing" /\ req'[s].res = q.res /\ req'[s].loc = q.loc
      /\ req'[s].seen = q.seen /\ q.pc = "confirming"
      /\ req'[s].full = (PalletsWith(q.loc, q) >= MaxPallets[q.loc])
  BY <1>2, SessionIsProc DEF ConfirmPlace, TypeInv, TypeOK
<1>4. \A k : Confirmed(k)' = Confirmed(k)
  BY <1>1 DEF Confirmed
<1>5. FullIsOccupied'
  BY <1>1, <1>4, FullIs, FullWillBe DEF Full
<1>6. /\ q.res \in Reservations /\ q.loc \in Locations
      /\ resv[q.res].status # "confirmed"
      /\ q.seen = "occupied" => status[q.loc] \in Closed
  <2>1. q.res \in Reservations /\ q.loc \in Locations
    BY <1>2, <1>3, SessionIsProc, RequestFields DEF TypeInv
  <2> QED BY <1>2, <1>3, <2>1 DEF Full, CountHolds, Confirming
<1>7. ASSUME ~req'[s].full PROVE Cardinality(Confirmed(q.loc)) + 1 < MaxPallets[q.loc]
  <2>1. ~(PalletsWith(q.loc, q) >= MaxPallets[q.loc])
    BY <1>3, <1>7, Zenon
  <2>2. {r \in Reservations : /\ resv[r].status = "confirmed"
                              /\ resv[r].loc = q.loc \/ (r = q.res /\ q.redirect)}
          = Confirmed(q.loc)
    BY <1>6 DEF Confirmed
  <2>3. PalletsWith(q.loc, q) = 1 + Cardinality(Confirmed(q.loc))
    BY <2>2 DEF PalletsWith
  <2> QED BY <1>6, <2>1, <2>3, ConfirmedFinite, PalletPlaces
<1>8. CountHolds(s)'
  <2>1. ASSUME NEW l \in Locations, NEW r \in Reservations, req'[s].loc = l, req'[s].res = r
        PROVE  resv'[r].status # "confirmed" /\ (req'[s].seen = "occupied" => status'[l] \in Closed)
    BY <1>1, <1>3, <1>6, <2>1
  <2>2. ASSUME NEW l \in Locations, req'[s].loc = l, ~req'[s].full
        PROVE  Cardinality(Confirmed(l)') + 1 < MaxPallets[l]
    BY <1>3, <1>4, <1>7, <2>2
  <2> QED BY <2>1, <2>2 DEF CountHolds
<1> QED BY <1>5, <1>8 DEF Full

LEMMA ConfirmCommitFull ==
    ASSUME TypeInv, [Next]_vars, NEW s \in Sessions, RoomKept(s), Full(s), ConfirmCommit(s)
    PROVE  Full(s)'
<1>1. PICK l \in Locations, r \in Reservations : req[s].loc = l /\ req[s].res = r
  BY SessionIsProc, RequestFields DEF ConfirmCommit, TypeInv
<1>2. /\ \A t \in Reservations \ {r} : resv'[t] = resv[t]
      /\ resv'[r].status = "confirmed" /\ resv'[r].loc = LocAfter(req[s])
  BY <1>1, ConfirmCommitResv
<1>3. Confirming(s) /\ req[s].pc = "placing"
  BY DEF ConfirmCommit, Confirming
<1>4. LocAfter(req[s]) = l
  BY <1>1, <1>3 DEF LocAfter, RoomKept, ConfirmFits
<1>5. /\ \A k \in Locations \ {l} : status'[k] = status[k]
      /\ status'[l] = IF (IF req[s].full THEN "occupied" ELSE "partial") = req[s].seen
                        THEN status[l]
                        ELSE IF req[s].full THEN "occupied" ELSE "partial"
  BY <1>1 DEF ConfirmCommit, TypeInv, TypeOK
<1>6. \A k \in Locations \ {l} : Cardinality(Confirmed(k)') <= Cardinality(Confirmed(k))
  <2>1. \A k \in Locations \ {l} : Confirmed(k)' \subseteq Confirmed(k)
    BY <1>2, <1>4 DEF Confirmed
  <2> QED BY <2>1, FewerConfirmed
<1>7. Cardinality(Confirmed(l)') <= Cardinality(Confirmed(l)) + 1
  <2>1. Confirmed(l)' = Confirmed(l) \cup {r}
    BY <1>2, <1>4 DEF Confirmed
  <2>2. PICK A : A = Confirmed(l) /\ IsFiniteSet(A)
    BY ConfirmedFinite
  <2>3. Cardinality(A \cup {r}) <= Cardinality(A) + 1
    BY <2>2, FS_AddElement, FS_CardinalityType
  <2> QED BY <2>1, <2>2, <2>3
<1>8. FullIsOccupied'
  <2> SUFFICES ASSUME NEW k \in Locations, Cardinality(Confirmed(k)') >= MaxPallets[k]
               PROVE  status'[k] \in Closed
    BY FullWillBe
  <2>1. CASE k # l
    <3>1. Cardinality(Confirmed(k)) >= MaxPallets[k]
      BY <1>6, <2>1, ConfirmedFinite, PalletPlaces
    <3> QED BY <1>5, <2>1, <3>1, FullIs DEF Full
  <2>2. CASE k = l
    <3>1. req[s].full
      <4> SUFFICES ASSUME ~req[s].full PROVE FALSE
        OBVIOUS
      <4>1. Cardinality(Confirmed(l)) + 1 < MaxPallets[l]
        BY <1>1, <1>3 DEF Full, CountHolds
      <4> QED BY <1>7, <2>2, <4>1, ConfirmedFinite, PalletPlaces
    <3>2. req[s].seen = "occupied" => status[l] \in Closed
      BY <1>1, <1>3 DEF Full, CountHolds
    <3> QED BY <1>5, <2>2, <3>1, <3>2 DEF Closed
  <2> QED BY <2>1, <2>2
<1>9. req'[s].pc = "idle"
  BY SessionIsProc DEF ConfirmCommit, End, Idle, TypeInv, TypeOK
<1>10. CountHolds(s)'
  BY <1>9 DEF CountHolds, Confirming
<1> QED BY <1>8, <1>10 DEF Full

(* A location whose pallet places are all confirmed is marked occupied, or *)
(* blocked, with one operator at a time, beside any number of workers and  *)
(* managers who set no other status by hand (confirm_putaway's count).     *)
THEOREM FullAreOccupiedAlone ==
    ASSUME NEW s, Sessions = {s}, PatchStatuses \subseteq {"occupied", "blocked"}
    PROVE  Spec => []FullIsOccupied
<1> DEFINE Inv == TypeInv /\ Ledgers /\ RoomKept(s) /\ Full(s)
<1>1. Init => Inv
  BY InitTypeInv, InitLedgers, InitRoom, InitFull
<1>2. Inv /\ [Next]_vars => Inv'
  <2>1. PatchStatuses \subseteq Closed
    BY DEF Closed
  <2>2. TypeInv /\ RoomKept(s) /\ Full(s) /\ [Next]_vars => Full(s)'
    BY <2>1, AloneSteps, QuietFull, ReserveFull, ConfirmReadFull, ConfirmPlaceFull,
       ConfirmCommitFull DEF ConfirmStep
  <2> QED BY <2>2, StepTypeInv, StepLedgers, StepRoom
<1>3. Inv => FullIsOccupied
  BY DEF Full
<1> QED BY <1>1, <1>2, <1>3, PTL DEF Spec
=============================================================================
