------------------------------ MODULE PickScan ------------------------------
(***************************************************************************)
(* The codes of a pick task, scanned one by one at the terminal            *)
(* (scan_validate), and the other requests that set a task's status: the   *)
(* manager's (update_task), the shipment's (confirm_shipment_endpoint) and *)
(* release_bookings of endpoints/stock.py.  What they do to the stock is   *)
(* modelled in Picking.                                                    *)
(***************************************************************************)
EXTENDS Requests, FiniteSets

CONSTANTS
    Picks,       \* shipment documents, each with its pick task
    PlannedCodes \* per pick, the codes of its plan

ASSUME PickScanAssumption == \A p \in Picks : IsFiniteSet(PlannedCodes[p])

VARIABLES
    pick,        \* per pick: the document's and the task's status, codes left
    accepted,    \* per pick, the codes a scan was accepted of (history)
    byHand,      \* picks whose status a manager or the shipment set (history)
    overlapped,  \* picks a scan of which ended during another (history)
    reread       \* picks scanned after a release had read them (history)

scanVars == <<pick, accepted, byHand, overlapped, reread>>

NoPick == [doc |-> "none", task |-> "none", left |-> {}]

PickScanInit ==
    /\ pick = [p \in Picks |-> NoPick]
    /\ accepted = [p \in Picks |-> {}]
    /\ byHand = {}
    /\ overlapped = {}
    /\ reread = {}

(* PENDING and IN_PROGRESS *)
OpenTask == {"pending", "in_progress"}
TaskStatus == OpenTask \cup {"assigned", "completed", "cancelled"}

Scanning(s, p) == req[s].pc = "scan" /\ req[s].pick = p
Releasing(s, p) == req[s].pc = "release" /\ p \in req[s].tasks

(* A release has written the document and holds the lock of its row. *)
Cancelled(p) == \E s \in Sessions : req[s].pc = "release" /\ p \in req[s].docs

-----------------------------------------------------------------------------
(* POST /shipment/pick-task and POST /shipment/confirm/{document_id} *)

CreatePickTask(p) ==
    /\ pick[p] = NoPick
    /\ pick' = [pick EXCEPT ![p] = [doc |-> "in_progress", task |-> "pending",
                                    left |-> PlannedCodes[p]]]
    /\ UNCHANGED <<accepted, byHand, overlapped, reread, req, begun>>

(* Whatever is left to scan. *)
ConfirmShipment(p) ==
    /\ pick[p].doc = "in_progress"
    /\ ~Cancelled(p)
    /\ pick' = [pick EXCEPT ![p].doc = "completed", ![p].task = "completed"]
    /\ byHand' = byHand \cup {p}
    /\ UNCHANGED <<accepted, overlapped, reread, req, begun>>

(* PATCH /tasks/{id}: any status after any other. *)
UpdateTask(p, status) ==
    /\ pick[p] # NoPick
    /\ pick' = [pick EXCEPT ![p].task = status]
    /\ byHand' = byHand \cup {p}
    /\ UNCHANGED <<accepted, overlapped, reread, req, begun>>

-----------------------------------------------------------------------------
(* POST /shipment/scan: the task is read without a lock, the registry      *)
(* asked for the owner, and the list of codes written back.                *)

ScanRead(s, p, c) ==
    /\ Arrives(s)
    /\ pick[p].task \in OpenTask
    /\ c \in pick[p].left
    /\ Becomes(s, [pc |-> "scan", pick |-> p, code |-> c, seen |-> pick[p]])
    /\ UNCHANGED scanVars

(* payload is replaced, status written if it differs from the copy's.      *)
PayloadMutated(row, copy, left) == row.left
PayloadReplaced(row, copy, left) == left

AfterScan(row, copy, c) ==
    LET left == copy.left \ {c}
        status == IF left = {} THEN "completed" ELSE "in_progress" IN
    [row EXCEPT !.left = PayloadReplaced(row, copy, left),
                !.task = IF status = copy.task THEN @ ELSE status]

ScanCommit(s) ==
    LET q == req[s] IN
    /\ q.pc = "scan"
    /\ pick' = [pick EXCEPT ![q.pick] = AfterScan(@, q.seen, q.code)]
    /\ accepted' = [accepted EXCEPT ![q.pick] = @ \cup {q.code}]
    /\ overlapped' = IF \E r \in Sessions \ {s} : Scanning(r, q.pick)
                       THEN overlapped \cup {q.pick} ELSE overlapped
    /\ reread' = IF \E r \in Sessions : Releasing(r, q.pick)
                   THEN reread \cup {q.pick} ELSE reread
    /\ Ends(s)
    /\ UNCHANGED <<byHand, begun>>

(* The registry says the code is another owner's or unknown, or the        *)
(* request fails.                                                          *)
ScanRefused(s) ==
    /\ req[s].pc = "scan"
    /\ Ends(s)
    /\ UNCHANGED <<scanVars, begun>>

-----------------------------------------------------------------------------
(* POST /stock/release-bookings: the documents in progress are read, then, *)
(* with their statuses written, the open tasks of these; the tasks are     *)
(* written with the next statement.  Nothing is read under a lock.         *)

ReleaseDocuments(s) ==
    /\ Arrives(s)
    /\ Becomes(s, [pc |-> "documents",
                   docs |-> {p \in Picks : pick[p].doc = "in_progress"}])
    /\ UNCHANGED scanVars

ReleaseTasks(s) ==
    LET docs == req[s].docs IN
    /\ req[s].pc = "documents"
    /\ Becomes(s, [pc |-> "release", docs |-> docs,
                   tasks |-> {p \in docs : pick[p].task \in OpenTask}])
    /\ UNCHANGED <<scanVars, begun>>

ReleaseCommit(s) ==
    LET q == req[s] IN
    /\ q.pc = "release"
    /\ pick' = [p \in Picks |->
                  [pick[p] EXCEPT !.doc = IF p \in q.docs THEN "cancelled" ELSE @,
                                  !.task = IF p \in q.tasks THEN "cancelled" ELSE @]]
    /\ Ends(s)
    /\ UNCHANGED <<accepted, byHand, overlapped, reread, begun>>

ReleaseRollback(s) ==
    /\ req[s].pc \in {"documents", "release"}
    /\ Ends(s)
    /\ UNCHANGED <<scanVars, begun>>

-----------------------------------------------------------------------------

Scan(s) ==
    \/ \E p \in Picks : \E c \in PlannedCodes[p] : ScanRead(s, p, c)
    \/ ScanCommit(s)
    \/ ScanRefused(s)

Release(s) ==
    \/ ReleaseDocuments(s)
    \/ ReleaseTasks(s)
    \/ ReleaseCommit(s)
    \/ ReleaseRollback(s)

ManagePicks ==
    \E p \in Picks :
      \/ CreatePickTask(p)
      \/ ConfirmShipment(p)
      \/ \E status \in TaskStatus : UpdateTask(p, status)
=============================================================================
