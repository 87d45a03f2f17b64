----------------------------- MODULE Receiving -----------------------------
(***************************************************************************)
(* Receipts and the putaway tasks they open: services/receipt.py and       *)
(* endpoints/receipt.py.                                                   *)
(***************************************************************************)
EXTENDS Stockroom

CONSTANTS
    UnitsOf,            \* unit_count of a code
    QuarantineOnReceipt \* the tenant's setting

ASSUME ReceivingAssumption ==
    /\ UnitsOf \in [Codes -> Nat \ {0}]
    /\ QuarantineOnReceipt \in BOOLEAN

(* A row not used yet; the bound on tasks must not be reached. *)
NewTask == CHOOSE t \in Tasks : /\ task[t].kind = "none"
                                /\ \A u \in Tasks : task[u].kind = "none" => t <= u
TasksLeft == \E t \in Tasks : task[t].kind = "none"

PutawayTask(b, n, c) ==
    [kind |-> "putaway", status |-> "pending", batch |-> b, qty |-> n,
     from |-> NoLoc, to |-> NoLoc, code |-> c]

-----------------------------------------------------------------------------
(* POST /receipt, one code at a time *)

Unused == {b \in Batches : batch[b] = "none"}

(* resolve_scanned_code asks the registry, finds or creates the batch; of  *)
(* two AVAILABLE rows it takes none, it raises.  No code is rejected:       *)
(* ownership_ok is always true.  A code without a product has no task.     *)
NoneFound == {}
Found == {b \in Batches : batch[b] = "available"}

ReceiptRead(s, c, mapped, dated) ==
    /\ Arrives(s)
    /\ mapped /\ dated => Cardinality(Found) <= 1
    /\ Reads(s, [pc |-> "receiving", code |-> c, mapped |-> mapped,
                 isNew |-> mapped /\ dated /\ Found = {},
                 codeNew |-> ~code[c].known,
                 batch |-> IF mapped /\ dated /\ Found # {} THEN CHOOSE b \in Found : TRUE
                           ELSE NoBatch])

Receiving(s) == req[s].pc = "receiving"

(* Two receipts are creating the batch. *)
Rivals(s) == {r \in Sessions \ {s} : Receiving(r) /\ req[r].isNew}

(* The commit: batch, code, RECEIPT entry and putaway task.  Of two        *)
(* requests that insert one code the unique constraint fails the later.    *)
ReceiptCommit(s) ==
    LET q == req[s]
        b == IF q.isNew THEN CHOOSE n \in Unused : TRUE ELSE q.batch
        status == IF QuarantineOnReceipt THEN "quarantine"
                  ELSE IF q.isNew THEN "available" ELSE "unchanged" IN
    /\ Receiving(s)
    /\ q.codeNew => ~code[q.code].known
    /\ q.isNew => Unused # {}
    /\ batch' = IF b = NoBatch \/ status = "unchanged" THEN batch
                ELSE [batch EXCEPT ![b] = status]
    /\ code' = [code EXCEPT ![q.code] =
                  [known |-> TRUE, batch |-> IF @.batch = NoBatch THEN b ELSE @.batch,
                   at |-> @.at]]
    /\ IF q.mapped
         THEN TasksLeft /\ task' = [task EXCEPT ![NewTask] = PutawayTask(b, UnitsOf[q.code], q.code)]
         ELSE UNCHANGED task
    /\ excused' = IF q.isNew /\ Rivals(s) # {} THEN excused \cup {b} ELSE excused
    /\ Ends(s)
    /\ UNCHANGED <<stockVars, held, occupied, placements, begun>>

(* POST /putaway/tsd-scan: a task without code or batch, no RECEIPT entry. *)
TsdScan(s, n) ==
    /\ Arrives(s)
    /\ TasksLeft
    /\ task' = [task EXCEPT ![NewTask] = PutawayTask(NoBatch, n, NoLoc)]
    /\ UNCHANGED <<stockVars, held, batch, code, occupied, placements, excused, req>>

-----------------------------------------------------------------------------
(* POST /putaway/task-confirm *)

AnyStatus(t) == TRUE
Confirmable(t) == task[t].status = "pending"

Confirming(r, t) == req[r].pc = "confirming" /\ req[r].task = t
Placing(r, t) == req[r].pc = "inserting" /\ req[r].task = t

TaskConfirmClaim(s, t, l) ==
    /\ Arrives(s)
    /\ task[t].kind = "putaway"
    /\ Confirmable(t)
    /\ Becomes(s, [pc |-> "confirming", task |-> t, loc |-> l])
    /\ task' = [task EXCEPT ![t].status = "completed"]
    /\ UNCHANGED <<stockVars, held, batch, code, occupied, placements, excused>>

(* The task is read without a lock. *)
TaskConfirmRead(s, t, l) ==
    /\ Arrives(s)
    /\ task[t].kind = "putaway"
    /\ Confirmable(t)
    /\ Becomes(s, [pc |-> "confirming", task |-> t, loc |-> l])
    /\ excused' = IF \E r \in Sessions : Confirming(r, t) \/ Placing(r, t)
                    THEN excused \cup {t} ELSE excused
    /\ UNCHANGED <<stockVars, held, batch, task, code, occupied, placements>>

TaskConfirmPost(s) ==
    LET q == req[s]
        t == q.task IN
    /\ q.pc = "confirming"
    /\ Post(s, [Posting("putaway", At(<<q.loc, task[t].batch>>, task[t].qty)) EXCEPT !.task = t],
            Stored)
    /\ UNCHANGED begun

-----------------------------------------------------------------------------

Receive(s) ==
    \/ \E c \in Codes, mapped, dated \in BOOLEAN : ReceiptRead(s, c, mapped, dated)
    \/ ReceiptCommit(s)
    \/ \E n \in Amounts : TsdScan(s, n)
    \/ \E t \in Tasks, l \in Locations : TaskConfirmRead(s, t, l)
    \/ TaskConfirmPost(s)
=============================================================================
