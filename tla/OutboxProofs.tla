---------------------------- MODULE OutboxProofs ----------------------------
(***************************************************************************)
(* Proofs about Outbox, for any number of messages, workers and clerks,    *)
(* any limits, and with or without crashes and lost answers.               *)
(***************************************************************************)
EXTENDS Outbox, TLAPS

(* A message that is still to be sent has an attempt left. *)
AttemptsLeft ==
    /\ \A m \in Messages :
         outbox[m].status \in {"none", "pending"} => outbox[m].attempts < MaxAttempts
    /\ \A w \in Workers : \A m \in Messages :
         Delivering(w) /\ m \in worker[w].todo => worker[w].tries[m] < MaxAttempts

TypeInv == TypeOK /\ AttemptsLeft

-----------------------------------------------------------------------------
(* Helpers *)

LEMMA BatchType ==
    ASSUME TypeOK, NEW w \in Workers, Delivering(w)
    PROVE  worker[w] \in Batch
<1>1. worker[w] \in Batch \cup {Resting}
  BY DEF TypeOK
<1>2. worker[w] # Resting
  BY DEF Delivering, Resting
<1> QED BY <1>1, <1>2

LEMMA CurrentUnique ==
    ASSUME NEW w, NEW m \in Messages, NEW n \in Messages, Current(w, m), Current(w, n)
    PROVE  m = n
BY OutboxAssumption DEF OutboxAssumption, Current

LEMMA MarkSentType ==
    ASSUME NEW row \in Row, NEW tries \in 0..MaxAttempts, tries < MaxAttempts,
           NEW answer, NEW new, new = MarkSent(row, tries, answer)
    PROVE  new \in Row /\ new.status = "sent" /\ new.retry = row.retry
<1> DEFINE doc == row.doc \/ answer = "doc"
<1>1. tries + 1 \in 0..MaxAttempts
  BY OutboxAssumption DEF OutboxAssumption
<1>2. doc \in BOOLEAN
  BY Zenon
<1>3. new = [row EXCEPT !.attempts = tries + 1, !.status = "sent", !.doc = doc]
  BY DEF MarkSent
<1> HIDE DEF doc
<1> QED BY <1>1, <1>2, <1>3 DEF Row

LEMMA MarkFailedType ==
    ASSUME NEW row \in Row, NEW tries \in 0..MaxAttempts, tries < MaxAttempts,
           NEW new, new = MarkFailed(row, tries)
    PROVE  /\ new \in Row
           /\ new.status \in {row.status, "failed"}
           /\ new.status = "failed" /\ row.status # "failed" => new.attempts = MaxAttempts
           /\ new.status \in {"none", "pending"} => new.attempts < MaxAttempts
           /\ new.retry \in {row.retry, "later"}
<1>0. tries + 1 \in 0..MaxAttempts
  BY OutboxAssumption DEF OutboxAssumption
<1>1. CASE GiveUp(tries)
  <2>1. new = [row EXCEPT !.attempts = tries + 1, !.status = "failed"]
    BY <1>1 DEF MarkFailed
  <2>2. tries + 1 = MaxAttempts
    BY <1>1, <1>0, OutboxAssumption DEF OutboxAssumption, GiveUp
  <2> QED BY <2>1, <2>2, <1>0 DEF Row
<1>2. CASE ~GiveUp(tries)
  <2>1. new = [row EXCEPT !.attempts = tries + 1, !.retry = "later"]
    BY <1>2 DEF MarkFailed
  <2>2. tries + 1 < MaxAttempts
    BY <1>2, OutboxAssumption DEF OutboxAssumption, GiveUp
  <2> QED BY <2>1, <2>2, <1>0 DEF Row
<1> QED BY <1>1, <1>2

-----------------------------------------------------------------------------
(* Types *)

LEMMA InitTypeInv == Init => TypeInv
<1> SUFFICES ASSUME Init PROVE TypeInv
    OBVIOUS
<1>1. NoRow \in Row /\ NoRow.attempts < MaxAttempts
  BY OutboxAssumption DEF OutboxAssumption, NoRow, Row
<1>2. TypeOK
  BY <1>1, OutboxAssumption DEF OutboxAssumption, Init, TypeOK
<1>3. AttemptsLeft
  BY <1>1 DEF Init, AttemptsLeft, Delivering, Resting
<1> QED BY <1>2, <1>3 DEF TypeInv

(* Steps that leave the table and the workers as they are, or put a row    *)
(* and a batch of the right type in their place.                           *)
LEMMA RowWritten ==
    ASSUME TypeInv, NEW m \in Messages, NEW row \in Row,
           outbox' = [outbox EXCEPT ![m] = row],
           row.status \in {"none", "pending"} => row.attempts < MaxAttempts
    PROVE  /\ outbox' \in [Messages -> Row]
           /\ \A n \in Messages :
                outbox'[n].status \in {"none", "pending"} => outbox'[n].attempts < MaxAttempts
BY DEF TypeInv, TypeOK, AttemptsLeft

LEMMA BatchWritten ==
    ASSUME TypeInv, NEW w \in Workers, NEW batch \in Batch \cup {Resting},
           worker' = [worker EXCEPT ![w] = batch],
           batch.pc # "resting" => \A m \in batch.todo : batch.tries[m] < MaxAttempts
    PROVE  /\ worker' \in [Workers -> Batch \cup {Resting}]
           /\ \A v \in Workers : \A m \in Messages :
                Delivering(v)' /\ m \in worker'[v].todo => worker'[v].tries[m] < MaxAttempts
BY DEF TypeInv, TypeOK, AttemptsLeft, Delivering

LEMMA StepTypeInv == TypeInv /\ [Next]_vars => TypeInv'
<1> SUFFICES ASSUME TypeInv, [Next]_vars PROVE TypeInv'
    OBVIOUS
<1> USE DEF TypeInv
<1>1. ASSUME NEW m \in Messages, Enqueue(m) PROVE TypeInv'
  <2> DEFINE row == [outbox[m] EXCEPT
                       !.status = "pending",
                       !.retry = IF m \in NeedApproval THEN "hold" ELSE "now",
                       !.payload = IF m \in NeedApproval THEN "awaiting" ELSE "plain"]
  <2>1. /\ row \in Row
        /\ row.attempts < MaxAttempts
        /\ outbox' = [outbox EXCEPT ![m] = row]
    BY <1>1 DEF Enqueue, TypeOK, AttemptsLeft, Row
  <2> HIDE DEF row
  <2> QED BY <1>1, <2>1, RowWritten DEF Enqueue, TypeOK, AttemptsLeft, Delivering
<1>2. ASSUME NEW m \in Messages, BackoffElapses(m) PROVE TypeInv'
  <2> DEFINE row == [outbox[m] EXCEPT !.retry = "now"]
  <2>1. /\ row \in Row
        /\ row.status = outbox[m].status /\ row.attempts = outbox[m].attempts
        /\ outbox' = [outbox EXCEPT ![m] = row]
    BY <1>2 DEF BackoffElapses, TypeOK, Row
  <2>2. row.status \in {"none", "pending"} => row.attempts < MaxAttempts
    BY <2>1 DEF AttemptsLeft
  <2> HIDE DEF row
  <2> QED BY <1>2, <2>1, <2>2, RowWritten DEF BackoffElapses, TypeOK, AttemptsLeft, Delivering
<1>3. ASSUME NEW w \in Workers, GetDue(w) PROVE TypeInv'
  <2>1. PICK todo \in SUBSET Messages :
          /\ Oldest(todo)
          /\ worker' = [worker EXCEPT ![w] =
                          [pc |-> "sending", todo |-> todo,
                           tries |-> [m \in Messages |-> IF m \in todo THEN outbox[m].attempts ELSE 0],
                           locking |-> TRUE, answer |-> "error"]]
    BY <1>3 DEF GetDue
  <2> DEFINE batch == [pc |-> "sending", todo |-> todo,
                       tries |-> [m \in Messages |-> IF m \in todo THEN outbox[m].attempts ELSE 0],
                       locking |-> TRUE, answer |-> "error"]
  <2>2. batch \in Batch
    BY OutboxAssumption DEF OutboxAssumption, TypeOK, Row, Batch
  <2>3. \A m \in batch.todo : batch.tries[m] < MaxAttempts
    BY <2>1 DEF Oldest, Due, AttemptsLeft
  <2>4. worker' = [worker EXCEPT ![w] = batch]
    BY <2>1
  <2>5. exposed' \subseteq Messages
    BY <1>3 DEF GetDue, TypeOK
  <2> HIDE DEF batch
  <2> QED BY <1>3, <2>2, <2>3, <2>4, <2>5, BatchWritten DEF GetDue, TypeOK, AttemptsLeft
<1>4. ASSUME NEW w \in Workers, NEW m \in Messages, Send(w, m) PROVE TypeInv'
  <2>1. Delivering(w) /\ worker[w] \in Batch
    BY <1>4, BatchType DEF Send, Delivering
  <2>2. PICK taken \in 0..MaxTries, answer \in {"ok", "doc", "refused", "error"} :
          /\ received' = [received EXCEPT ![m] = Counted(@, taken)]
          /\ worker' = [worker EXCEPT ![w].pc = "answered", ![w].answer = Returned(answer)]
          /\ exposed' = IF AnswerLost(taken, answer) THEN exposed \cup {m} ELSE exposed
    BY <1>4 DEF Send
  <2> DEFINE batch == [worker[w] EXCEPT !.pc = "answered", !.answer = Returned(answer)]
  <2>3. /\ batch \in Batch
        /\ batch.todo = worker[w].todo /\ batch.tries = worker[w].tries
    BY <2>1 DEF Batch, Returned
  <2>4. \A n \in batch.todo : batch.tries[n] < MaxAttempts
    BY <2>1, <2>3 DEF AttemptsLeft, Batch
  <2>5. worker' = [worker EXCEPT ![w] = batch]
    BY <2>2, <2>1 DEF TypeOK, Batch
  <2>6. received' \in [Messages -> 0..MaxReceived] /\ exposed' \subseteq Messages
        /\ refused' \subseteq Messages
    BY <1>4, <2>2, OutboxAssumption DEF Send, TypeOK, Counted, OutboxAssumption
  <2> HIDE DEF batch
  <2> QED BY <1>4, <2>3, <2>4, <2>5, <2>6, BatchWritten DEF Send, TypeOK, AttemptsLeft
<1>5. ASSUME NEW w \in Workers, NEW m \in Messages, Record(w, m) PROVE TypeInv'
  <2>1. Delivering(w) /\ worker[w] \in Batch
    BY <1>5, BatchType DEF Record, Delivering
  <2>2. m \in worker[w].todo /\ worker[w].tries[m] \in 0..MaxAttempts
        /\ worker[w].tries[m] < MaxAttempts
    BY <1>5, <2>1 DEF Record, Current, AttemptsLeft, Batch
  <2> DEFINE row == IF Delivered(worker[w].answer)
                      THEN MarkSent(outbox[m], worker[w].tries[m], worker[w].answer)
                      ELSE MarkFailed(outbox[m], worker[w].tries[m])
             rest == [worker[w] EXCEPT !.pc = "sending", !.todo = @ \ {m}, !.locking = FALSE,
                                 !.tries[m] = 0, !.answer = "error"]
             batch == IF worker[w].todo = {m} THEN Resting ELSE rest
  <2>3. outbox' = [outbox EXCEPT ![m] = row] /\ worker' = [worker EXCEPT ![w] = batch]
    BY <1>5 DEF Record, TypeOK
  <2>4. outbox[m] \in Row
    BY DEF TypeOK
  <2>5. row \in Row /\ (row.status \in {"none", "pending"} => row.attempts < MaxAttempts)
    <3>1. CASE Delivered(worker[w].answer)
      BY <3>1, <2>2, <2>4, MarkSentType
    <3>2. CASE ~Delivered(worker[w].answer)
      BY <3>2, <2>2, <2>4, MarkFailedType
    <3> QED BY <3>1, <3>2
  <2>6. /\ rest \in Batch /\ rest.todo = worker[w].todo \ {m}
        /\ \A n \in rest.todo : rest.tries[n] = worker[w].tries[n]
    <3>1. PICK b \in Batch : b = worker[w]
      BY <2>1
    <3>2. [b.tries EXCEPT ![m] = 0] \in [Messages -> 0..MaxAttempts]
      BY OutboxAssumption DEF OutboxAssumption, Batch
    <3>3. PICK tries \in [Messages -> 0..MaxAttempts] : tries = [b.tries EXCEPT ![m] = 0]
      BY <3>2
    <3>4. rest = [b EXCEPT !.pc = "sending", !.todo = @ \ {m}, !.locking = FALSE,
                           !.tries = tries, !.answer = "error"]
      BY <3>1, <3>3 DEF Batch
    <3>5. \A n \in Messages \ {m} : tries[n] = b.tries[n]
      BY <3>3 DEF Batch
    <3> HIDE DEF rest
    <3>6. rest \in Batch /\ rest.todo = b.todo \ {m} /\ rest.tries = tries /\ b.todo \subseteq Messages
      BY <3>4 DEF Batch
    <3> QED BY <3>1, <3>5, <3>6
  <2>7. /\ batch \in Batch \cup {Resting}
        /\ batch.pc # "resting" => \A n \in batch.todo : batch.tries[n] < MaxAttempts
    BY <2>1, <2>6 DEF AttemptsLeft, Batch, Resting
  <2> HIDE DEF row, batch
  <2>8. /\ outbox' \in [Messages -> Row]
        /\ \A n \in Messages :
             outbox'[n].status \in {"none", "pending"} => outbox'[n].attempts < MaxAttempts
    BY <2>3, <2>5, RowWritten
  <2> QED BY <1>5, <2>3, <2>7, <2>8, BatchWritten DEF Record, TypeOK, AttemptsLeft
<1>6. ASSUME NEW w \in Workers, NEW m \in Messages, PollDoc(w, m) PROVE TypeInv'
  <2>1. PICK result \in {"success", "error"} : outbox' = [outbox EXCEPT ![m].result = result]
    BY <1>6 DEF PollDoc
  <2> DEFINE row == [outbox[m] EXCEPT !.result = result]
  <2>2. row \in Row /\ outbox' = [outbox EXCEPT ![m] = row] /\ row.status = "sent"
    BY <1>6, <2>1 DEF PollDoc, InFlight, TypeOK, Row
  <2> HIDE DEF row
  <2> QED BY <1>6, <2>2, RowWritten DEF PollDoc, TypeOK, AttemptsLeft, Delivering
<1>7. ASSUME NEW w \in Workers, Crash(w) PROVE TypeInv'
  <2>1. worker' = [worker EXCEPT ![w] = Resting] /\ Resting.pc = "resting"
    BY <1>7 DEF Crash, Resting
  <2>2. exposed' \subseteq Messages
    BY <1>7 DEF Crash, TypeOK
  <2> QED BY <1>7, <2>1, <2>2, BatchWritten DEF Crash, TypeOK, AttemptsLeft
<1>8. ASSUME NEW c \in Clerks, Approval(c) PROVE TypeInv'
  <2>1. ASSUME NEW m \in Messages, NEW decision \in {"approving", "rejecting"},
               Decide(c, m, decision)
        PROVE  TypeInv'
    BY <2>1 DEF Decide, TypeOK, AttemptsLeft, Delivering
  <2>2. ASSUME clerk[c].pc \in {"approving", "rejecting"}
        PROVE  clerk[c].msg \in Messages
    BY <2>2 DEF TypeOK, Idle
  <2>3. CASE ApproveCommit(c)
    <3>1. PICK m \in Messages : m = clerk[c].msg
      BY <2>2, <2>3 DEF ApproveCommit
    <3> DEFINE row == [outbox[m] EXCEPT !.payload = "approved", !.retry = "now"]
    <3>2. /\ row \in Row /\ outbox' = [outbox EXCEPT ![m] = row]
          /\ row.status = outbox[m].status /\ row.attempts = outbox[m].attempts
      <4>1. outbox' = [outbox EXCEPT ![m].payload = "approved", ![m].retry = "now"]
        BY <2>3, <3>1 DEF ApproveCommit
      <4>2. outbox \in [Messages -> Row]
        BY DEF TypeOK
      <4> QED BY <4>1, <4>2 DEF Row
    <3>3. clerk' \in [Clerks -> [pc : {"approving", "rejecting"}, msg : Messages] \cup {Idle}]
          /\ approved' \subseteq Messages
      BY <2>3, <3>1 DEF ApproveCommit, TypeOK
    <3>4. row.status \in {"none", "pending"} => row.attempts < MaxAttempts
      BY <3>1, <3>2 DEF AttemptsLeft
    <3> HIDE DEF row
    <3> QED BY <2>3, <3>1, <3>2, <3>3, <3>4, RowWritten
            DEF ApproveCommit, TypeOK, AttemptsLeft, Delivering
  <2>4. CASE RejectCommit(c)
    <3>1. PICK m \in Messages : m = clerk[c].msg
      BY <2>2, <2>4 DEF RejectCommit
    <3> DEFINE row == [outbox[m] EXCEPT !.payload = "rejected", !.status = "failed"]
    <3>2. row \in Row /\ outbox' = [outbox EXCEPT ![m] = row] /\ row.status = "failed"
      <4>1. outbox' = [outbox EXCEPT ![m].payload = "rejected", ![m].status = "failed"]
        BY <2>4, <3>1 DEF RejectCommit
      <4>2. outbox \in [Messages -> Row]
        BY DEF TypeOK
      <4> QED BY <4>1, <4>2 DEF Row
    <3>3. clerk' \in [Clerks -> [pc : {"approving", "rejecting"}, msg : Messages] \cup {Idle}]
      BY <2>4 DEF RejectCommit, TypeOK
    <3> HIDE DEF row
    <3> QED BY <2>4, <3>1, <3>2, <3>3, RowWritten
            DEF RejectCommit, TypeOK, AttemptsLeft, Delivering
  <2> QED BY <1>8, <2>1, <2>3, <2>4 DEF Approval
<1>9. CASE UNCHANGED vars
  BY <1>9 DEF vars, TypeOK, AttemptsLeft, Delivering
<1> QED BY <1>1, <1>2, <1>3, <1>4, <1>5, <1>6, <1>7, <1>8, <1>9 DEF Next, Deliver

(* Rows, batches and requests keep their types; in particular a message is *)
(* never tried more than MAX_ATTEMPTS times by one worker's count.         *)
THEOREM TypeCorrect == Spec => []TypeOK
<1>1. TypeInv => TypeOK
  BY DEF TypeInv
<1> QED BY <1>1, InitTypeInv, StepTypeInv, PTL DEF Spec

-----------------------------------------------------------------------------
(* What the worker's steps do to the batches *)

LEMMA GetDueEffect ==
    ASSUME TypeOK, NEW w \in Workers, GetDue(w)
    PROVE  /\ \A v \in Workers \ {w} : worker'[v] = worker[v]
           /\ worker'[w].pc = "sending"
           /\ worker'[w].todo \subseteq Due
           /\ ~Delivering(w)
           /\ \A m \in worker'[w].todo : \A v \in Workers :
                Delivering(v) /\ m \in worker[v].todo => m \in exposed'
           /\ exposed \subseteq exposed'
BY DEF GetDue, Oldest, TypeOK, Delivering, Resting, Due

LEMMA SendEffect ==
    ASSUME TypeOK, NEW w \in Workers, NEW m \in Messages, Send(w, m)
    PROVE  /\ \A v \in Workers \ {w} : worker'[v] = worker[v]
           /\ worker[w].pc = "sending" /\ worker'[w].pc = "answered"
           /\ worker'[w].todo = worker[w].todo
           /\ Current(w, m)
           /\ \A n \in Messages \ {m} : received'[n] = received[n]
           /\ received'[m] >= received[m]
           /\ received'[m] <= received[m] + 1 \/ m \in exposed'
           /\ worker'[w].answer # "error" => Answer(m)'
           /\ worker'[w].answer = "error" /\ received'[m] # received[m] => m \in exposed'
           /\ exposed \subseteq exposed' /\ refused \subseteq refused'
<1>1. worker[w] \in Batch
  BY BatchType DEF Send, Delivering
<1>2. PICK taken \in 0..MaxTries, answer \in {"ok", "doc", "refused", "error"} :
        /\ answer \in {"ok", "doc"} => taken > 0
        /\ answer = "refused" => m \notin AsyncDocs
        /\ refused' = IF answer = "refused" THEN refused \cup {m} ELSE refused
        /\ received' = [received EXCEPT ![m] = Counted(@, taken)]
        /\ worker' = [worker EXCEPT ![w].pc = "answered", ![w].answer = Returned(answer)]
        /\ exposed' = IF AnswerLost(taken, answer) THEN exposed \cup {m} ELSE exposed
  BY DEF Send
<1>3. /\ \A v \in Workers \ {w} : worker'[v] = worker[v]
      /\ worker'[w].pc = "answered" /\ worker'[w].answer = Returned(answer)
      /\ worker'[w].todo = worker[w].todo
  BY <1>1, <1>2 DEF TypeOK, Batch, Returned
<1>4. MaxReceived \in Nat /\ MaxReceived > 1 /\ received[m] \in 0..MaxReceived
  BY OutboxAssumption DEF OutboxAssumption, TypeOK
<1>5. \A n \in Messages \ {m} : received'[n] = received[n]
  BY <1>2 DEF TypeOK
<1>6. received'[m] = Counted(received[m], taken)
  BY <1>2 DEF TypeOK
<1>7. /\ received'[m] >= received[m]
      /\ taken <= 1 => received'[m] <= received[m] + 1
      /\ taken > 0 => received'[m] > 0
      /\ taken = 0 => received'[m] = received[m]
  BY <1>4, <1>6, OutboxAssumption DEF OutboxAssumption, Counted
<1>8. worker'[w].answer # "error" => Answer(m)'
  BY <1>2, <1>3, <1>7 DEF Answer, Returned
<1>9. worker'[w].answer = "error" /\ received'[m] # received[m] => m \in exposed'
  BY <1>2, <1>3, <1>7 DEF AnswerLost, Returned
<1>11. received'[m] <= received[m] + 1 \/ m \in exposed'
  BY <1>2, <1>7, OutboxAssumption DEF AnswerLost, OutboxAssumption
<1>10. exposed \subseteq exposed' /\ refused \subseteq refused' /\ Current(w, m) /\ worker[w].pc = "sending"
  BY <1>2 DEF Send
<1> QED BY <1>3, <1>5, <1>7, <1>8, <1>9, <1>10, <1>11

LEMMA RecordEffect ==
    ASSUME TypeInv, NEW w \in Workers, NEW m \in Messages, Record(w, m)
    PROVE  /\ \A v \in Workers \ {w} : worker'[v] = worker[v]
           /\ Delivering(w) /\ worker[w].pc = "answered" /\ Current(w, m)
           /\ Delivering(w)' => /\ worker'[w].pc = "sending"
                                /\ worker'[w].todo = worker[w].todo \ {m}
           /\ \A n \in Messages \ {m} : outbox'[n] = outbox[n]
           /\ IF worker[w].answer # "error"
                THEN outbox'[m].status = "sent" /\ outbox'[m].retry = outbox[m].retry
                ELSE /\ outbox'[m].status \in {outbox[m].status, "failed"}
                     /\ outbox'[m].status = "failed" /\ outbox[m].status # "failed"
                          => outbox'[m].attempts = MaxAttempts
                     /\ outbox'[m].retry \in {outbox[m].retry, "later"}
<1>1. Delivering(w) /\ worker[w] \in Batch
  BY BatchType DEF Record, Delivering, TypeInv
<1>2. /\ worker[w].tries[m] \in 0..MaxAttempts
      /\ worker[w].tries[m] < MaxAttempts
      /\ outbox[m] \in Row
  BY <1>1 DEF Record, Current, TypeInv, TypeOK, AttemptsLeft, Batch
<1>3. /\ \A v \in Workers \ {w} : worker'[v] = worker[v]
      /\ worker[w].pc = "answered" /\ Current(w, m)
      /\ Delivering(w)' => /\ worker'[w].pc = "sending"
                           /\ worker'[w].todo = worker[w].todo \ {m}
  BY <1>1 DEF Record, TypeInv, TypeOK, Batch, Delivering, Resting
<1>4. \A n \in Messages \ {m} : outbox'[n] = outbox[n]
  BY DEF Record, TypeInv, TypeOK
<1>5. outbox'[m] = IF worker[w].answer # "error"
                     THEN MarkSent(outbox[m], worker[w].tries[m], worker[w].answer)
                     ELSE MarkFailed(outbox[m], worker[w].tries[m])
  BY DEF Record, Delivered, TypeInv, TypeOK
<1>6. CASE worker[w].answer # "error"
  BY <1>1, <1>2, <1>3, <1>4, <1>5, <1>6, MarkSentType
<1>7. CASE worker[w].answer = "error"
  BY <1>1, <1>2, <1>3, <1>4, <1>5, <1>7, MarkFailedType
<1> QED BY <1>6, <1>7

LEMMA CrashEffect ==
    ASSUME TypeOK, NEW w \in Workers, Crash(w)
    PROVE  /\ \A v \in Workers \ {w} : worker'[v] = worker[v]
           /\ ~Delivering(w)' /\ Delivering(w)
           /\ exposed \subseteq exposed'
           /\ worker[w].pc = "answered" =>
                \A m \in Messages : Current(w, m) => m \in exposed'
BY DEF Crash, TypeOK, Delivering, Resting

-----------------------------------------------------------------------------
(* The approval gate *)

(* A message that needs approval is on hold until it is approved, and is   *)
(* in no batch before; a message that is being decided exists.             *)
Gate ==
    /\ \A m \in NeedApproval :
         outbox[m].status = "none" \/ outbox[m].retry = "hold" \/ m \in approved
    /\ \A w \in Workers : \A m \in NeedApproval :
         Delivering(w) /\ m \in worker[w].todo => m \in approved
    /\ \A c \in Clerks : clerk[c] # Idle => outbox[clerk[c].msg].status # "none"
    /\ ApprovedBeforeSent

LEMMA ClerkType ==
    ASSUME TypeOK, NEW c \in Clerks, clerk[c].pc # "idle"
    PROVE  clerk[c] # Idle /\ clerk[c].msg \in Messages
BY DEF TypeOK, Idle

LEMMA InitGate == Init => Gate
BY OutboxAssumption
   DEF OutboxAssumption, Init, NoRow, Gate, Delivering, Resting, ApprovedBeforeSent

LEMMA StepGate == TypeInv /\ Gate /\ [Next]_vars => Gate'
<1> SUFFICES ASSUME TypeInv, Gate, [Next]_vars PROVE Gate'
    OBVIOUS
<1>0. TypeOK /\ NeedApproval \subseteq Messages
  BY OutboxAssumption DEF OutboxAssumption, TypeInv
<1> USE <1>0
<1>1. ASSUME NEW m \in Messages, Enqueue(m) PROVE Gate'
  BY <1>1 DEF Enqueue, Gate, TypeOK, Row, Delivering, ApprovedBeforeSent
<1>2. ASSUME NEW m \in Messages, BackoffElapses(m) PROVE Gate'
  BY <1>2 DEF BackoffElapses, Gate, TypeOK, Row, Delivering, ApprovedBeforeSent
<1>3. ASSUME NEW w \in Workers, GetDue(w) PROVE Gate'
  <2>1. \A m \in NeedApproval : m \in Due => m \in approved
    BY DEF Gate, Due
  <2>2. \A v \in Workers : \A m \in NeedApproval :
          Delivering(v)' /\ m \in worker'[v].todo => m \in approved
    BY <1>3, <2>1, GetDueEffect DEF Gate, Delivering
  <2> QED BY <1>3, <2>2 DEF GetDue, Gate, ApprovedBeforeSent
<1>4. ASSUME NEW w \in Workers, NEW m \in Messages, Send(w, m) PROVE Gate'
  <2>1. Delivering(w) /\ m \in worker[w].todo
    BY <1>4 DEF Send, Delivering, Current
  <2>2. \A v \in Workers : \A n \in NeedApproval :
          Delivering(v)' /\ n \in worker'[v].todo => n \in approved
    BY <1>4, <2>1, SendEffect DEF Gate, Delivering
  <2>3. ApprovedBeforeSent'
    <3>1. approved' = approved /\ \A n \in Messages \ {m} : received'[n] = received[n]
      BY <1>4, SendEffect DEF Send
    <3>2. m \in NeedApproval => m \in approved
      BY <2>1 DEF Gate
    <3> QED BY <3>1, <3>2 DEF Gate, ApprovedBeforeSent
  <2> QED BY <1>4, <2>2, <2>3 DEF Send, Gate
<1>5. ASSUME NEW w \in Workers, NEW m \in Messages, Record(w, m) PROVE Gate'
  <2>1. Delivering(w) /\ m \in worker[w].todo
    BY <1>5, RecordEffect DEF Current
  <2>2. \A v \in Workers : \A n \in NeedApproval :
          Delivering(v)' /\ n \in worker'[v].todo => n \in approved
    BY <1>5, RecordEffect DEF Gate, Delivering
  <2>3. \A n \in NeedApproval :
          outbox'[n].status = "none" \/ outbox'[n].retry = "hold" \/ n \in approved
    BY <1>5, <2>1, RecordEffect DEF Gate
  <2>4. \A n \in Messages : outbox[n].status # "none" => outbox'[n].status # "none"
    BY <1>5, RecordEffect
  <2>5. \A c \in Clerks : clerk[c] # Idle => outbox'[clerk[c].msg].status # "none"
    BY <2>4 DEF Gate, TypeOK
  <2> QED BY <1>5, <2>2, <2>3, <2>5 DEF Record, Gate, ApprovedBeforeSent
<1>6. ASSUME NEW w \in Workers, NEW m \in Messages, PollDoc(w, m) PROVE Gate'
  BY <1>6 DEF PollDoc, Gate, TypeOK, Row, Delivering, ApprovedBeforeSent
<1>7. ASSUME NEW w \in Workers, Crash(w) PROVE Gate'
  <2>1. \A v \in Workers : \A n \in NeedApproval :
          Delivering(v)' /\ n \in worker'[v].todo => n \in approved
    BY <1>7, CrashEffect DEF Gate, Delivering
  <2> QED BY <1>7, <2>1 DEF Crash, Gate, ApprovedBeforeSent
<1>8. ASSUME NEW c \in Clerks, NEW m \in Messages,
             NEW decision \in {"approving", "rejecting"}, Decide(c, m, decision)
      PROVE  Gate'
  <2>1. \A d \in Clerks : clerk'[d] # Idle => outbox[clerk'[d].msg].status # "none"
    BY <1>8 DEF Decide, Held, Gate, TypeOK
  <2> QED BY <1>8, <2>1 DEF Decide, Gate, Delivering, ApprovedBeforeSent
<1>9. ASSUME NEW c \in Clerks, ApproveCommit(c) PROVE Gate'
  <2>1. PICK m \in Messages : m = clerk[c].msg
    BY <1>9, ClerkType DEF ApproveCommit
  <2>2. /\ outbox' = [outbox EXCEPT ![m].payload = "approved", ![m].retry = "now"]
        /\ approved' = approved \cup {m}
        /\ clerk' = [clerk EXCEPT ![c] = Idle]
    BY <1>9, <2>1 DEF ApproveCommit
  <2>3. /\ \A n \in Messages : outbox'[n].status = outbox[n].status
        /\ \A n \in Messages \ {m} : outbox'[n].retry = outbox[n].retry
    BY <2>2 DEF TypeOK, Row
  <2>4. \A d \in Clerks : clerk'[d] # Idle => outbox'[clerk'[d].msg].status # "none"
    BY <2>2, <2>3 DEF Gate, TypeOK
  <2> QED BY <1>9, <2>2, <2>3, <2>4 DEF ApproveCommit, Gate, Delivering, ApprovedBeforeSent
<1>10. ASSUME NEW c \in Clerks, RejectCommit(c) PROVE Gate'
  <2>1. PICK m \in Messages : m = clerk[c].msg /\ outbox[m].status # "none"
    BY <1>10, ClerkType DEF RejectCommit, Gate
  <2>2. /\ outbox' = [outbox EXCEPT ![m].payload = "rejected", ![m].status = "failed"]
        /\ clerk' = [clerk EXCEPT ![c] = Idle]
    BY <1>10, <2>1 DEF RejectCommit
  <2>3. /\ \A n \in Messages : outbox'[n].retry = outbox[n].retry
        /\ \A n \in Messages \ {m} : outbox'[n].status = outbox[n].status
        /\ outbox'[m].status = "failed"
    BY <2>2 DEF TypeOK, Row
  <2>4. \A d \in Clerks : clerk'[d] # Idle => outbox'[clerk'[d].msg].status # "none"
    BY <2>2, <2>3 DEF Gate, TypeOK
  <2> QED BY <1>10, <2>1, <2>3, <2>4 DEF RejectCommit, Gate, Delivering, ApprovedBeforeSent
<1>11. CASE UNCHANGED vars
  BY <1>11 DEF vars, Gate, Delivering, ApprovedBeforeSent
<1> QED BY <1>1, <1>2, <1>3, <1>4, <1>5, <1>6, <1>7, <1>8, <1>9, <1>10, <1>11
        DEF Next, Deliver, Approval

(* Nothing that needs an operator's approval reaches the remote system     *)
(* without one, whatever workers and operators do at the same time.        *)
THEOREM ApprovalGate == Spec => []ApprovedBeforeSent
<1>1. Gate => ApprovedBeforeSent
  BY DEF Gate
<1> QED BY <1>1, InitTypeInv, StepTypeInv, InitGate, StepGate, PTL DEF Spec

-----------------------------------------------------------------------------
(* Sent means received, or refused in so many words *)

(* A worker with an answer has it from a call that was accepted or refused. *)
Receipts ==
    /\ \A w \in Workers : \A m \in Messages :
         /\ Delivering(w) /\ worker[w].pc = "answered" /\ Current(w, m)
         /\ worker[w].answer # "error"
         => Answer(m)
    /\ SentMeansAnswered

LEMMA InitReceipts == Init => Receipts
BY DEF Init, NoRow, Receipts, Delivering, Resting, SentMeansAnswered, Answer

LEMMA StepReceipts == TypeInv /\ Receipts /\ [Next]_vars => Receipts'
<1> SUFFICES ASSUME TypeInv, Receipts, [Next]_vars PROVE Receipts'
    OBVIOUS
<1>0. TypeOK
  BY DEF TypeInv
<1> USE <1>0
<1>1. ASSUME NEW m \in Messages, Enqueue(m) PROVE Receipts'
  BY <1>1 DEF Enqueue, Receipts, TypeOK, Row, Delivering, Current, SentMeansAnswered, Answer
<1>2. ASSUME NEW m \in Messages, BackoffElapses(m) PROVE Receipts'
  BY <1>2 DEF BackoffElapses, Receipts, TypeOK, Row, Delivering, Current, SentMeansAnswered, Answer
<1>3. ASSUME NEW w \in Workers, GetDue(w) PROVE Receipts'
  BY <1>3, GetDueEffect DEF GetDue, Receipts, Delivering, Current, SentMeansAnswered, Answer
<1>4. ASSUME NEW w \in Workers, NEW m \in Messages, Send(w, m) PROVE Receipts'
  <2>0. TypeOK'
    BY StepTypeInv DEF TypeInv
  <2>1. \A n \in Messages : received'[n] >= received[n]
    BY <1>4, SendEffect DEF TypeOK
  <2>4. \A n \in Messages : Answer(n) => Answer(n)'
    BY <2>0, <2>1, <1>4, SendEffect DEF TypeOK, Answer
  <2>2. ASSUME NEW v \in Workers, NEW n \in Messages,
               Delivering(v)', worker'[v].pc = "answered", Current(v, n)',
               worker'[v].answer # "error"
        PROVE  Answer(n)'
    <3>1. CASE v = w
      <4>1. Current(w, n) /\ Current(w, m)
        BY <1>4, <2>2, <3>1, SendEffect DEF Current
      <4>2. n = m
        BY <4>1, CurrentUnique
      <4> QED BY <1>4, <2>2, <3>1, <4>2, SendEffect
    <3>2. CASE v # w
      <4>1. worker'[v] = worker[v]
        BY <1>4, <3>2, SendEffect
      <4>2. Answer(n)
        BY <2>2, <4>1 DEF Receipts, Delivering, Current
      <4> QED BY <2>4, <4>2
    <3> QED BY <3>1, <3>2
  <2>3. SentMeansAnswered'
    <3>1. ASSUME NEW n \in Messages, outbox'[n].status = "sent"
          PROVE  Answer(n)'
      <4>1. Answer(n)
        BY <1>4, <3>1 DEF Send, Receipts, SentMeansAnswered
      <4> QED BY <2>4, <4>1
    <3> QED BY <3>1 DEF SentMeansAnswered, Answer
  <2> QED BY <2>2, <2>3 DEF Receipts
<1>5. ASSUME NEW w \in Workers, NEW m \in Messages, Record(w, m) PROVE Receipts'
  <2>1. \A n \in Messages : Answer(n)' <=> Answer(n)
    BY <1>5 DEF Record, Answer
  <2>2. worker[w].answer # "error" => Answer(m)
    BY <1>5, RecordEffect DEF Receipts
  <2>3. SentMeansAnswered'
    BY <1>5, <2>1, <2>2, RecordEffect DEF Receipts, SentMeansAnswered, Answer
  <2>4. ASSUME NEW v \in Workers, NEW n \in Messages,
               Delivering(v)', worker'[v].pc = "answered", Current(v, n)',
               worker'[v].answer # "error"
        PROVE  Answer(n)'
    <3>1. v # w /\ worker'[v] = worker[v]
      BY <1>5, <2>4, RecordEffect
    <3> QED BY <2>1, <2>4, <3>1 DEF Receipts, Delivering, Current
  <2> QED BY <2>3, <2>4 DEF Receipts
<1>6. ASSUME NEW w \in Workers, NEW m \in Messages, PollDoc(w, m) PROVE Receipts'
  BY <1>6 DEF PollDoc, Receipts, TypeOK, Row, Delivering, Current, SentMeansAnswered, Answer
<1>7. ASSUME NEW w \in Workers, Crash(w) PROVE Receipts'
  <2>1. ASSUME NEW v \in Workers, NEW n \in Messages,
               Delivering(v)', worker'[v].pc = "answered", Current(v, n)',
               worker'[v].answer # "error"
        PROVE  Answer(n)
    <3>1. v # w /\ worker'[v] = worker[v]
      BY <1>7, <2>1, CrashEffect
    <3> QED BY <2>1, <3>1 DEF Receipts, Delivering, Current
  <2> QED BY <1>7, <2>1 DEF Crash, Receipts, SentMeansAnswered, Answer
<1>8. ASSUME NEW c \in Clerks, NEW m \in Messages,
             NEW decision \in {"approving", "rejecting"}, Decide(c, m, decision)
      PROVE  Receipts'
  BY <1>8 DEF Decide, Receipts, Delivering, Current, SentMeansAnswered, Answer
<1>9. ASSUME NEW c \in Clerks, ApproveCommit(c) PROVE Receipts'
  <2>1. PICK m \in Messages : m = clerk[c].msg
    BY <1>9, ClerkType DEF ApproveCommit
  <2>2. outbox' = [outbox EXCEPT ![m].payload = "approved", ![m].retry = "now"]
    BY <1>9, <2>1 DEF ApproveCommit
  <2>3. \A n \in Messages : outbox'[n].status = outbox[n].status
    BY <2>2 DEF TypeOK, Row
  <2> QED BY <1>9, <2>3 DEF ApproveCommit, Receipts, Delivering, Current, SentMeansAnswered, Answer
<1>10. ASSUME NEW c \in Clerks, RejectCommit(c) PROVE Receipts'
  <2>1. PICK m \in Messages : m = clerk[c].msg
    BY <1>10, ClerkType DEF RejectCommit
  <2>2. outbox' = [outbox EXCEPT ![m].payload = "rejected", ![m].status = "failed"]
    BY <1>10, <2>1 DEF RejectCommit
  <2>3. \A n \in Messages : outbox'[n].status = "sent" => outbox[n].status = "sent"
    BY <2>2 DEF TypeOK, Row
  <2> QED BY <1>10, <2>3 DEF RejectCommit, Receipts, Delivering, Current, SentMeansAnswered, Answer
<1>11. CASE UNCHANGED vars
  BY <1>11 DEF vars, Receipts, Delivering, Current, SentMeansAnswered, Answer
<1> QED BY <1>1, <1>2, <1>3, <1>4, <1>5, <1>6, <1>7, <1>8, <1>9, <1>10, <1>11
        DEF Next, Deliver, Approval

(* A message is marked sent only if the remote system accepted it, or, for *)
(* Smartup, refused it in an answer of status 200, with crashes, lost      *)
(* answers and any number of workers.                                      *)
THEOREM SentWasAnswered == Spec => []SentMeansAnswered
<1>1. Receipts => SentMeansAnswered
  BY DEF Receipts
<1> QED BY <1>1, InitTypeInv, StepTypeInv, InitReceipts, StepReceipts, PTL DEF Spec

-----------------------------------------------------------------------------
(* Duplicates and retries *)

(* A message that is not exposed is in one batch at most; it was not taken *)
(* yet unless its worker has the answer to record, or it is settled.       *)
InBatch(w, m) == Delivering(w) /\ m \in worker[w].todo
Answered(w, m) ==
    worker[w].pc = "answered" /\ Current(w, m) /\ worker[w].answer # "error"

Unshared ==
    \A m \in Messages \ exposed : \A v, w \in Workers :
      InBatch(v, m) /\ InBatch(w, m) => v = w

Untaken ==
    /\ \A m \in Messages \ exposed : \A w \in Workers :
         InBatch(w, m) /\ ~Answered(w, m) => received[m] = 0
    /\ \A m \in Messages \ exposed :
         /\ outbox[m].status \in {"none", "pending"}
         /\ \A w \in Workers : ~InBatch(w, m)
         => received[m] = 0

Once == Unshared /\ Untaken /\ DuplicatesExplained

LEMMA InitOnce == Init => Once
BY DEF Init, Once, Unshared, Untaken, DuplicatesExplained, InBatch, Delivering, Resting

(* A step that leaves batches, calls and history alone, and makes no       *)
(* settled message pending again.                                          *)
LEMMA QuietOnce ==
    ASSUME Once, UNCHANGED <<worker, received, exposed>>,
           \A m \in Messages : outbox'[m].status \in {"none", "pending"} =>
                               outbox[m].status \in {"none", "pending"}
    PROVE  Once'
BY DEF Once, Unshared, Untaken, DuplicatesExplained, InBatch, Answered, Delivering, Current

LEMMA StepOnce == TypeInv /\ Once /\ [Next]_vars => Once'
<1> SUFFICES ASSUME TypeInv, Once, [Next]_vars PROVE Once'
    OBVIOUS
<1>0. TypeOK
  BY DEF TypeInv
<1> USE <1>0
<1>1. ASSUME NEW m \in Messages, Enqueue(m) PROVE Once'
  <2>1. \A n \in Messages : outbox'[n].status \in {"none", "pending"} =>
                            outbox[n].status \in {"none", "pending"}
    BY <1>1 DEF Enqueue, TypeOK, Row
  <2> QED BY <1>1, <2>1, QuietOnce DEF Enqueue
<1>2. ASSUME NEW m \in Messages, BackoffElapses(m) PROVE Once'
  <2>1. \A n \in Messages : outbox'[n].status = outbox[n].status
    BY <1>2 DEF BackoffElapses, TypeOK, Row
  <2> QED BY <1>2, <2>1, QuietOnce DEF BackoffElapses
<1>3. ASSUME NEW w \in Workers, GetDue(w) PROVE Once'
  <2>1. UNCHANGED <<outbox, received>>
    BY <1>3 DEF GetDue
  <2>2. \A v \in Workers : \A m \in Messages :
          v # w => (InBatch(v, m)' <=> InBatch(v, m)) /\ (Answered(v, m)' <=> Answered(v, m))
    BY <1>3, GetDueEffect DEF InBatch, Answered, Delivering, Current
  <2>3. \A m \in Messages : ~InBatch(w, m) /\ ~Answered(w, m)'
    BY <1>3, GetDueEffect DEF InBatch, Answered
  <2>4. \A m \in Messages \ exposed' :
          InBatch(w, m)' => /\ outbox[m].status = "pending"
                           /\ \A v \in Workers : ~InBatch(v, m)
    BY <1>3, GetDueEffect DEF InBatch, Due
  <2>5. exposed \subseteq exposed'
    BY <1>3, GetDueEffect
  <2>6. Unshared'
    BY <2>2, <2>4, <2>5 DEF Once, Unshared
  <2>7. Untaken'
    BY <2>1, <2>2, <2>3, <2>4, <2>5 DEF Once, Untaken
  <2> QED BY <2>1, <2>5, <2>6, <2>7 DEF Once, DuplicatesExplained
<1>4. ASSUME NEW w \in Workers, NEW m \in Messages, Send(w, m) PROVE Once'
  <2>1. /\ outbox' = outbox
        /\ worker[w].pc = "sending" /\ Current(w, m) /\ InBatch(w, m)
        /\ exposed \subseteq exposed'
    BY <1>4, SendEffect DEF Send, InBatch, Delivering, Current
  <2>2. \A v \in Workers : \A n \in Messages : InBatch(v, n)' <=> InBatch(v, n)
    BY <1>4, <2>1, SendEffect DEF InBatch, Delivering
  <2>3. \A v \in Workers : \A n \in Messages :
          v # w => (Answered(v, n)' <=> Answered(v, n))
    BY <1>4, SendEffect DEF Answered, Current
  <2>4. \A n \in Messages : ~Answered(w, n)
    BY <2>1 DEF Answered
  <2>5. Answered(w, m)' <=> worker'[w].answer # "error"
    BY <1>4, <2>1, SendEffect DEF Answered, Current
  <2>6. ASSUME m \notin exposed'
        PROVE  (Answered(w, m)' \/ received'[m] = 0) /\ received'[m] <= 1
    <3>1. received[m] = 0
      BY <2>1, <2>4, <2>6 DEF Once, Untaken
    <3>2. received'[m] <= 1
      BY <1>4, <2>6, <3>1, SendEffect
    <3>3. worker'[w].answer = "error" => received'[m] = 0
      BY <1>4, <2>6, <3>1, SendEffect
    <3> QED BY <2>5, <3>2, <3>3
  <2>7. \A n \in Messages \ {m} : received'[n] = received[n]
    BY <1>4, SendEffect
  <2>8. Unshared'
    BY <2>1, <2>2 DEF Once, Unshared
  <2>9. Untaken'
    <3>1. ASSUME NEW n \in Messages \ exposed', NEW v \in Workers,
                 InBatch(v, n)', ~Answered(v, n)'
          PROVE  received'[n] = 0
      <4>1. CASE n = m
        <5>1. v = w
          BY <2>1, <2>2, <3>1, <4>1 DEF Once, Unshared
        <5>2. m \notin exposed' /\ ~Answered(w, m)'
          BY <3>1, <4>1, <5>1
        <5>3. received'[m] = 0
          BY <2>6, <5>2, Zenon
        <5> QED BY <4>1, <5>3
      <4>2. CASE n # m
        <5>1. ~Answered(v, n)
          BY <2>3, <2>4, <3>1
        <5> QED BY <2>1, <2>2, <2>7, <3>1, <4>2, <5>1 DEF Once, Untaken
      <4> QED BY <4>1, <4>2
    <3>2. ASSUME NEW n \in Messages \ exposed', outbox'[n].status \in {"none", "pending"},
                 \A v \in Workers : ~InBatch(v, n)'
          PROVE  received'[n] = 0
      <4>1. n # m
        BY <2>1, <2>2, <3>2
      <4> QED BY <2>1, <2>2, <2>7, <3>2, <4>1 DEF Once, Untaken
    <3> QED BY <3>1, <3>2 DEF Untaken
  <2>10. DuplicatesExplained'
    <3>1. ASSUME NEW n \in Messages, received'[n] > 1, n \notin exposed' PROVE FALSE
      <4>1. CASE n = m
        <5>1. received'[m] <= 1
          BY <2>6, <3>1, <4>1
        <5>2. received'[m] \in Nat
          BY StepTypeInv DEF TypeInv, TypeOK
        <5> QED BY <3>1, <4>1, <5>1, <5>2
      <4>2. CASE n # m
        BY <2>1, <2>7, <3>1, <4>2 DEF Once, DuplicatesExplained
      <4> QED BY <4>1, <4>2
    <3> QED BY <3>1 DEF DuplicatesExplained
  <2> QED BY <2>8, <2>9, <2>10 DEF Once
<1>5. ASSUME NEW w \in Workers, NEW m \in Messages, Record(w, m) PROVE Once'
  <2>1. UNCHANGED <<received, exposed>>
    BY <1>5 DEF Record
  <2>2. \A v \in Workers : \A n \in Messages :
          v # w => (InBatch(v, n)' <=> InBatch(v, n)) /\ (Answered(v, n)' <=> Answered(v, n))
    BY <1>5, RecordEffect DEF InBatch, Answered, Delivering, Current
  <2>3. \A n \in Messages :
          InBatch(w, n)' => n # m /\ InBatch(w, n) /\ ~Answered(w, n)
    <3>1. ASSUME NEW n \in Messages, InBatch(w, n)'
          PROVE  n # m /\ InBatch(w, n)
      BY <1>5, <3>1, RecordEffect DEF InBatch
    <3>2. ASSUME NEW n \in Messages, n # m PROVE ~Answered(w, n)
      BY <1>5, <3>2, RecordEffect, CurrentUnique DEF Answered
    <3> QED BY <3>1, <3>2
  <2>4. InBatch(w, m) /\ (~Answered(w, m) <=> worker[w].answer = "error")
    BY <1>5, RecordEffect DEF InBatch, Answered, Current
  <2>5. Unshared'
    BY <2>1, <2>2, <2>3 DEF Once, Unshared
  <2>6. Untaken'
    <3>1. ASSUME NEW n \in Messages \ exposed, NEW v \in Workers,
                 InBatch(v, n)', ~Answered(v, n)'
          PROVE  received[n] = 0
      BY <2>2, <2>3, <3>1 DEF Once, Untaken
    <3>2. ASSUME NEW n \in Messages \ exposed, outbox'[n].status \in {"none", "pending"},
                 \A v \in Workers : ~InBatch(v, n)'
          PROVE  received[n] = 0
      <4>1. CASE n = m
        <5>1. worker[w].answer = "error"
          BY <1>5, <3>2, <4>1, RecordEffect
        <5> QED BY <2>4, <4>1, <5>1 DEF Once, Untaken
      <4>2. CASE n # m
        <5>1. outbox'[n] = outbox[n]
          BY <1>5, <4>2, RecordEffect
        <5>2. CASE InBatch(w, n)
          <6>1. ~Answered(w, n)
            BY <1>5, <4>2, RecordEffect, CurrentUnique DEF Answered
          <6> QED BY <5>2, <6>1 DEF Once, Untaken
        <5>3. CASE ~InBatch(w, n)
          BY <2>2, <3>2, <5>1, <5>3 DEF Once, Untaken
        <5> QED BY <5>2, <5>3
      <4> QED BY <4>1, <4>2
    <3> QED BY <2>1, <3>1, <3>2 DEF Untaken
  <2> QED BY <2>1, <2>5, <2>6 DEF Once, DuplicatesExplained
<1>6. ASSUME NEW w \in Workers, NEW m \in Messages, PollDoc(w, m) PROVE Once'
  <2>1. \A n \in Messages : outbox'[n].status = outbox[n].status
    BY <1>6 DEF PollDoc, TypeOK, Row
  <2> QED BY <1>6, <2>1, QuietOnce DEF PollDoc
<1>7. ASSUME NEW w \in Workers, Crash(w) PROVE Once'
  <2>1. UNCHANGED <<outbox, received>> /\ exposed \subseteq exposed'
    BY <1>7, CrashEffect DEF Crash
  <2>2. \A v \in Workers : \A n \in Messages :
          v # w => (InBatch(v, n)' <=> InBatch(v, n)) /\ (Answered(v, n)' <=> Answered(v, n))
    BY <1>7, CrashEffect DEF InBatch, Answered, Delivering, Current
  <2>3. \A n \in Messages : ~InBatch(w, n)'
    BY <1>7, CrashEffect DEF InBatch
  <2>4. \A n \in Messages \ exposed' : ~Answered(w, n)
    BY <1>7, CrashEffect DEF Answered
  <2>5. Unshared'
    BY <2>1, <2>2, <2>3 DEF Once, Unshared
  <2>6. Untaken'
    BY <2>1, <2>2, <2>3, <2>4 DEF Once, Untaken
  <2> QED BY <2>1, <2>5, <2>6 DEF Once, DuplicatesExplained
<1>8. ASSUME NEW c \in Clerks, NEW m \in Messages,
             NEW decision \in {"approving", "rejecting"}, Decide(c, m, decision)
      PROVE  Once'
  BY <1>8, QuietOnce DEF Decide
<1>9. ASSUME NEW c \in Clerks, ApproveCommit(c) PROVE Once'
  <2>1. PICK m \in Messages : m = clerk[c].msg
    BY <1>9, ClerkType DEF ApproveCommit
  <2>2. outbox' = [outbox EXCEPT ![m].payload = "approved", ![m].retry = "now"]
    BY <1>9, <2>1 DEF ApproveCommit
  <2>3. \A n \in Messages : outbox'[n].status = outbox[n].status
    BY <2>2 DEF TypeOK, Row
  <2> QED BY <1>9, <2>3, QuietOnce DEF ApproveCommit
<1>10. ASSUME NEW c \in Clerks, RejectCommit(c) PROVE Once'
  <2>1. PICK m \in Messages : m = clerk[c].msg
    BY <1>10, ClerkType DEF RejectCommit
  <2>2. outbox' = [outbox EXCEPT ![m].payload = "rejected", ![m].status = "failed"]
    BY <1>10, <2>1 DEF RejectCommit
  <2>3. \A n \in Messages : outbox'[n].status \in {outbox[n].status, "failed"}
    BY <2>2 DEF TypeOK, Row
  <2> QED BY <1>10, <2>3, QuietOnce DEF RejectCommit
<1>11. CASE UNCHANGED vars
  BY <1>11, QuietOnce DEF vars
<1> QED BY <1>1, <1>2, <1>3, <1>4, <1>5, <1>6, <1>7, <1>8, <1>9, <1>10, <1>11
        DEF Next, Deliver, Approval

(* The remote system takes a message twice only after a lost answer, a     *)
(* crash between the call and its commit, or in the batches of two workers *)
(* at once: there is no fourth way, for any number of workers.             *)
THEOREM NoOtherDuplicates == Spec => []DuplicatesExplained
<1>1. Once => DuplicatesExplained
  BY DEF Once
<1> QED BY <1>1, InitTypeInv, StepTypeInv, InitOnce, StepOnce, PTL DEF Spec

-----------------------------------------------------------------------------
(* Giving up *)

(* Only messages that need approval are held or decided; any other stays   *)
(* pending while its only worker has it in its batch.                      *)
Retries ==
    /\ \A m \in Messages : outbox[m].retry = "hold" => m \in NeedApproval
    /\ \A c \in Clerks : clerk[c] # Idle => clerk[c].msg \in NeedApproval
    /\ \A m \in Messages \ (exposed \cup NeedApproval) : \A w \in Workers :
         InBatch(w, m) => outbox[m].status = "pending"
    /\ FailedMeansExhausted

LEMMA InitRetries == Init => Retries
BY DEF Init, NoRow, Retries, FailedMeansExhausted, InBatch, Delivering, Resting

LEMMA StepRetries == TypeInv /\ Once /\ Retries /\ [Next]_vars => Retries'
<1> SUFFICES ASSUME TypeInv, Once, Retries, [Next]_vars PROVE Retries'
    OBVIOUS
<1>0. TypeOK
  BY DEF TypeInv
<1> USE <1>0
<1>1. ASSUME NEW m \in Messages, Enqueue(m) PROVE Retries'
  <2>1. /\ \A n \in Messages \ {m} : outbox'[n] = outbox[n]
        /\ outbox[m].status = "none" /\ outbox'[m].status = "pending"
        /\ outbox'[m].retry = "hold" => m \in NeedApproval
    BY <1>1 DEF Enqueue, TypeOK, Row
  <2> QED BY <1>1, <2>1 DEF Enqueue, Retries, FailedMeansExhausted, InBatch, Delivering
<1>2. ASSUME NEW m \in Messages, BackoffElapses(m) PROVE Retries'
  <2>1. /\ \A n \in Messages : /\ outbox'[n].status = outbox[n].status
                               /\ outbox'[n].attempts = outbox[n].attempts
        /\ \A n \in Messages : outbox'[n].retry = "hold" => outbox[n].retry = "hold"
    BY <1>2 DEF BackoffElapses, TypeOK, Row
  <2> QED BY <1>2, <2>1 DEF BackoffElapses, Retries, FailedMeansExhausted, InBatch, Delivering
<1>3. ASSUME NEW w \in Workers, GetDue(w) PROVE Retries'
  <2>1. UNCHANGED <<outbox, clerk>>
    BY <1>3 DEF GetDue
  <2>2. \A v \in Workers : \A m \in Messages : v # w => (InBatch(v, m)' <=> InBatch(v, m))
    BY <1>3, GetDueEffect DEF InBatch, Delivering
  <2>3. exposed \subseteq exposed'
    BY <1>3, GetDueEffect
  <2>4. \A m \in Messages : InBatch(w, m)' => outbox[m].status = "pending"
    BY <1>3, GetDueEffect DEF InBatch, Due
  <2> QED BY <2>1, <2>2, <2>3, <2>4 DEF Retries, FailedMeansExhausted
<1>4. ASSUME NEW w \in Workers, NEW m \in Messages, Send(w, m) PROVE Retries'
  <2>1. UNCHANGED <<outbox, clerk>> /\ Delivering(w)
    BY <1>4 DEF Send, Delivering
  <2>2. \A v \in Workers : \A n \in Messages : InBatch(v, n)' <=> InBatch(v, n)
    BY <1>4, <2>1, SendEffect DEF InBatch, Delivering
  <2>3. exposed \subseteq exposed'
    BY <1>4, SendEffect
  <2> QED BY <2>1, <2>2, <2>3 DEF Retries, FailedMeansExhausted
<1>5. ASSUME NEW w \in Workers, NEW m \in Messages, Record(w, m) PROVE Retries'
  <2>1. UNCHANGED <<clerk, exposed>>
    BY <1>5 DEF Record
  <2>2. InBatch(w, m)
    BY <1>5, RecordEffect DEF InBatch, Current
  <2>3. \A v \in Workers : \A n \in Messages :
          InBatch(v, n)' => InBatch(v, n) /\ ~(v = w /\ n = m)
    BY <1>5, RecordEffect DEF InBatch, Delivering
  <2>4. \A n \in Messages : outbox'[n].retry = "hold" => outbox[n].retry = "hold"
    BY <1>5, RecordEffect
  <2>5. \A n \in Messages \ {m} : outbox'[n] = outbox[n]
    BY <1>5, RecordEffect
  <2>6. m \notin exposed \cup NeedApproval =>
          outbox[m].status = "pending"
          /\ (outbox'[m].status = "failed" => outbox'[m].attempts = MaxAttempts)
    BY <1>5, <2>2, RecordEffect DEF Retries
  <2>7. \A n \in Messages \ (exposed \cup NeedApproval) : \A v \in Workers :
          InBatch(v, n)' => outbox'[n].status = "pending"
    <3>1. ASSUME NEW n \in Messages \ (exposed \cup NeedApproval), NEW v \in Workers,
                 InBatch(v, n)'
          PROVE  outbox'[n].status = "pending"
      <4>1. n # m
        BY <2>2, <2>3, <3>1 DEF Once, Unshared
      <4> QED BY <2>3, <2>5, <3>1, <4>1 DEF Retries
    <3> QED BY <3>1
  <2>8. FailedMeansExhausted'
    BY <2>1, <2>5, <2>6 DEF Retries, FailedMeansExhausted
  <2> QED BY <2>1, <2>4, <2>7, <2>8 DEF Retries
<1>6. ASSUME NEW w \in Workers, NEW m \in Messages, PollDoc(w, m) PROVE Retries'
  <2>1. \A n \in Messages : /\ outbox'[n].status = outbox[n].status
                            /\ outbox'[n].attempts = outbox[n].attempts
                            /\ outbox'[n].retry = outbox[n].retry
    BY <1>6 DEF PollDoc, TypeOK, Row
  <2> QED BY <1>6, <2>1 DEF PollDoc, Retries, FailedMeansExhausted, InBatch, Delivering
<1>7. ASSUME NEW w \in Workers, Crash(w) PROVE Retries'
  <2>1. UNCHANGED <<outbox, clerk>> /\ exposed \subseteq exposed'
    BY <1>7, CrashEffect DEF Crash
  <2>2. \A v \in Workers : \A n \in Messages : InBatch(v, n)' => InBatch(v, n)
    BY <1>7, CrashEffect DEF InBatch, Delivering
  <2> QED BY <2>1, <2>2 DEF Retries, FailedMeansExhausted
<1>8. ASSUME NEW c \in Clerks, NEW m \in Messages,
             NEW decision \in {"approving", "rejecting"}, Decide(c, m, decision)
      PROVE  Retries'
  <2>1. m \in NeedApproval
    BY <1>8 DEF Decide, Held, Retries
  <2>2. \A d \in Clerks : clerk'[d] # Idle => clerk'[d].msg \in NeedApproval
    BY <1>8, <2>1 DEF Decide, Retries, TypeOK
  <2> QED BY <1>8, <2>2 DEF Decide, Retries, FailedMeansExhausted, InBatch, Delivering
<1>9. ASSUME NEW c \in Clerks, ApproveCommit(c) PROVE Retries'
  <2>1. PICK m \in Messages : m = clerk[c].msg
    BY <1>9, ClerkType DEF ApproveCommit
  <2>2. outbox' = [outbox EXCEPT ![m].payload = "approved", ![m].retry = "now"]
    BY <1>9, <2>1 DEF ApproveCommit
  <2>3. /\ \A n \in Messages : /\ outbox'[n].status = outbox[n].status
                               /\ outbox'[n].attempts = outbox[n].attempts
        /\ \A n \in Messages : outbox'[n].retry = "hold" => outbox[n].retry = "hold"
    BY <2>2 DEF TypeOK, Row
  <2>4. \A d \in Clerks : clerk'[d] # Idle => clerk'[d].msg \in NeedApproval
    BY <1>9 DEF ApproveCommit, Retries, TypeOK
  <2> QED BY <1>9, <2>3, <2>4
          DEF ApproveCommit, Retries, FailedMeansExhausted, InBatch, Delivering
<1>10. ASSUME NEW c \in Clerks, RejectCommit(c) PROVE Retries'
  <2>1. PICK m \in Messages : m = clerk[c].msg /\ m \in NeedApproval
    BY <1>10, ClerkType DEF RejectCommit, Retries
  <2>2. outbox' = [outbox EXCEPT ![m].payload = "rejected", ![m].status = "failed"]
    BY <1>10, <2>1 DEF RejectCommit
  <2>3. /\ \A n \in Messages \ {m} : outbox'[n] = outbox[n]
        /\ outbox'[m].retry = outbox[m].retry
    BY <2>2 DEF TypeOK, Row
  <2>4. \A d \in Clerks : clerk'[d] # Idle => clerk'[d].msg \in NeedApproval
    BY <1>10 DEF RejectCommit, Retries, TypeOK
  <2> QED BY <1>10, <2>1, <2>3, <2>4, ZenonT(40)
          DEF RejectCommit, Retries, FailedMeansExhausted, InBatch, Delivering
<1>11. CASE UNCHANGED vars
  BY <1>11 DEF vars, Retries, FailedMeansExhausted, InBatch, Delivering
<1> QED BY <1>1, <1>2, <1>3, <1>4, <1>5, <1>6, <1>7, <1>8, <1>9, <1>10, <1>11
        DEF Next, Deliver, Approval

(* A message that two workers did not share is given up after MAX_ATTEMPTS *)
(* recorded calls, or because an operator rejected it, and never before.   *)
THEOREM NotGivenUpEarly == Spec => []FailedMeansExhausted
<1>1. Retries => FailedMeansExhausted
  BY DEF Retries
<1> QED BY <1>1, InitTypeInv, StepTypeInv, InitOnce, StepOnce, InitRetries, StepRetries, PTL
        DEF Spec
=============================================================================
