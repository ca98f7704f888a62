-------------------------- MODULE Delivery_proofs --------------------------
(***************************************************************************)
(* Proofs about Delivery, for any mails, workers and number of attempts,   *)
(* and however often workers die and replies are lost.                     *)
(***************************************************************************)
EXTENDS Delivery, TLAPS

-----------------------------------------------------------------------------
(* The invariant *)

(* A worker under way holds the lock of its task, so no two work on the    *)
(* same mail: a lock is taken away only from one that is not.              *)
Held == \A w \in Workers : ~At(w, "idle") => /\ task[Mail(w)] # NoTask
                                             /\ task[Mail(w)].lock = w

(* Before the row there is nothing, and before the queueing no task.  A    *)
(* pending row has attempts left and has counted no fewer than the queue.  *)
MailInv(m) ==
  /\ stage[m] \in {"none", "in_app"} => row[m].status = "absent" /\ row[m].attempts = 0
  /\ stage[m] # "done" => task[m] = NoTask
  /\ row[m].status = "pending" =>
       /\ row[m].attempts < MaxAttempts
       /\ task[m] # NoTask => task[m].attempts <= row[m].attempts
       /\ stage[m] = "done" => task[m] # NoTask
  /\ row[m].status = "sent" => mailed[m] > 0
  /\ row[m].status = "failed" => row[m].attempts = MaxAttempts \/ m \notin reachable

(* What a worker knows of the row it has in memory.                        *)
WorkInv(w) ==
  LET m == Mail(w) IN
  /\ worker[w].pc \in {"send", "sent", "failed", "unaddressed", "retry", "raise"}
       => row[m].status = "pending"
  /\ worker[w].pc \in {"send", "sent", "failed", "retry"}
       => worker[w].attempts = row[m].attempts + 1
  /\ At(w, "sent") => mailed[m] > 0
  /\ At(w, "failed") => worker[w].attempts = MaxAttempts
  /\ At(w, "unaddressed") => m \notin reachable /\ worker[w].attempts = row[m].attempts
  /\ At(w, "retry") => worker[w].attempts < MaxAttempts
  /\ At(w, "raise") => task[m].attempts < row[m].attempts
  /\ At(w, "complete") => row[m].status # "pending"

IInv == /\ TypeOK
        /\ Held
        /\ \A m \in Mails : MailInv(m)
        /\ \A w \in Workers : WorkInv(w)

LEMMA InitInv == Init => IInv
<1> SUFFICES ASSUME Init PROVE IInv
  OBVIOUS
<1> USE DeliveryAssumption DEF Init
<1>1. /\ Resting.mail \in Mails /\ Resting.pc = "idle"
      /\ Resting = [pc |-> Resting.pc, mail |-> Resting.mail, attempts |-> 0]
  BY DEF Resting
<1>2. TypeOK
  BY <1>1 DEF TypeOK, Statuses
<1>3. Held /\ \A w \in Workers : WorkInv(w)
  BY <1>1 DEF Held, WorkInv, At
<1>4. \A m \in Mails : MailInv(m)
  BY DEF MailInv
<1> QED BY <1>2, <1>3, <1>4 DEF IInv

LEMMA OneWorkerEach ==
  ASSUME IInv, NEW v \in Workers, NEW w \in Workers, ~At(v, "idle"), ~At(w, "idle"),
         Mail(v) = Mail(w)
  PROVE  v = w
BY DEF IInv, Held

-----------------------------------------------------------------------------
(* The request *)

LEMMA RequestStep ==
  ASSUME IInv, NEW m \in Mails, Request(m) \/ RequestDies(m) \/ LoseAddress(m)
  PROVE  IInv'
<1> USE DeliveryAssumption DEF IInv, TypeOK, Held, MailInv, WorkInv, At, Mail, Statuses
<1>1. CASE RecordInApp(m)
  BY <1>1 DEF RecordInApp
<1>2. CASE RecordEmail(m)
  BY <1>2 DEF RecordEmail
<1>3. CASE SkipEmail(m)
  BY <1>3 DEF SkipEmail
<1>4. CASE QueueEmail(m)
  BY <1>4 DEF QueueEmail
<1>5. CASE RequestDies(m)
  BY <1>5 DEF RequestDies
<1>6. CASE LoseAddress(m)
  BY <1>6 DEF LoseAddress
<1> QED BY <1>1, <1>2, <1>3, <1>4, <1>5, <1>6 DEF Request

-----------------------------------------------------------------------------
(* The queue *)

LEMMA QueueStep ==
  ASSUME IInv, NEW m \in Mails, NEW w \in Workers,
         \/ TakeTask(w, m) \/ LockExpires(m) \/ WorkerDies(w) \/ Complete(w) \/ Reschedule(w)
  PROVE  IInv'
<1> USE DeliveryAssumption DEF IInv, TypeOK, Held, MailInv, WorkInv, At, Mail, Statuses
<1>1. CASE TakeTask(w, m)
  BY <1>1 DEF TakeTask
<1>2. CASE LockExpires(m)
  BY <1>2 DEF LockExpires
<1>3. CASE WorkerDies(w)
  BY <1>3 DEF WorkerDies, Resting
<1>4. CASE Complete(w)
  BY <1>4, OneWorkerEach DEF Complete, Resting
<1>5. CASE Reschedule(w)
  BY <1>5, OneWorkerEach DEF Reschedule, Resting
<1> QED BY <1>1, <1>2, <1>3, <1>4, <1>5

-----------------------------------------------------------------------------
(* deliver_email *)

LEMMA DeliverStep ==
  ASSUME IInv, NEW w \in Workers,
         \/ ReadRow(w) \/ SendSucceeds(w) \/ SendFails(w) \/ ReplyLost(w)
         \/ MarkSent(w) \/ MarkFailed(w) \/ KeepPending(w)
  PROVE  IInv'
<1> USE DeliveryAssumption DEF IInv, TypeOK, Held, MailInv, WorkInv, At, Mail, Goto, Statuses
<1>1. CASE ReadRow(w)
  <2> DEFINE m == Mail(w)
             pc == IF row[m].status # "pending" THEN "complete"
                   ELSE IF m \in reachable THEN "send" ELSE "unaddressed"
             n == IF row[m].status = "pending" /\ m \in reachable
                  THEN row[m].attempts + 1 ELSE row[m].attempts
  <2>2. worker' = [worker EXCEPT ![w] = [pc |-> pc, mail |-> m, attempts |-> n]]
    BY <1>1 DEF ReadRow
  <2>3. UNCHANGED <<stage, reachable, row, task, mailed, faults>> /\ worker[w].pc = "read"
    BY <1>1 DEF ReadRow
  <2>4. /\ m \in Mails /\ n \in 0..MaxAttempts
        /\ pc \in {"complete", "send", "unaddressed"}
    OBVIOUS
  <2>5. TypeOK'
    <3> HIDE DEF m, pc, n
    <3> QED BY <2>2, <2>3, <2>4
  <2>6. ASSUME NEW v \in Workers PROVE WorkInv(v)'
    BY <2>2, <2>3, <2>4
  <2>7. Held'
    BY <2>2, <2>3, <2>4
  <2> QED BY <2>3, <2>5, <2>6, <2>7
<1>2. CASE SendSucceeds(w)
  BY <1>2 DEF SendSucceeds, Accept
<1>3. CASE SendFails(w)
  BY <1>3 DEF SendFails, Failed
<1>4. CASE ReplyLost(w)
  BY <1>4 DEF ReplyLost, Accept, Failed
<1>5. CASE MarkSent(w)
  BY <1>5, OneWorkerEach DEF MarkSent, Settle
<1>6. CASE MarkFailed(w)
  BY <1>6, OneWorkerEach DEF MarkFailed, Settle
<1>7. CASE KeepPending(w)
  BY <1>7, OneWorkerEach DEF KeepPending
<1> QED BY <1>1, <1>2, <1>3, <1>4, <1>5, <1>6, <1>7

-----------------------------------------------------------------------------
LEMMA NextStep == ASSUME IInv, [Next]_vars PROVE IInv'
<1>1. CASE UNCHANGED vars
  BY <1>1 DEF vars, IInv, TypeOK, Held, MailInv, WorkInv, At, Mail
<1>2. ASSUME NEW w \in Workers, WorkerDies(w) \/ Complete(w) \/ Reschedule(w) PROVE IInv'
  BY <1>2, DeliveryAssumption, QueueStep
<1>3. ASSUME NEW m \in Mails, LockExpires(m) PROVE IInv'
  <2>1. task[m].lock \in Workers
    BY <1>3 DEF LockExpires, IInv, TypeOK
  <2> QED BY <1>3, <2>1, QueueStep
<1> QED BY <1>1, <1>2, <1>3, RequestStep, QueueStep, DeliverStep DEF Next, Deliver

LEMMA Inductive == Spec => []IInv
BY InitInv, NextStep, PTL DEF Spec

(* Rows, tasks and workers keep their types; above all the attempts of a   *)
(* row and of a task stay within MAX_ATTEMPTS, which nothing in the code   *)
(* compares on saving.                                                     *)
THEOREM TypeInvariant == Spec => []TypeOK
<1>1. IInv => TypeOK
  BY DEF IInv
<1> QED BY <1>1, Inductive, PTL

(* deliver_email gives a row up no later than the queue gives up its task, *)
(* for any MAX_ATTEMPTS that both read: a pending row never has its last   *)
(* task dropped.                                                           *)
THEOREM NoneForgotten == Spec => []PendingIsQueued
<1>1. IInv => PendingIsQueued
  BY DEF IInv, TypeOK, MailInv, PendingIsQueued
<1> QED BY <1>1, Inductive, PTL

(* "Sent" is written after the server took the mail, "failed" after the    *)
(* attempts or the address were gone, by whichever worker.                 *)
THEOREM OutcomeIsTrue == Spec => []StatusTellsOutcome
<1>1. IInv => StatusTellsOutcome
  BY DEF IInv, MailInv, StatusTellsOutcome
<1> QED BY <1>1, Inductive, PTL

(* A row that is sent or failed is never written again: deliver_email asks *)
(* for a pending row, and the lock keeps a second worker away until then.  *)
THEOREM SettledStays == Spec => SettledForGood
<1> DEFINE Stays == \A m \in Mails : row[m].status \in {"sent", "failed"} => row'[m] = row[m]
<1>1. IInv /\ [Next]_vars => [Stays]_vars
  <2> SUFFICES ASSUME IInv, Next, NEW m \in Mails, row[m].status \in {"sent", "failed"}
               PROVE  row'[m] = row[m]
    BY DEF vars
  <2> USE DEF IInv, TypeOK, MailInv, WorkInv, At, Mail
  <2>1. ASSUME NEW i \in Mails, RecordEmail(i) PROVE row'[m] = row[m]
    BY <2>1 DEF RecordEmail
  <2>2. ASSUME NEW w \in Workers, MarkSent(w) \/ MarkFailed(w) \/ KeepPending(w)
        PROVE  row'[m] = row[m]
    BY <2>2 DEF MarkSent, MarkFailed, KeepPending, Settle
  <2>3. CASE UNCHANGED row
    BY <2>3
  <2> QED BY <2>1, <2>2, <2>3
          DEF Next, Request, Deliver, RecordInApp, SkipEmail, QueueEmail, RequestDies, LoseAddress,
              LockExpires, TakeTask, ReadRow, SendSucceeds, SendFails, Complete, Reschedule,
              ReplyLost, WorkerDies
<1> QED BY <1>1, Inductive, PTL DEF Spec, SettledForGood

-----------------------------------------------------------------------------
(* Copies of a mail *)

(* The first copy of a mail is free as long as its row is pending and no   *)
(* worker is about to say that it went out; every other cost a fault.      *)
Unpaid(m) == row[m].status = "sent" \/ \E w \in Workers : At(w, "sent") /\ Mail(w) = m

CopyInv(m) == mailed[m] <= faults \/ (Unpaid(m) /\ mailed[m] <= 1 + faults)

LEMMA CopyStep ==
  ASSUME IInv, \A m \in Mails : CopyInv(m), [Next]_vars, NEW m \in Mails
  PROVE  CopyInv(m)'
<1>0. mailed[m] \in Nat /\ faults \in Nat
  BY DEF IInv, TypeOK
<1>1. ASSUME mailed'[m] = mailed[m], faults' = faults, Unpaid(m) => Unpaid(m)'
      PROVE  CopyInv(m)'
  BY <1>0, <1>1 DEF CopyInv
<1>2. ASSUME mailed'[m] = mailed[m], faults' = faults + 1 PROVE CopyInv(m)'
  BY <1>0, <1>2 DEF CopyInv
<1> USE DEF IInv, TypeOK, Unpaid, At, Mail
<1>3. ASSUME NEW i \in Mails, \/ Request(i) \/ RequestDies(i) \/ LoseAddress(i) \/ LockExpires(i)
      PROVE  CopyInv(m)'
  <2>1. UNCHANGED <<mailed, worker, faults>>
    BY <1>3 DEF Request, RecordInApp, RecordEmail, SkipEmail, QueueEmail, RequestDies,
                LoseAddress, LockExpires
  <2>2. row[m].status = "sent" => row'[m].status = "sent"
    BY <1>3 DEF Request, RecordInApp, RecordEmail, SkipEmail, QueueEmail, RequestDies,
                LoseAddress, LockExpires, MailInv
  <2> QED BY <1>1, <2>1, <2>2
<1>4. ASSUME NEW w \in Workers, WorkerDies(w) PROVE CopyInv(m)'
  BY <1>2, <1>4 DEF WorkerDies
<1>5. ASSUME NEW w \in Workers, SendSucceeds(w) PROVE CopyInv(m)'
  <2>1. CASE m = Mail(w)
    <3>1. ~Unpaid(m)
      BY <1>5, <2>1, OneWorkerEach DEF SendSucceeds, WorkInv
    <3>2. Unpaid(m)' /\ mailed'[m] = mailed[m] + 1 /\ faults' = faults
      BY <1>5, <2>1 DEF SendSucceeds, Accept, Goto
    <3> QED BY <1>0, <3>1, <3>2 DEF CopyInv
  <2>2. CASE m # Mail(w)
    <3>1. mailed'[m] = mailed[m] /\ faults' = faults /\ (Unpaid(m) => Unpaid(m)')
      BY <1>5, <2>2 DEF SendSucceeds, Accept, Goto
    <3> QED BY <1>1, <3>1
  <2> QED BY <2>1, <2>2
<1>6. ASSUME NEW w \in Workers, ReplyLost(w) PROVE CopyInv(m)'
  <2>1. faults' = faults + 1 /\ (mailed'[m] = mailed[m] \/ mailed'[m] = mailed[m] + 1)
    BY <1>6 DEF ReplyLost, Accept
  <2>2. Unpaid(m) => Unpaid(m)'
    BY <1>6 DEF ReplyLost, Failed, Goto
  <2> QED BY <1>0, <2>1, <2>2 DEF CopyInv
<1>7. ASSUME NEW w \in Workers, MarkSent(w) PROVE CopyInv(m)'
  <2>1. UNCHANGED <<mailed, faults>>
    BY <1>7 DEF MarkSent
  <2>2. Unpaid(m) => Unpaid(m)'
    BY <1>7 DEF MarkSent, Settle, Goto
  <2> QED BY <1>1, <2>1, <2>2
<1>8. ASSUME NEW w \in Workers, MarkFailed(w) \/ KeepPending(w) PROVE CopyInv(m)'
  <2>1. UNCHANGED <<mailed, faults>>
    BY <1>8 DEF MarkFailed, KeepPending
  <2>2. row[m].status = "sent" => row'[m].status = "sent"
    BY <1>8 DEF MarkFailed, KeepPending, Settle, WorkInv
  <2>3. Unpaid(m) => Unpaid(m)'
    BY <1>8, <2>2 DEF MarkFailed, KeepPending, Goto
  <2> QED BY <1>1, <2>1, <2>3
<1>9. ASSUME NEW w \in Workers, NEW i \in Mails,
             \/ TakeTask(w, i) \/ ReadRow(w) \/ SendFails(w) \/ Complete(w) \/ Reschedule(w)
      PROVE  CopyInv(m)'
  <2>1. UNCHANGED <<row, mailed, faults>> /\ ~At(w, "sent")
    BY <1>9 DEF TakeTask, ReadRow, SendFails, Complete, Reschedule
  <2>2. \A v \in Workers \ {w} : worker'[v] = worker[v]
    BY <1>9 DEF TakeTask, ReadRow, SendFails, Failed, Goto, Complete, Reschedule
  <2> QED BY <1>1, <2>1, <2>2
<1>10. CASE UNCHANGED vars
  BY <1>1, <1>10 DEF vars
<1> QED BY <1>3, <1>4, <1>5, <1>6, <1>7, <1>8, <1>9, <1>10 DEF Next, Deliver

(* However many workers there are, each copy of a mail beyond the first    *)
(* stands for a worker dead between send and save or for a lost reply:     *)
(* retries by themselves duplicate nothing.                                *)
THEOREM CopiesArePaid == Spec => []DuplicatesNeedFault
<1> DEFINE Inv == \A m \in Mails : CopyInv(m)
<1>1. Init => Inv
  <2> SUFFICES ASSUME Init, NEW m \in Mails PROVE mailed[m] <= faults
    BY DEF CopyInv
  <2> QED BY DEF Init
<1>2. IInv /\ Inv /\ [Next]_vars => Inv'
  BY CopyStep
<1>3. IInv /\ Inv => DuplicatesNeedFault
  <2> SUFFICES ASSUME IInv, NEW m \in Mails, CopyInv(m) PROVE mailed[m] <= 1 + faults
    BY DEF DuplicatesNeedFault
  <2>1. mailed[m] \in Nat /\ faults \in Nat
    BY DEF IInv, TypeOK
  <2> QED BY <2>1 DEF CopyInv
<1> QED BY <1>1, <1>2, <1>3, Inductive, PTL DEF Spec

=============================================================================
