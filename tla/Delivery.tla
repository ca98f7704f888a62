------------------------------ MODULE Delivery ------------------------------
(***************************************************************************)
(* Alerts: a request records them and queues their email, and the worker   *)
(* (manage.py process_tasks, several threads) delivers it with retries.    *)
(*                                                                         *)
(* A mail is one recipient of one alert.  `row` is its email Notification  *)
(* and `task` its entry in the queue, both kept in the database; `stage`   *)
(* is how far the request has come with it.  `mailed` counts what the mail *)
(* server accepted.  The queue is django-background-tasks, external to the *)
(* repository: a task is locked by the worker that runs it, deleted when   *)
(* it returns, and offered again when it raises or its lock grows old.     *)
(***************************************************************************)
EXTENDS Naturals

CONSTANTS Mails, Workers, NoWorker, NoTask,
          MaxAttempts,     \* MAX_ATTEMPTS, read by the row and by the queue
          MaxFaults,       \* bound on deaths of workers and lost replies
          RequestsDie      \* whether the requesting process may be killed

ASSUME DeliveryAssumption ==
  /\ Mails # {}
  /\ MaxAttempts \in Nat \ {0}
  /\ MaxFaults \in Nat
  /\ RequestsDie \in BOOLEAN
  /\ NoWorker \notin Workers
  /\ NoTask \notin [attempts : Nat, lock : Workers \cup {NoWorker}]

VARIABLES stage,      \* "none", "in_app", "row", "done", or "cut" short
          reachable,  \* the recipients with an email address
          row, task, mailed, worker, faults

vars == <<stage, reachable, row, task, mailed, worker, faults>>

Statuses == {"absent", "pending", "sent", "failed"}

Resting == [pc |-> "idle", mail |-> CHOOSE m \in Mails : TRUE, attempts |-> 0]

At(w, pc) == worker[w].pc = pc
Mail(w) == worker[w].mail
Goto(w, pc) == worker' = [worker EXCEPT ![w].pc = pc]

-----------------------------------------------------------------------------
(* _record, each write a transaction of its own *)

RecordInApp(m) == /\ stage[m] = "none"
                  /\ stage' = [stage EXCEPT ![m] = "in_app"]
                  /\ UNCHANGED <<reachable, row, task, mailed, worker, faults>>

RecordEmail(m) == /\ stage[m] = "in_app"
                  /\ m \in reachable
                  /\ stage' = [stage EXCEPT ![m] = "row"]
                  /\ row' = [row EXCEPT ![m].status = "pending"]
                  /\ UNCHANGED <<reachable, task, mailed, worker, faults>>

SkipEmail(m) == /\ stage[m] = "in_app"
                /\ m \notin reachable
                /\ stage' = [stage EXCEPT ![m] = "done"]
                /\ UNCHANGED <<reachable, row, task, mailed, worker, faults>>

QueueEmail(m) == /\ stage[m] = "row"
                 /\ stage' = [stage EXCEPT ![m] = "done"]
                 /\ task' = [task EXCEPT ![m] = [attempts |-> 0, lock |-> NoWorker]]
                 /\ UNCHANGED <<reachable, row, mailed, worker, faults>>

RequestDies(m) == /\ RequestsDie
                  /\ stage[m] \in {"in_app", "row"}
                  /\ stage' = [stage EXCEPT ![m] = "cut"]
                  /\ UNCHANGED <<reachable, row, task, mailed, worker, faults>>

(* The recipient's account loses its address.                              *)
LoseAddress(m) == /\ m \in reachable
                  /\ reachable' = reachable \ {m}
                  /\ UNCHANGED <<stage, row, task, mailed, worker, faults>>

-----------------------------------------------------------------------------
(* The queue: external, as the code relies on it *)

TakeTask(w, m) == /\ At(w, "idle")
                  /\ task[m] # NoTask
                  /\ task[m].lock = NoWorker
                  /\ task' = [task EXCEPT ![m].lock = w]
                  /\ worker' = [worker EXCEPT ![w] = [pc |-> "read", mail |-> m, attempts |-> 0]]
                  /\ UNCHANGED <<stage, reachable, row, mailed, faults>>

Complete(w) == /\ At(w, "complete")
               /\ task' = [task EXCEPT ![Mail(w)] = NoTask]
               /\ worker' = [worker EXCEPT ![w] = Resting]
               /\ UNCHANGED <<stage, reachable, row, mailed, faults>>

(* Mutant: the queue counts one attempt more than the row.                 *)
RescheduleOneLess(w) ==
  LET m == Mail(w)
      attempts == task[m].attempts + 1
  IN
  /\ At(w, "raise")
  /\ task' = [task EXCEPT ![m] = IF attempts + 1 >= MaxAttempts THEN NoTask
                                 ELSE [attempts |-> attempts, lock |-> NoWorker]]
  /\ worker' = [worker EXCEPT ![w] = Resting]
  /\ UNCHANGED <<stage, reachable, row, mailed, faults>>

(* The task raised: it is put back, or dropped after MAX_ATTEMPTS.         *)
Reschedule(w) ==
  LET m == Mail(w)
      attempts == task[m].attempts + 1
  IN
  /\ At(w, "raise")
  /\ task' = [task EXCEPT ![m] = IF attempts >= MaxAttempts THEN NoTask
                                 ELSE [attempts |-> attempts, lock |-> NoWorker]]
  /\ worker' = [worker EXCEPT ![w] = Resting]
  /\ UNCHANGED <<stage, reachable, row, mailed, faults>>

(* A task takes far less than MAX_RUN_TIME, so only a dead worker's lock   *)
(* ever grows old.                                                         *)
LockExpires(m) ==
  /\ task[m] # NoTask
  /\ task[m].lock # NoWorker
  /\ At(task[m].lock, "idle") \/ Mail(task[m].lock) # m
  /\ task' = [task EXCEPT ![m].lock = NoWorker]
  /\ UNCHANGED <<stage, reachable, row, mailed, worker, faults>>

WorkerDies(w) == /\ ~At(w, "idle")
                 /\ faults < MaxFaults
                 /\ faults' = faults + 1
                 /\ worker' = [worker EXCEPT ![w] = Resting]
                 /\ UNCHANGED <<stage, reachable, row, task, mailed>>

-----------------------------------------------------------------------------
(* deliver_email *)

(* Mutant: any row is delivered, pending or not.                           *)
ReadAnyRow(w) ==
  /\ At(w, "read")
  /\ worker' = [worker EXCEPT ![w] =
       [pc |-> IF Mail(w) \in reachable THEN "send" ELSE "unaddressed",
        mail |-> Mail(w),
        attempts |-> IF Mail(w) \in reachable /\ row[Mail(w)].attempts < MaxAttempts
                     THEN row[Mail(w)].attempts + 1 ELSE row[Mail(w)].attempts]]
  /\ UNCHANGED <<stage, reachable, row, task, mailed, faults>>

ReadRow(w) ==
  LET m == Mail(w) IN
  /\ At(w, "read")
  /\ worker' = [worker EXCEPT ![w] =
       [pc |-> IF row[m].status # "pending" THEN "complete"
               ELSE IF m \in reachable THEN "send" ELSE "unaddressed",
        mail |-> m,
        attempts |-> IF row[m].status = "pending" /\ m \in reachable
                     THEN row[m].attempts + 1 ELSE row[m].attempts]]
  /\ UNCHANGED <<stage, reachable, row, task, mailed, faults>>

Accept(w) == mailed' = [mailed EXCEPT ![Mail(w)] = @ + 1]

(* Mutant: the handler also catches what fails after the send.             *)
SendUnsaved(w) == /\ At(w, "send")
                  /\ Accept(w)
                  /\ Goto(w, IF worker[w].attempts < MaxAttempts THEN "retry" ELSE "failed")
                  /\ UNCHANGED <<stage, reachable, row, task, faults>>

SendSucceeds(w) == /\ At(w, "send")
                   /\ Accept(w)
                   /\ Goto(w, "sent")
                   /\ UNCHANGED <<stage, reachable, row, task, faults>>

(* Mutants: the attempts are compared one too early, or one too late.      *)
FailedEarly(w) == Goto(w, IF worker[w].attempts + 1 >= MaxAttempts THEN "failed" ELSE "retry")

FailedLate(w) == Goto(w, IF worker[w].attempts > MaxAttempts THEN "failed" ELSE "retry")

(* The exception handler around send_mail.                                 *)
Failed(w) == Goto(w, IF worker[w].attempts >= MaxAttempts THEN "failed" ELSE "retry")

SendFails(w) == /\ At(w, "send")
                /\ Failed(w)
                /\ UNCHANGED <<stage, reachable, row, task, mailed, faults>>

(* The server took the mail and the connection broke before it said so.    *)
ReplyLost(w) == /\ At(w, "send")
                /\ faults < MaxFaults
                /\ faults' = faults + 1
                /\ Accept(w)
                /\ Failed(w)
                /\ UNCHANGED <<stage, reachable, row, task>>

(* The status and attempts columns, from the copy the worker read.         *)
Settle(w, status) ==
  row' = [row EXCEPT ![Mail(w)] = [status |-> status, attempts |-> worker[w].attempts]]

MarkSent(w) == /\ At(w, "sent")
               /\ Settle(w, "sent")
               /\ Goto(w, "complete")
               /\ UNCHANGED <<stage, reachable, task, mailed, faults>>

MarkFailed(w) == /\ worker[w].pc \in {"failed", "unaddressed"}
                 /\ Settle(w, "failed")
                 /\ Goto(w, "complete")
                 /\ UNCHANGED <<stage, reachable, task, mailed, faults>>

(* Mutant: the failure is noted and nothing raised.                        *)
KeepPendingQuietly(w) == /\ At(w, "retry")
                         /\ row' = [row EXCEPT ![Mail(w)].attempts = worker[w].attempts]
                         /\ Goto(w, "complete")
                         /\ UNCHANGED <<stage, reachable, task, mailed, faults>>

(* save(update_fields=["attempts", "error", "updated_at"]), then raise.    *)
KeepPending(w) == /\ At(w, "retry")
                  /\ row' = [row EXCEPT ![Mail(w)].attempts = worker[w].attempts]
                  /\ Goto(w, "raise")
                  /\ UNCHANGED <<stage, reachable, task, mailed, faults>>

-----------------------------------------------------------------------------
Init == /\ stage = [m \in Mails |-> "none"]
        /\ reachable \in SUBSET Mails
        /\ row = [m \in Mails |-> [status |-> "absent", attempts |-> 0]]
        /\ task = [m \in Mails |-> NoTask]
        /\ mailed = [m \in Mails |-> 0]
        /\ worker = [w \in Workers |-> Resting]
        /\ faults = 0

Request(m) == RecordInApp(m) \/ RecordEmail(m) \/ SkipEmail(m) \/ QueueEmail(m)

Deliver(w) == \/ ReadRow(w) \/ SendSucceeds(w) \/ SendFails(w)
              \/ MarkSent(w) \/ MarkFailed(w) \/ KeepPending(w)
              \/ Complete(w) \/ Reschedule(w)

Next == \/ \E m \in Mails : \/ Request(m) \/ RequestDies(m) \/ LoseAddress(m)
                            \/ LockExpires(m)
                            \/ \E w \in Workers : TakeTask(w, m)
        \/ \E w \in Workers : Deliver(w) \/ ReplyLost(w) \/ WorkerDies(w)

(* A request that is not killed runs to its end, a thread that took a task *)
(* goes on with it, the lock of a dead worker grows old, and a task on     *)
(* offer is taken some time: a retry is put back behind the others.        *)
Fairness == /\ \A m \in Mails : /\ WF_vars(Request(m))
                                /\ WF_vars(LockExpires(m))
                                /\ SF_vars(\E w \in Workers : TakeTask(w, m))
            /\ \A w \in Workers : WF_vars(Deliver(w))

Spec == Init /\ [][Next]_vars

FairSpec == Spec /\ Fairness

-----------------------------------------------------------------------------
TypeOK ==
  /\ stage \in [Mails -> {"none", "in_app", "row", "done", "cut"}]
  /\ reachable \subseteq Mails
  /\ row \in [Mails -> [status : Statuses, attempts : 0..MaxAttempts]]
  /\ task \in [Mails -> [attempts : 0..MaxAttempts - 1, lock : Workers \cup {NoWorker}] \cup {NoTask}]
  /\ mailed \in [Mails -> Nat]
  /\ worker \in [Workers -> [pc : {"idle", "read", "send", "sent", "failed", "unaddressed",
                                   "retry", "raise", "complete"},
                             mail : Mails, attempts : 0..MaxAttempts]]
  /\ faults \in 0..MaxFaults

(* A pending row whose request came to its end has a task that will act on *)
(* it: deliver_email gives the row up no later than the queue does.        *)
PendingIsQueued ==
  \A m \in Mails :
    row[m].status = "pending" => stage[m] \in {"row", "cut"} \/ task[m] # NoTask

(* "A crash after COMMIT cannot lose the send" (docs/Functional Design.md, *)
(* section 6): a pending row has a task from the moment it is there for    *)
(* others, or a request that will still queue one.                         *)
SendNeverLost ==
  \A m \in Mails : row[m].status = "pending" => stage[m] = "row" \/ task[m] # NoTask

(* The status of a row tells what became of the mail: sent only after the  *)
(* server took it, failed only with the attempts spent or no address left. *)
StatusTellsOutcome ==
  \A m \in Mails :
    /\ row[m].status = "sent" => mailed[m] > 0
    /\ row[m].status = "failed" => row[m].attempts = MaxAttempts \/ m \notin reachable

(* Beyond the first, each copy of a mail was paid for by a fault: a worker *)
(* dead between the send and the save, or a lost reply.                    *)
DuplicatesNeedFault == \A m \in Mails : mailed[m] <= 1 + faults

(* A row once sent or failed stays so, whatever worker comes late.         *)
SettledForGood ==
  [][\A m \in Mails : row[m].status \in {"sent", "failed"} => row'[m] = row[m]]_vars

(* "Nothing is sent twice" (docs/Management Commands.md, of a worker       *)
(* killed in the middle of a task).                                        *)
SentOnce == \A m \in Mails : mailed[m] <= 1

(* Every email queued is sent or given up on in the end, however often the *)
(* server fails: the row's attempts and the queue's both run out.          *)
EmailSettles ==
  \A m \in Mails : task[m] # NoTask ~> row[m].status \in {"sent", "failed"}

=============================================================================
