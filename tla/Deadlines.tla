----------------------------- MODULE Deadlines -----------------------------
(***************************************************************************)
(* The deadline job (check_referral_deadlines): it reads the open          *)
(* referrals once, reminds those whose due date is near, expires those     *)
(* whose due date has passed, and does so row by row from the copies it    *)
(* read, while web requests answer, reschedule and delete the same rows.   *)
(*                                                                         *)
(* `clock` counts in units of which the two reminder windows are multiples *)
(* (hours, in the code).  A referral without a due date is one that is due *)
(* beyond the horizon: no window ever holds it.  `gone` are the referrals  *)
(* whose record was deleted, `audience` those somebody would hear of.      *)
(***************************************************************************)
EXTENDS Naturals

CONSTANTS Ids,            \* primary keys of referrals
          NoReferral,     \* no such row
          Dates,          \* due dates that are typed in
          Horizon,        \* bound on the clock
          FirstReminder,  \* how long before the due date each reminder goes out
          FinalReminder,
          MaxEdits,       \* bound on the changes made by people
          MaxFaults       \* bound on the times the job is killed

ASSUME DeadlineAssumption ==
  /\ Dates \subseteq Nat
  /\ {Horizon, FirstReminder, FinalReminder, MaxEdits, MaxFaults} \subseteq Nat
  /\ FinalReminder <= FirstReminder

(* "answered" stands for responded and recalled, which the job cannot tell  *)
(* apart.                                                                  *)
Statuses == {"open", "answered", "expired"}

ReferralRow == [status : Statuses, due : Dates, notified : BOOLEAN]

ASSUME NoRowAssumption == NoReferral \notin ReferralRow

VARIABLES clock, referral, gone, audience,
          web,        \* the request under way: the row it loaded and will save
          job,        \* the memory of the job
          edits,      \* how many changes people have made
          faults,     \* how often the job was killed
          reminded,   \* history: first reminders sent of a referral
          unstamped,  \* history: stamps lost to a killed job or a stale save
          handled     \* history: reminders and expiries of the run under way

people == <<web, edits>>
records == <<gone, audience>>
history == <<reminded, unstamped, handled>>
vars == <<clock, referral, records, people, job, faults, history>>

NoWork == [r \in Ids |-> NoReferral]

NoRequest == [id |-> NoReferral, row |-> NoReferral]

Resting == [pc |-> "idle", first |-> {}, final |-> {}, expired |-> {},
            copy |-> NoWork, at |-> NoReferral]

IsOpen(row) == row # NoReferral /\ row.status = "open"

-----------------------------------------------------------------------------
(* The people: web requests and the admin *)

Busy == web.id # NoReferral

(* Mutation: what is typed in is taken as a time from now.                 *)
ReferFromNow(r, due) == /\ edits < MaxEdits
                        /\ referral[r] = NoReferral
                        /\ referral' = [referral EXCEPT ![r] =
                             [status |-> "open", due |-> clock + due, notified |-> FALSE]]
                        /\ edits' = edits + 1
                        /\ UNCHANGED <<clock, records, web, job, faults, history>>

Refer(r, due) == /\ edits < MaxEdits
                 /\ referral[r] = NoReferral
                 /\ referral' = [referral EXCEPT ![r] =
                      [status |-> "open", due |-> due, notified |-> FALSE]]
                 /\ edits' = edits + 1
                 /\ UNCHANGED <<clock, records, web, job, faults, history>>

(* A request that found the referral has the whole row in memory.          *)
Load(r, row) == /\ edits < MaxEdits
                /\ ~Busy
                /\ web' = [id |-> r, row |-> row]
                /\ edits' = edits + 1
                /\ UNCHANGED <<clock, referral, records, job, faults, history>>

LoadAnswer(r) == /\ IsOpen(referral[r])
                 /\ r \notin gone
                 /\ Load(r, [referral[r] EXCEPT !.status = "answered"])

(* The admin's form, where deadline_notified_at is read-only: an open      *)
(* referral with another due date, or one that is reopened.                *)
LoadReschedule(r, due) == /\ referral[r] # NoReferral
                          /\ Load(r, [referral[r] EXCEPT !.status = "open", !.due = due])

(* Every column is written back, the stamp as it was loaded; a row that    *)
(* was deleted is inserted again.                                          *)
Commit == LET r == web.id IN
  /\ Busy
  /\ referral' = [referral EXCEPT ![r] = web.row]
  /\ unstamped' = [unstamped EXCEPT ![r] =
       @ + (IF referral[r] # NoReferral /\ referral[r].notified /\ ~web.row.notified THEN 1 ELSE 0)]
  /\ web' = NoRequest
  /\ UNCHANGED <<clock, records, edits, job, faults, reminded, handled>>

Delete(r) == /\ edits < MaxEdits
             /\ referral[r] # NoReferral
             /\ referral' = [referral EXCEPT ![r] = NoReferral]
             /\ edits' = edits + 1
             /\ unstamped' = [unstamped EXCEPT ![r] = @ + (IF referral[r].notified THEN 1 ELSE 0)]
             /\ UNCHANGED <<clock, records, web, job, faults, reminded, handled>>

(* Its record is deleted; referrals have no cascade from it.               *)
DeleteRecord(r) == /\ edits < MaxEdits
                   /\ r \notin gone
                   /\ gone' = gone \cup {r}
                   /\ edits' = edits + 1
                   /\ UNCHANGED <<clock, referral, audience, web, job, faults, history>>

Tick == /\ clock < Horizon
        /\ clock' = clock + 1
        /\ UNCHANGED <<referral, records, people, job, faults, history>>

-----------------------------------------------------------------------------
(* The job's batch *)

Within(row, window) == clock < row.due /\ row.due <= clock + window

DueFirst(row) == IsOpen(row) /\ Within(row, FirstReminder) /\ ~row.notified

(* Mutation: the second tier does not ask whether the first has warned.    *)
DueFinalAny(row) == IsOpen(row) /\ Within(row, FinalReminder)

DueFinal(row) == IsOpen(row) /\ Within(row, FinalReminder) /\ row.notified

(* Mutation: only a referral that was warned of can expire.                *)
DueExpiredWarned(row) == IsOpen(row) /\ row.due <= clock /\ row.notified

DueExpired(row) == IsOpen(row) /\ row.due <= clock

(* One query; the three lists are made from it before anything is done.    *)
StartJob ==
  LET first == {r \in Ids : DueFirst(referral[r])}
      final == {r \in Ids : DueFinal(referral[r])}
      expired == {r \in Ids : DueExpired(referral[r])}
  IN
  /\ job.pc = "idle"
  /\ first \cup final \cup expired # {}
  /\ job' = [pc |-> "work", first |-> first, final |-> final, expired |-> expired,
             copy |-> [r \in Ids |-> IF r \in first \cup final \cup expired
                                     THEN referral[r] ELSE NoReferral],
             at |-> NoReferral]
  /\ UNCHANGED <<clock, referral, records, people, faults, history>>

(* send_deadline_warning says nothing of a record that is gone, or when    *)
(* nobody would hear it.                                                   *)
Warns(r) == r \notin gone /\ r \in audience

Remind(r, count) == handled' = [handled EXCEPT ![r] = @ + count]

WarnFirst(r) ==
  /\ job.pc = "work"
  /\ r \in job.first
  /\ job' = [job EXCEPT !.pc = "stamp", !.at = r, !.first = @ \ {r}]
  /\ reminded' = [reminded EXCEPT ![r] = @ + (IF Warns(r) THEN 1 ELSE 0)]
  /\ Remind(r, IF Warns(r) THEN 1 ELSE 0)
  /\ UNCHANGED <<clock, referral, records, people, faults, unstamped>>

Rest == job' = Resting /\ handled' = [r \in Ids |-> 0]

(* Mutation: the stamp is left to the second reminder.                     *)
StampLater ==
  /\ job.pc = "stamp"
  /\ job' = [job EXCEPT !.pc = "work", !.at = NoReferral]
  /\ UNCHANGED <<clock, referral, records, people, faults, history>>

(* save(update_fields=["deadline_notified_at"]), which raises on a row     *)
(* that was deleted: nothing catches it and the job ends there.            *)
Stamp ==
  LET r == job.at IN
  /\ job.pc = "stamp"
  /\ IF referral[r] = NoReferral
     THEN /\ Rest
          /\ unstamped' = [unstamped EXCEPT ![r] = @ + 1]
          /\ UNCHANGED referral
     ELSE /\ job' = [job EXCEPT !.pc = "work", !.at = NoReferral]
          /\ referral' = [referral EXCEPT ![r].notified = TRUE]
          /\ UNCHANGED <<unstamped, handled>>
  /\ UNCHANGED <<clock, records, people, faults, reminded>>

WarnFinal(r) ==
  /\ job.pc = "work"
  /\ job.first = {}
  /\ r \in job.final
  /\ job' = [job EXCEPT !.final = @ \ {r}]
  /\ Remind(r, IF Warns(r) THEN 1 ELSE 0)
  /\ UNCHANGED <<clock, referral, records, people, faults, reminded, unstamped>>

(* Mutation: only the status column is written.                            *)
ExpireStatus(r) ==
  /\ job.pc = "work"
  /\ job.first = {} /\ job.final = {}
  /\ r \in job.expired
  /\ job' = [job EXCEPT !.expired = @ \ {r}]
  /\ referral' = IF r \in gone \/ referral[r] = NoReferral THEN referral
                 ELSE [referral EXCEPT ![r].status = "expired"]
  /\ Remind(r, IF r \in gone THEN 0 ELSE 1)
  /\ UNCHANGED <<clock, records, people, faults, reminded, unstamped>>

(* mark_expired asks the copy, which is open, and saves all of it.         *)
Expire(r) ==
  /\ job.pc = "work"
  /\ job.first = {} /\ job.final = {}
  /\ r \in job.expired
  /\ job' = [job EXCEPT !.expired = @ \ {r}]
  /\ referral' = IF r \in gone THEN referral
                 ELSE [referral EXCEPT ![r] = [job.copy[r] EXCEPT !.status = "expired"]]
  /\ Remind(r, IF r \in gone THEN 0 ELSE 1)
  /\ UNCHANGED <<clock, records, people, faults, reminded, unstamped>>

EndJob == /\ job.pc = "work"
          /\ job.first \cup job.final \cup job.expired = {}
          /\ Rest
          /\ UNCHANGED <<clock, referral, records, people, faults, reminded, unstamped>>

JobDies == /\ job.pc # "idle"
           /\ faults < MaxFaults
           /\ faults' = faults + 1
           /\ Rest
           /\ unstamped' = IF job.pc = "stamp" THEN [unstamped EXCEPT ![job.at] = @ + 1]
                           ELSE unstamped
           /\ UNCHANGED <<clock, referral, records, people, reminded>>

-----------------------------------------------------------------------------
Init == /\ clock = 0
        /\ referral \in [Ids -> {NoReferral} \cup {row \in ReferralRow : IsOpen(row) /\ ~row.notified}]
        /\ gone = {}
        /\ audience \in {{}, Ids}
        /\ web = NoRequest
        /\ job = Resting
        /\ edits = 0
        /\ faults = 0
        /\ reminded = [r \in Ids |-> 0]
        /\ unstamped = [r \in Ids |-> 0]
        /\ handled = [r \in Ids |-> 0]

People == \/ \E r \in Ids :
               \/ \E due \in Dates : Refer(r, due) \/ LoadReschedule(r, due)
               \/ LoadAnswer(r) \/ Delete(r) \/ DeleteRecord(r)
          \/ Commit

JobStep == \/ StartJob \/ Stamp \/ EndJob
           \/ \E r \in Ids : WarnFirst(r) \/ WarnFinal(r) \/ Expire(r)

Next == People \/ JobStep \/ JobDies \/ Tick

Spec == Init /\ [][Next]_vars

(* Cron runs the job again and again, and a run that is not killed goes on *)
(* to its end.  Nothing is assumed of the people or of the clock.          *)
FairSpec == Spec /\ WF_vars(JobStep)

-----------------------------------------------------------------------------
Work == [pc : {"idle", "work", "stamp"}, first : SUBSET Ids, final : SUBSET Ids,
         expired : SUBSET Ids, copy : [Ids -> ReferralRow \cup {NoReferral}],
         at : Ids \cup {NoReferral}]

TypeOK == /\ clock \in 0..Horizon
          /\ referral \in [Ids -> ReferralRow \cup {NoReferral}]
          /\ gone \subseteq Ids /\ audience \subseteq Ids
          /\ web \in [id : Ids \cup {NoReferral}, row : ReferralRow \cup {NoReferral}]
          /\ Busy => web.row # NoReferral /\ web.row.status # "expired"
          /\ job \in Work
          /\ job.pc = "stamp" => job.at \in Ids
          /\ edits \in 0..MaxEdits /\ faults \in 0..MaxFaults
          /\ {reminded, unstamped, handled} \subseteq [Ids -> Nat]

(* A referral that stands as expired has its due date behind it, though    *)
(* deadlines are moved, referrals reopened and deleted while the batch     *)
(* they are in is being worked off: whoever writes, writes a whole row.    *)
ExpiredWasDue ==
  \A r \in Ids : referral[r] # NoReferral /\ referral[r].status = "expired"
                   => referral[r].due <= clock

(* A run reminds of a referral or expires it, and never does two of the    *)
(* three: the stamp of the first reminder does not make the same run send  *)
(* the final one.                                                          *)
HandledOncePerRun == \A r \in Ids : handled[r] <= 1

(* "Reminder is not repeated" (tests.py, test_reminder_is_not_repeated):   *)
(* a referral gets its first reminder a second time only for a stamp that  *)
(* was lost, to a job killed before it, to a save of a row loaded before   *)
(* it, or with the row itself.                                             *)
FirstReminderOnce == \A r \in Ids : reminded[r] <= 1 + unstamped[r]

Overdue(r) == IsOpen(referral[r]) /\ referral[r].due <= clock /\ r \notin gone

(* An open referral whose due date has passed does not stay open: it is    *)
(* expired, answered, moved or deleted, whatever other referrals do to the *)
(* runs it is in.                                                          *)
OverdueSettles == \A r \in Ids : Overdue(r) ~> ~Overdue(r)

(* "An answered or recalled one is left alone" (docs/Management            *)
(* Commands.md, on the deadline job).                                      *)
AnsweredLeftAlone ==
  [][\A r \in Ids : referral[r] # NoReferral /\ referral[r].status = "answered"
        => referral'[r] = NoReferral \/ referral'[r].status # "expired"]_vars

(* A deleted referral comes back only as somebody refers anew.             *)
DeletedStaysDeleted ==
  [][\A r \in Ids : referral[r] = NoReferral /\ referral'[r] # NoReferral
        => referral'[r].status = "open" /\ ~referral'[r].notified]_vars

=============================================================================
