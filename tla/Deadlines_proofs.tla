-------------------------- MODULE Deadlines_proofs --------------------------
(***************************************************************************)
(* Proofs about Deadlines, for any number of referrals, any due dates and  *)
(* windows, and any bounds.                                                *)
(***************************************************************************)
EXTENDS Deadlines, TLAPS

USE DEF Statuses

-----------------------------------------------------------------------------
(* The job's memory.  Only the start of a run fills it, with copies of     *)
(* rows that were there; from then on the three lists only shrink.         *)

Batch == job.first \cup job.final \cup job.expired

Copied == \A r \in Batch : job.copy[r] # NoReferral

Shrinks == /\ job'.first \subseteq job.first
           /\ job'.final \subseteq job.final
           /\ job'.expired \subseteq job.expired
           /\ \A r \in Batch' : job'.copy[r] = job.copy[r]

LEMMA RestShrinks == ASSUME Rest PROVE Shrinks
BY DEF Rest, Resting, Shrinks, Batch

LEMMA StepsShrink == ASSUME TypeOK, [Next]_vars, ~StartJob PROVE Shrinks
<1> USE DEF TypeOK, Shrinks, Batch, Work, records, people, history
<1>1. CASE People
  BY <1>1 DEF People, Refer, LoadReschedule, LoadAnswer, Load, Delete, DeleteRecord, Commit
<1>2. CASE Stamp
  BY <1>2, RestShrinks DEF Stamp
<1>3. CASE EndJob
  BY <1>3, RestShrinks DEF EndJob
<1>4. ASSUME NEW r \in Ids, WarnFirst(r) PROVE Shrinks
  BY <1>4 DEF WarnFirst
<1>5. ASSUME NEW r \in Ids, WarnFinal(r) PROVE Shrinks
  BY <1>5 DEF WarnFinal
<1>6. ASSUME NEW r \in Ids, Expire(r) PROVE Shrinks
  BY <1>6 DEF Expire
<1>7. CASE JobDies
  BY <1>7, RestShrinks DEF JobDies
<1>8. CASE Tick \/ UNCHANGED vars
  BY <1>8 DEF Tick, vars
<1> QED BY <1>1, <1>2, <1>3, <1>4, <1>5, <1>6, <1>7, <1>8 DEF Next, JobStep

LEMMA CopiedStep == ASSUME TypeOK, Copied, [Next]_vars PROVE Copied'
<1>1. CASE StartJob
  BY <1>1 DEF StartJob, Copied, Batch, DueFirst, DueFinal, DueExpired, IsOpen
<1>2. CASE ~StartJob
  BY <1>2, StepsShrink DEF Copied, Shrinks, Batch
<1> QED BY <1>1, <1>2

-----------------------------------------------------------------------------
(* Types *)

LEMMA InitTyped == Init => TypeOK
BY DeadlineAssumption, NoRowAssumption
DEF Init, TypeOK, NoRequest, Resting, NoWork, Work, ReferralRow, IsOpen, Busy

LEMMA LoadTyped ==
  ASSUME TypeOK, NEW r \in Ids, NEW row \in ReferralRow, row.status # "expired", Load(r, row)
  PROVE  TypeOK'
<1> USE DEF TypeOK, Load, records, history
<1>1. row # NoReferral
  BY NoRowAssumption
<1>2. web' \in [id : Ids \cup {NoReferral}, row : ReferralRow \cup {NoReferral}] /\ web'.row = row
  OBVIOUS
<1>3. edits' \in 0..MaxEdits
  BY DeadlineAssumption
<1> QED BY <1>1, <1>2, <1>3 DEF Busy

LEMMA PeopleTyped == ASSUME TypeOK, People PROVE TypeOK'
<1> USE DEF TypeOK, records, people, history
<1>1. ASSUME NEW r \in Ids, NEW due \in Dates, Refer(r, due) PROVE TypeOK'
  BY <1>1, DeadlineAssumption, NoRowAssumption DEF Refer, ReferralRow, Busy
<1>2. ASSUME NEW r \in Ids, NEW due \in Dates, LoadReschedule(r, due) PROVE TypeOK'
  <2>1. /\ [referral[r] EXCEPT !.status = "open", !.due = due] \in ReferralRow
        /\ [referral[r] EXCEPT !.status = "open", !.due = due].status = "open"
    BY <1>2 DEF LoadReschedule, ReferralRow
  <2> QED BY <1>2, <2>1, LoadTyped DEF LoadReschedule
<1>3. ASSUME NEW r \in Ids, LoadAnswer(r) PROVE TypeOK'
  <2>1. /\ [referral[r] EXCEPT !.status = "answered"] \in ReferralRow
        /\ [referral[r] EXCEPT !.status = "answered"].status = "answered"
    BY <1>3 DEF LoadAnswer, IsOpen, ReferralRow
  <2> QED BY <1>3, <2>1, LoadTyped DEF LoadAnswer
<1>4. ASSUME NEW r \in Ids, Delete(r) PROVE TypeOK'
  BY <1>4, DeadlineAssumption DEF Delete, Busy
<1>5. ASSUME NEW r \in Ids, DeleteRecord(r) PROVE TypeOK'
  BY <1>5, DeadlineAssumption DEF DeleteRecord, Busy
<1>6. CASE Commit
  BY <1>6, DeadlineAssumption DEF Commit, Busy, NoRequest
<1> QED BY <1>1, <1>2, <1>3, <1>4, <1>5, <1>6 DEF People

LEMMA JobTyped == ASSUME TypeOK, Copied, JobStep PROVE TypeOK'
<1> USE DEF TypeOK, records, people, history, Busy
<1>1. CASE StartJob
  <2>1. job' \in Work
    BY <1>1 DEF StartJob, Work
  <2> QED BY <1>1, <2>1 DEF StartJob
<1>2. CASE Stamp
  <2>1. CASE referral[job.at] = NoReferral
    BY <1>2, <2>1 DEF Stamp, Rest, Resting, NoWork, Work
  <2>2. CASE referral[job.at] # NoReferral
    <3>0. /\ job.at \in Ids
          /\ [referral[job.at] EXCEPT !.notified = TRUE] \in ReferralRow
      BY <1>2, <2>2 DEF Stamp, ReferralRow
    <3>1. referral' \in [Ids -> ReferralRow \cup {NoReferral}]
      BY <1>2, <2>2, <3>0 DEF Stamp
    <3>2. job' \in Work /\ job'.pc = "work"
      BY <1>2, <2>2 DEF Stamp, Work
    <3> QED BY <1>2, <2>2, <3>1, <3>2 DEF Stamp
  <2> QED BY <2>1, <2>2
<1>3. CASE EndJob
  BY <1>3 DEF EndJob, Rest, Resting, NoWork, Work
<1>4. ASSUME NEW r \in Ids, WarnFirst(r) PROVE TypeOK'
  <2>1. job' \in Work /\ job'.at = r
    BY <1>4 DEF WarnFirst, Work
  <2>2. reminded' \in [Ids -> Nat] /\ handled' \in [Ids -> Nat]
    BY <1>4 DEF WarnFirst, Remind
  <2> QED BY <1>4, <2>1, <2>2 DEF WarnFirst
<1>5. ASSUME NEW r \in Ids, WarnFinal(r) PROVE TypeOK'
  <2>1. job' \in Work /\ job'.pc = "work"
    BY <1>5 DEF WarnFinal, Work
  <2>2. handled' \in [Ids -> Nat]
    BY <1>5 DEF WarnFinal, Remind
  <2> QED BY <1>5, <2>1, <2>2 DEF WarnFinal
<1>6. ASSUME NEW r \in Ids, Expire(r) PROVE TypeOK'
  <2>1. job' \in Work /\ job'.pc = "work"
    BY <1>6 DEF Expire, Work
  <2>2. handled' \in [Ids -> Nat]
    BY <1>6 DEF Expire, Remind
  <2>3. referral' \in [Ids -> ReferralRow \cup {NoReferral}]
    <3>1. job.copy[r] \in ReferralRow
      BY <1>6 DEF Expire, Work, Copied, Batch
    <3>2. [job.copy[r] EXCEPT !.status = "expired"] \in ReferralRow
      BY <3>1 DEF ReferralRow
    <3> QED BY <1>6, <3>2 DEF Expire
  <2> QED BY <1>6, <2>1, <2>2, <2>3 DEF Expire
<1> QED BY <1>1, <1>2, <1>3, <1>4, <1>5, <1>6 DEF JobStep

LEMMA TypeStep == ASSUME TypeOK, Copied, [Next]_vars PROVE TypeOK'
<1> USE DEF TypeOK, records, people, history, Busy
<1>1. CASE JobDies
  <2>1. job' \in Work /\ job'.pc = "idle" /\ handled' \in [Ids -> Nat]
    BY <1>1 DEF JobDies, Rest, Resting, NoWork, Work
  <2>2. unstamped' \in [Ids -> Nat]
    BY <1>1 DEF JobDies
  <2> QED BY <1>1, <2>1, <2>2, DeadlineAssumption DEF JobDies
<1>2. CASE Tick
  BY <1>2, DeadlineAssumption DEF Tick
<1>3. CASE UNCHANGED vars
  BY <1>3 DEF vars
<1> QED BY <1>1, <1>2, <1>3, PeopleTyped, JobTyped DEF Next

(* Every variable keeps its type, whatever is killed, deleted or saved     *)
(* while a run goes on; that an expired row is one that was copied is what *)
(* Copied is needed for.                                                   *)
THEOREM TypeInvariant == Spec => [](TypeOK /\ Copied)
<1>1. Init => TypeOK /\ Copied
  BY InitTyped DEF Init, Resting, Copied, Batch
<1>2. TypeOK /\ Copied /\ [Next]_vars => (TypeOK /\ Copied)'
  BY TypeStep, CopiedStep
<1> QED BY <1>1, <1>2, PTL DEF Spec

-----------------------------------------------------------------------------
(* The three lists and what the run under way has done *)

Disjoint == /\ job.first \cap job.final = {}
            /\ job.first \cap job.expired = {}
            /\ job.final \cap job.expired = {}

(* Work still to be done was not done in this run, and a run that is over  *)
(* has handed nothing on to the next one.                                  *)
HandledInv == /\ Disjoint
              /\ job.pc = "idle" => \A r \in Ids : handled[r] = 0
              /\ \A r \in Batch : handled[r] = 0
              /\ HandledOncePerRun

(* The first reminder asks for no stamp and the final one for a stamp; the *)
(* due date of either is ahead, that of an expired one is not.             *)
LEMMA BatchesDisjoint == ASSUME TypeOK, StartJob PROVE Disjoint'
<1>1. \A r \in Ids : referral[r] # NoReferral => referral[r].due \in Nat
  BY DeadlineAssumption DEF TypeOK, ReferralRow
<1>2. clock \in Nat
  BY DeadlineAssumption DEF TypeOK
<1> QED BY <1>1, <1>2 DEF StartJob, Disjoint, DueFirst, DueFinal, DueExpired, Within, IsOpen

LEMMA DisjointStep == ASSUME TypeOK, Disjoint, [Next]_vars PROVE Disjoint'
<1>1. CASE ~StartJob
  BY <1>1, StepsShrink DEF Disjoint, Shrinks
<1> QED BY <1>1, BatchesDisjoint

LEMMA HandledStep == ASSUME TypeOK, HandledInv, [Next]_vars PROVE HandledInv'
<1> USE DEF HandledInv, HandledOncePerRun, TypeOK, Work, records, people, history
<1>0. Disjoint'
  BY DisjointStep
<1>1. CASE People \/ Tick \/ UNCHANGED vars
  <2>1. UNCHANGED <<job, handled>>
    BY <1>1 DEF People, Refer, LoadReschedule, LoadAnswer, Load, Delete, DeleteRecord,
                Commit, Tick, vars
  <2> QED BY <1>0, <2>1 DEF Batch
<1>2. CASE StartJob
  <2>1. job.pc = "idle" /\ handled' = handled /\ job'.pc = "work" /\ Batch' \subseteq Ids
    BY <1>2 DEF StartJob, Batch
  <2> QED BY <1>0, <2>1
<1>3. CASE Rest
  BY <1>0, <1>3 DEF Rest, Resting, Batch
<1>4. CASE Stamp
  <2>1. CASE referral[job.at] # NoReferral
    BY <1>0, <1>4, <2>1 DEF Stamp, Batch
  <2> QED BY <1>3, <1>4, <2>1 DEF Stamp
<1>5. ASSUME NEW r \in Ids, WarnFirst(r) PROVE HandledInv'
  <2>1. /\ job'.pc = "stamp" /\ Batch' \subseteq Batch \ {r} /\ r \in Batch
    BY <1>5 DEF WarnFirst, Batch, Disjoint
  <2>2. \A i \in Ids : handled'[i] \in {0, 1} /\ (i # r => handled'[i] = handled[i])
    BY <1>5, <2>1 DEF WarnFirst, Remind
  <2> QED BY <1>0, <2>1, <2>2 DEF Batch
<1>6. ASSUME NEW r \in Ids, WarnFinal(r) PROVE HandledInv'
  <2>1. /\ job'.pc = "work" /\ Batch' \subseteq Batch \ {r} /\ r \in Batch
    BY <1>6 DEF WarnFinal, Batch, Disjoint
  <2>2. \A i \in Ids : handled'[i] \in {0, 1} /\ (i # r => handled'[i] = handled[i])
    BY <1>6, <2>1 DEF WarnFinal, Remind
  <2> QED BY <1>0, <2>1, <2>2 DEF Batch
<1>7. ASSUME NEW r \in Ids, Expire(r) PROVE HandledInv'
  <2>1. /\ job'.pc = "work" /\ Batch' \subseteq Batch \ {r} /\ r \in Batch
    BY <1>7 DEF Expire, Batch, Disjoint
  <2>2. \A i \in Ids : handled'[i] \in {0, 1} /\ (i # r => handled'[i] = handled[i])
    BY <1>7, <2>1 DEF Expire, Remind
  <2> QED BY <1>0, <2>1, <2>2 DEF Batch
<1>8. CASE EndJob \/ JobDies
  BY <1>3, <1>8 DEF EndJob, JobDies
<1> QED BY <1>1, <1>2, <1>4, <1>5, <1>6, <1>7, <1>8 DEF Next, JobStep

(* One run handles a referral at most once, for any lists of referrals and *)
(* however long it is at work: what is still in its lists is unhandled,    *)
(* and nothing is in two lists.                                            *)
THEOREM OncePerRun == Spec => []HandledOncePerRun
<1>1. Init => HandledInv
  BY DEF Init, Resting, HandledInv, Disjoint, Batch, HandledOncePerRun
<1>2. TypeOK /\ HandledInv /\ [Next]_vars => HandledInv'
  BY HandledStep
<1>3. HandledInv => HandledOncePerRun
  BY DEF HandledInv
<1> QED BY <1>1, <1>2, <1>3, TypeInvariant, PTL DEF Spec

-----------------------------------------------------------------------------
(* Expiry *)

(* The copies the job expires were due when it read them, and the clock    *)
(* does not go back.                                                       *)
DueInv == /\ \A r \in job.expired : job.copy[r].due <= clock
          /\ ExpiredWasDue

LEMMA DueStep == ASSUME TypeOK, Copied, DueInv, [Next]_vars PROVE DueInv'
<1> USE DEF TypeOK, Work, records, people, history
<1>1. /\ clock \in Nat /\ clock' \in Nat /\ clock <= clock'
      /\ job.expired \subseteq Ids
      /\ \A r \in Ids : referral[r] # NoReferral => referral[r].due \in Nat
      /\ \A r \in Ids : job.copy[r] # NoReferral => job.copy[r].due \in Nat
  <2>1. clock' = clock \/ clock' = clock + 1
    BY DEF Next, People, Refer, LoadReschedule, LoadAnswer, Load, Delete, DeleteRecord, Commit,
           JobStep, StartJob, Stamp, EndJob, WarnFirst, WarnFinal, Expire, JobDies, Tick, vars
  <2>2. clock \in Nat
    BY DeadlineAssumption
  <2>3. \A row \in ReferralRow : row.due \in Nat
    BY DeadlineAssumption DEF ReferralRow
  <2>4. /\ \A r \in Ids : referral[r] # NoReferral => referral[r] \in ReferralRow
        /\ \A r \in Ids : job.copy[r] # NoReferral => job.copy[r] \in ReferralRow
        /\ job.expired \subseteq Ids
    OBVIOUS
  <2> QED BY <2>1, <2>2, <2>3, <2>4
<1>2. \A r \in job'.expired : job'.copy[r].due <= clock'
  <2>1. CASE StartJob
    BY <1>1, <2>1 DEF StartJob, DueExpired
  <2>2. CASE ~StartJob
    BY <1>1, <2>2, StepsShrink DEF Shrinks, DueInv, Batch, Copied
  <2> QED BY <2>1, <2>2
<1>3. ASSUME NEW r \in Ids, referral'[r] # NoReferral, referral'[r].status = "expired"
      PROVE  referral'[r].due <= clock'
  <2>1. CASE referral'[r] # NoReferral /\ referral[r] # NoReferral
             /\ referral'[r].due = referral[r].due /\ referral'[r].status = referral[r].status
    BY <1>1, <1>3, <2>1 DEF DueInv, ExpiredWasDue
  <2>2. ASSUME NEW i \in Ids, NEW due \in Dates, Refer(i, due)
        PROVE  referral'[r] = referral[r] \/ referral'[r].status = "open"
    BY <2>2 DEF Refer
  <2>3. CASE Commit
    <3>1. referral'[r] = referral[r] \/ referral'[r].status # "expired"
      BY <1>3, <2>3 DEF Commit, Busy
    <3> QED BY <1>3, <2>1, <3>1
  <2>4. ASSUME NEW i \in Ids, Delete(i) PROVE referral'[r] = referral[r]
    BY <1>3, <2>4 DEF Delete
  <2>5. CASE Stamp
    <3>1. CASE referral' # referral /\ r = job.at
      <4>1. /\ referral[r] \in ReferralRow
            /\ referral'[r] = [referral[r] EXCEPT !.notified = TRUE]
        BY <2>5, <3>1 DEF Stamp
      <4>2. referral'[r].due = referral[r].due /\ referral'[r].status = referral[r].status
        BY <4>1 DEF ReferralRow
      <4> QED BY <1>3, <2>1, <4>1, <4>2, NoRowAssumption
    <3>2. CASE ~(referral' # referral /\ r = job.at)
      <4>1. referral'[r] = referral[r]
        BY <2>5, <3>2 DEF Stamp
      <4> QED BY <1>3, <2>1, <4>1
    <3> QED BY <3>1, <3>2
  <2>6. ASSUME NEW i \in Ids, Expire(i) PROVE referral'[r].due <= clock'
    <3>1. CASE referral'[r] = referral[r]
      BY <1>3, <2>1, <3>1
    <3>2. CASE referral'[r] # referral[r]
      <4>1. job.copy[i] \in ReferralRow /\ i \in job.expired
        BY <2>6 DEF Expire, Copied, Batch
      <4>2. r = i /\ referral'[r].due = job.copy[i].due
        BY <2>6, <3>2, <4>1 DEF Expire, ReferralRow
      <4>3. job.copy[i].due <= clock /\ job.copy[i].due \in Nat
        BY <4>1, DeadlineAssumption DEF DueInv, ReferralRow
      <4> QED BY <1>1, <4>2, <4>3
    <3> QED BY <3>1, <3>2
  <2>7. CASE referral'[r] = referral[r]
    BY <1>3, <2>1, <2>7
  <2> QED BY <1>3, <2>1, <2>2, <2>3, <2>4, <2>5, <2>6, <2>7
          DEF Next, People, LoadReschedule, LoadAnswer, Load, DeleteRecord,
              JobStep, StartJob, EndJob, WarnFirst, WarnFinal, JobDies, Tick, vars
<1> QED BY <1>2, <1>3 DEF DueInv, ExpiredWasDue

(* No interleaving of people and job leaves a referral expired whose due   *)
(* date is ahead: a request saves the status with the date it loaded, none *)
(* of them expired, and the job saves the date its copy was due at.        *)
THEOREM ExpiredIsDue == Spec => []ExpiredWasDue
<1>1. Init => DueInv
  BY DEF Init, Resting, DueInv, ExpiredWasDue, IsOpen
<1>2. TypeOK /\ Copied /\ DueInv /\ [Next]_vars => DueInv'
  BY DueStep
<1>3. DueInv => ExpiredWasDue
  BY DEF DueInv
<1> QED BY <1>1, <1>2, <1>3, TypeInvariant, PTL DEF Spec

-----------------------------------------------------------------------------
(* Reminders and stamps *)

Stamped(r) == referral[r] # NoReferral /\ referral[r].notified

Accounted(r) == reminded[r] <= unstamped[r]

(* A reminder for which no stamp was lost is either stamped or about to    *)
(* be; what is to be warned of, or was copied without a stamp, has none.   *)
StampsOf(r) ==
  /\ reminded[r] <= 1 + unstamped[r]
  /\ Accounted(r) \/ Stamped(r) \/ (job.pc = "stamp" /\ job.at = r)
  /\ r \in job.first => Accounted(r)
  /\ r \in job.expired /\ ~job.copy[r].notified => Accounted(r)

StampInv == \A r \in Ids : StampsOf(r)

Counts == \A r \in Ids : reminded[r] \in Nat /\ unstamped[r] \in Nat

LEMMA CountsTyped == TypeOK => Counts
BY DEF TypeOK, Counts

(* A step that counts nothing of a referral, keeps its stamp, does not     *)
(* pass it by and only shortens the lists leaves its account in order.     *)
LEMMA AccountKept ==
  ASSUME Counts, StampInv, Shrinks, NEW r \in Ids,
         reminded'[r] = reminded[r], unstamped'[r] = unstamped[r],
         Stamped(r) => Stamped(r)',
         job.pc = "stamp" /\ job.at = r => (job.pc = "stamp" /\ job.at = r)'
  PROVE  StampsOf(r)'
BY DEF Shrinks, StampInv, StampsOf, Accounted, Batch, Counts

(* When the stamp is lost and counted, the account is in order whatever    *)
(* becomes of the row.                                                     *)
LEMMA AccountPaid ==
  ASSUME Counts, StampInv, NEW r \in Ids,
         reminded'[r] = reminded[r], unstamped'[r] = unstamped[r] + 1
  PROVE  StampsOf(r)'
<1>1. reminded'[r] <= unstamped'[r] /\ reminded'[r] <= 1 + unstamped'[r]
  BY DEF StampInv, StampsOf, Counts
<1> QED BY <1>1 DEF StampsOf, Accounted

LEMMA PeopleAccount == ASSUME TypeOK, StampInv, People PROVE StampInv'
<1> USE DEF records, people, history
<1>0. Counts
  BY CountsTyped
<1>1. job' = job /\ reminded' = reminded
  BY DEF People, Refer, LoadReschedule, LoadAnswer, Load, Delete, DeleteRecord, Commit
<1>2. Shrinks
  BY <1>1 DEF Shrinks, Batch
<1> SUFFICES ASSUME NEW r \in Ids PROVE StampsOf(r)'
  BY DEF StampInv
<1>3. CASE (Stamped(r) => Stamped(r)') /\ unstamped'[r] = unstamped[r]
  BY <1>0, <1>1, <1>2, <1>3, AccountKept
<1>4. ASSUME NEW i \in Ids, NEW due \in Dates, Refer(i, due) PROVE StampsOf(r)'
  <2>1. unstamped' = unstamped
    BY <1>4 DEF Refer
  <2>2. Stamped(r) => Stamped(r)'
    BY <1>4 DEF Refer, Stamped, TypeOK
  <2> QED BY <1>3, <2>1, <2>2
<1>5. CASE Commit
  <2> DEFINE lost == referral[r] # NoReferral /\ referral[r].notified /\ ~web.row.notified
  <2>1. /\ referral'[r] = IF r = web.id THEN web.row ELSE referral[r]
        /\ unstamped'[r] = IF r = web.id /\ lost THEN unstamped[r] + 1 ELSE unstamped[r]
    <3>1. /\ web.id \in Ids /\ referral' = [referral EXCEPT ![web.id] = web.row]
          /\ unstamped' = [unstamped EXCEPT ![web.id] = @ + (IF referral[web.id] # NoReferral
               /\ referral[web.id].notified /\ ~web.row.notified THEN 1 ELSE 0)]
      BY <1>5 DEF Commit, Busy, TypeOK
    <3>2. referral \in [Ids -> ReferralRow \cup {NoReferral}] /\ unstamped \in [Ids -> Nat]
      BY DEF TypeOK
    <3> QED BY <3>1, <3>2
  <2>2. web.row # NoReferral
    BY <1>5 DEF Commit, TypeOK
  <2>3. CASE r = web.id /\ lost
    BY <1>0, <1>1, <2>1, <2>3, AccountPaid
  <2>4. CASE r # web.id
    BY <1>3, <2>1, <2>4 DEF Stamped
  <2>5. CASE r = web.id /\ ~lost
    BY <1>3, <2>1, <2>2, <2>5 DEF Stamped
  <2> QED BY <2>3, <2>4, <2>5
<1>6. ASSUME NEW i \in Ids, Delete(i) PROVE StampsOf(r)'
  <2>1. /\ referral'[r] = IF r = i THEN NoReferral ELSE referral[r]
        /\ unstamped'[r] = IF r = i /\ referral[i].notified
                           THEN unstamped[r] + 1 ELSE unstamped[r]
    BY <1>6 DEF Delete, TypeOK
  <2>2. CASE r = i /\ referral[i].notified
    BY <1>0, <1>1, <2>1, <2>2, AccountPaid
  <2>3. CASE ~(r = i /\ referral[i].notified)
    BY <1>3, <2>1, <2>3 DEF Stamped
  <2> QED BY <2>2, <2>3
<1>7. CASE UNCHANGED <<referral, unstamped>>
  BY <1>3, <1>7 DEF Stamped
<1> QED BY <1>4, <1>5, <1>6, <1>7 DEF People, LoadReschedule, LoadAnswer, Load, DeleteRecord

LEMMA StartAccount == ASSUME TypeOK, StampInv, StartJob PROVE StampInv'
<1>1. /\ UNCHANGED <<referral, reminded, unstamped>>
      /\ job.pc = "idle" /\ job'.first \subseteq Ids /\ job'.expired \subseteq Ids
      /\ \A r \in job'.first : ~referral[r].notified
      /\ \A r \in job'.expired : job'.copy[r] = referral[r]
  BY DEF StartJob, history, DueFirst
<1> QED BY <1>1 DEF StampInv, StampsOf, Accounted, Stamped

(* The job forgets everything: fine, but for the stamp it owes.            *)
LEMMA RestAccount ==
  ASSUME TypeOK, StampInv, Rest, UNCHANGED <<referral, reminded>>,
         unstamped' = IF job.pc = "stamp" THEN [unstamped EXCEPT ![job.at] = @ + 1] ELSE unstamped
  PROVE  StampInv'
<1>1. Counts /\ Shrinks
  BY CountsTyped, RestShrinks
<1> SUFFICES ASSUME NEW r \in Ids PROVE StampsOf(r)'
  BY DEF StampInv
<1>2. CASE job.pc = "stamp" /\ job.at = r
  <2>1. unstamped'[r] = unstamped[r] + 1 /\ reminded'[r] = reminded[r]
    BY <1>2 DEF TypeOK
  <2> QED BY <1>1, <2>1, AccountPaid
<1>3. CASE ~(job.pc = "stamp" /\ job.at = r)
  <2>1. unstamped'[r] = unstamped[r] /\ reminded'[r] = reminded[r]
    BY <1>3 DEF TypeOK
  <2> QED BY <1>1, <1>3, <2>1, AccountKept DEF Stamped
<1> QED BY <1>2, <1>3

LEMMA JobAccount ==
  ASSUME TypeOK, Copied, Disjoint, StampInv, JobStep, ~StartJob, Shrinks
  PROVE  StampInv'
<1> USE DEF records, people, history
<1>0. Counts
  BY CountsTyped
<1>1. CASE Stamp
  <2>1. CASE referral[job.at] = NoReferral
    BY <1>1, <2>1, RestAccount DEF Stamp
  <2>2. CASE referral[job.at] # NoReferral
    <3> SUFFICES ASSUME NEW r \in Ids PROVE StampsOf(r)'
      BY DEF StampInv
    <3>1. job.at \in Ids /\ UNCHANGED <<reminded, unstamped>>
      BY <1>1, <2>2 DEF Stamp, TypeOK
    <3>2. referral'[r] = IF r = job.at THEN [referral[r] EXCEPT !.notified = TRUE]
                         ELSE referral[r]
      BY <1>1, <2>2, <3>1 DEF Stamp, TypeOK
    <3>3. CASE r = job.at
      <4>1. referral[r] \in ReferralRow
        BY <2>2, <3>3 DEF TypeOK
      <4>2. Stamped(r)'
        <5>1. referral'[r] \in ReferralRow /\ referral'[r].notified
          BY <3>2, <3>3, <4>1 DEF ReferralRow
        <5> QED BY <5>1, NoRowAssumption DEF Stamped
      <4> QED BY <3>1, <4>2 DEF StampInv, StampsOf, Accounted, Shrinks, Batch
    <3>4. CASE r # job.at
      BY <1>0, <3>1, <3>2, <3>4, AccountKept DEF Stamped
    <3> QED BY <3>3, <3>4
  <2> QED BY <2>1, <2>2
<1>2. ASSUME NEW i \in Ids, WarnFirst(i) PROVE StampInv'
  <2> SUFFICES ASSUME NEW r \in Ids PROVE StampsOf(r)'
    BY DEF StampInv
  <2>1. /\ UNCHANGED <<referral, unstamped>> /\ job.pc = "work" /\ i \in job.first
        /\ reminded'[r] = reminded[r] \/ (r = i /\ reminded'[r] = reminded[r] + 1)
    BY <1>2, <1>0 DEF WarnFirst, TypeOK, Counts
  <2>2. job'.pc = "stamp" /\ job'.at = i /\ i \notin job'.first
    BY <1>2 DEF WarnFirst, TypeOK, Work
  <2>3. CASE r # i
    BY <1>0, <2>1, <2>3, AccountKept DEF Stamped
  <2>4. CASE r = i
    <3>1. reminded[r] <= unstamped[r] /\ r \notin job'.expired
      BY <2>1, <2>4 DEF StampInv, StampsOf, Accounted, Disjoint, Shrinks
    <3>2. reminded'[r] <= 1 + unstamped'[r]
      BY <1>0, <2>1, <3>1 DEF Counts
    <3> QED BY <2>2, <2>4, <3>1, <3>2 DEF StampsOf
  <2> QED BY <2>3, <2>4
<1>3. ASSUME NEW i \in Ids, Expire(i) PROVE StampInv'
  <2> SUFFICES ASSUME NEW r \in Ids PROVE StampsOf(r)'
    BY DEF StampInv
  <2>1. UNCHANGED <<reminded, unstamped>> /\ job.pc = "work" /\ i \in job.expired
    BY <1>3 DEF Expire
  <2>2. CASE referral'[r] = referral[r]
    BY <1>0, <2>1, <2>2, AccountKept DEF Stamped
  <2>3. CASE referral'[r] # referral[r]
    <3>1. r = i /\ referral'[r] = [job.copy[r] EXCEPT !.status = "expired"]
      BY <1>3, <2>3 DEF Expire, TypeOK
    <3>2. job.copy[r] \in ReferralRow
      BY <2>1, <3>1 DEF TypeOK, Work, Copied, Batch
    <3>3. referral'[r] \in ReferralRow /\ referral'[r].notified = job.copy[r].notified
      BY <3>1, <3>2 DEF ReferralRow
    <3>4. CASE job.copy[r].notified
      <4>1. Stamped(r)'
        BY <3>3, <3>4, NoRowAssumption DEF Stamped
      <4> QED BY <1>0, <2>1, <4>1, AccountKept
    <3>5. CASE ~job.copy[r].notified
      <4>1. Accounted(r)
        BY <2>1, <3>1, <3>5 DEF StampInv, StampsOf
      <4> QED BY <2>1, <4>1 DEF StampInv, StampsOf, Accounted
    <3> QED BY <3>4, <3>5
  <2> QED BY <2>2, <2>3
<1>4. ASSUME NEW i \in Ids, WarnFinal(i) PROVE StampInv'
  <2>1. UNCHANGED <<referral, reminded, unstamped>> /\ job.pc = "work"
    BY <1>4 DEF WarnFinal
  <2> QED BY <1>0, <2>1, AccountKept DEF StampInv, Stamped
<1>5. CASE EndJob
  BY <1>5, RestAccount DEF EndJob
<1> QED BY <1>1, <1>2, <1>3, <1>4, <1>5 DEF JobStep

LEMMA StampStep ==
  ASSUME TypeOK, Copied, Disjoint, StampInv, [Next]_vars PROVE StampInv'
<1>1. CASE JobStep
  BY <1>1, StartAccount, JobAccount, StepsShrink
<1>2. CASE JobDies
  BY <1>2, RestAccount DEF JobDies
<1>3. CASE Tick \/ UNCHANGED vars
  <2>1. UNCHANGED <<referral, job, reminded, unstamped>>
    BY <1>3 DEF Tick, vars, people, records, history
  <2> QED BY <2>1 DEF StampInv, StampsOf, Accounted, Stamped
<1> QED BY <1>1, <1>2, <1>3, PeopleAccount DEF Next

(* A first reminder is repeated only for a stamp that was lost, however    *)
(* often the job runs, is killed and is overtaken: the next run finds the  *)
(* stamp, or the loss of it has been counted.                              *)
THEOREM RemindedOnce == Spec => []FirstReminderOnce
<1>1. Init => Disjoint /\ StampInv
  BY DEF Init, Resting, Disjoint, StampInv, StampsOf, Accounted
<1>2. TypeOK /\ Copied /\ Disjoint /\ StampInv /\ [Next]_vars => (Disjoint /\ StampInv)'
  BY DisjointStep, StampStep
<1>3. StampInv => FirstReminderOnce
  BY DEF StampInv, StampsOf, FirstReminderOnce
<1> QED BY <1>1, <1>2, <1>3, TypeInvariant, PTL DEF Spec

=============================================================================
