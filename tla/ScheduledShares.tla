-------------------------- MODULE ScheduledShares --------------------------
(***************************************************************************)
(* Report shares that repeat (reporting/sharing.py, models/reports.py):    *)
(* a drain reads the shares that are due, mails each and books its next    *)
(* send, from copies that are as old as the drain.  Drains are started by  *)
(* cron and by a repeating background task and know nothing of each other. *)
(* Beside them shares are revoked, expire, and are deleted in the admin.   *)
(***************************************************************************)
EXTENDS Naturals, FiniteSets

CONSTANTS Shares, NoShare,
          Drains,      \* the cron job, the background task
          Interval,    \* between two sends
          Expiring,    \* shares that expire right after their first repeat
          Never,       \* of a share that does not expire, or is not revoked
          Horizon,     \* bound on the clock
          MaxFaults    \* bound on drains killed

ASSUME ShareAssumption == /\ {Interval, Horizon} \subseteq Nat \ {0}
                          /\ MaxFaults \in Nat
                          /\ Never \notin Nat

Moments == 0..Horizon + Interval

(* A share that does not repeat has no next send and no drain ever sees    *)
(* it.  send_count and last_error, which nothing decides on, are left out. *)
ShareRow == [next : Moments, expires : Moments \cup {Never}, revoked : Moments \cup {Never}]

ASSUME NoShareAssumption == NoShare \notin Shares \cup ShareRow

VARIABLES clock,
          share,     \* the rows
          drain,     \* the memory of each drain
          faults,
          sent,      \* history: when each share was last mailed, by its drain's clock
          tooSoon,   \* history: shares mailed twice within an interval
          crossed    \* history: shares in two drains at once, or in one that died

history == <<sent, tooSoon, crossed>>
vars == <<clock, share, drain, faults, history>>

Resting == [pc |-> "idle", now |-> 0, batch |-> [s \in {} |-> 0], at |-> NoShare]

Here(s) == share[s] # NoShare

Active(row, now) == row.revoked = Never /\ (row.expires = Never \/ row.expires > now)

Due(row, now) == Active(row, now) /\ row.next <= now

InHand(d) == DOMAIN drain[d].batch

-----------------------------------------------------------------------------
(* The people and the clock *)

Revoke(s) == /\ Here(s)
             /\ share[s].revoked = Never
             /\ share' = [share EXCEPT ![s].revoked = clock]
             /\ UNCHANGED <<clock, drain, faults, history>>

Delete(s) == /\ Here(s)
             /\ share' = [share EXCEPT ![s] = NoShare]
             /\ UNCHANGED <<clock, drain, faults, history>>

Tick == /\ clock < Horizon
        /\ clock' = clock + 1
        /\ UNCHANGED <<share, drain, faults, history>>

-----------------------------------------------------------------------------
(* A drain *)

Start(d) ==
  LET due == {s \in Shares : Here(s) /\ Due(share[s], clock)} IN
  /\ drain[d].pc = "idle"
  /\ due # {}
  /\ drain' = [drain EXCEPT ![d] = [pc |-> "send", now |-> clock, at |-> NoShare,
                                     batch |-> [s \in due |-> share[s].next]]]
  /\ crossed' = crossed \cup {s \in due : \E e \in Drains \ {d} : s \in InHand(e)}
  /\ UNCHANGED <<clock, share, faults, sent, tooSoon>>

Mailing(d, s) == [pc |-> "book", now |-> drain[d].now, at |-> s, batch |-> drain[d].batch]

(* Mutation: a failure is not caught and ends the drain.                   *)
SendRaises(d, s, failed) ==
  LET now == drain[d].now IN
  /\ drain[d].pc = "send"
  /\ s \in InHand(d)
  /\ \A t \in InHand(d) : drain[d].batch[s] <= drain[d].batch[t]
  /\ drain' = [drain EXCEPT ![d] = IF failed THEN Resting ELSE Mailing(d, s)]
  /\ IF failed THEN UNCHANGED <<sent, tooSoon>>
     ELSE /\ sent' = [sent EXCEPT ![s] = now]
          /\ tooSoon' = IF sent[s] # Never /\ now < sent[s] + Interval THEN tooSoon \cup {s}
                        ELSE tooSoon
  /\ UNCHANGED <<clock, share, faults, crossed>>

(* Oldest first.  What fails is noted: nobody to write to, a report that   *)
(* cannot be built or a server that refuses.                               *)
Send(d, s, failed) ==
  LET now == drain[d].now IN
  /\ drain[d].pc = "send"
  /\ s \in InHand(d)
  /\ \A t \in InHand(d) : drain[d].batch[s] <= drain[d].batch[t]
  /\ drain' = [drain EXCEPT ![d] = Mailing(d, s)]
  /\ IF failed THEN UNCHANGED <<sent, tooSoon>>
     ELSE /\ sent' = [sent EXCEPT ![s] = now]
          /\ tooSoon' = IF sent[s] # Never /\ now < sent[s] + Interval THEN tooSoon \cup {s}
                        ELSE tooSoon
  /\ UNCHANGED <<clock, share, faults, crossed>>

Rest(d) == [pc |-> "send", now |-> drain[d].now, at |-> NoShare,
            batch |-> [t \in InHand(d) \ {drain[d].at} |-> drain[d].batch[t]]]

(* Mutation: the drain does not see that it has come to the end.           *)
AdvanceAlways(d) == drain' = [drain EXCEPT ![d] = Rest(d)]

Advance(d) ==
  drain' = [drain EXCEPT ![d] = IF InHand(d) = {drain[d].at} THEN Resting ELSE Rest(d)]

(* Mutation: the next send follows the time that was booked.               *)
BookRegularly(d) ==
  LET s == drain[d].at IN
  /\ drain[d].pc = "book"
  /\ IF Here(s)
     THEN /\ share' = [share EXCEPT ![s].next = drain[d].batch[s] + Interval]
          /\ Advance(d)
     ELSE drain' = [drain EXCEPT ![d] = Resting] /\ UNCHANGED share
  /\ UNCHANGED <<clock, faults, history>>

(* Mutation: every column of the copy is saved, which was not revoked.     *)
BookWholeRow(d) ==
  LET s == drain[d].at IN
  /\ drain[d].pc = "book"
  /\ IF Here(s)
     THEN /\ share' = [share EXCEPT ![s].next = drain[d].now + Interval, ![s].revoked = Never]
          /\ Advance(d)
     ELSE drain' = [drain EXCEPT ![d] = Resting] /\ UNCHANGED share
  /\ UNCHANGED <<clock, faults, history>>

(* One save names the columns of the outcome and the next time, which is   *)
(* an interval after the drain began.  It raises on a share that is gone,  *)
(* and the rest of the batch is left.                                      *)
Book(d) ==
  LET s == drain[d].at IN
  /\ drain[d].pc = "book"
  /\ IF Here(s)
     THEN /\ share' = [share EXCEPT ![s].next = drain[d].now + Interval]
          /\ Advance(d)
     ELSE drain' = [drain EXCEPT ![d] = Resting] /\ UNCHANGED share
  /\ UNCHANGED <<clock, faults, history>>

Die(d) == /\ drain[d].pc # "idle"
          /\ faults < MaxFaults
          /\ faults' = faults + 1
          /\ crossed' = IF drain[d].pc = "book" THEN crossed \cup {drain[d].at} ELSE crossed
          /\ drain' = [drain EXCEPT ![d] = Resting]
          /\ UNCHANGED <<clock, share, sent, tooSoon>>

-----------------------------------------------------------------------------
(* Shares made at the start, one interval before their first repeat.       *)
Init == /\ clock = 0
        /\ share = [s \in Shares |-> [next |-> Interval, revoked |-> Never,
                     expires |-> IF s \in Expiring THEN Interval + 1 ELSE Never]]
        /\ drain = [d \in Drains |-> Resting]
        /\ faults = 0
        /\ sent = [s \in Shares |-> Never]
        /\ tooSoon = {} /\ crossed = {}

Step(d) == Start(d) \/ Book(d) \/ \E s \in Shares, failed \in BOOLEAN : Send(d, s, failed)

Next == \/ \E s \in Shares : Revoke(s) \/ Delete(s)
        \/ \E d \in Drains : Step(d) \/ Die(d)
        \/ Tick

Spec == Init /\ [][Next]_vars

(* The drains are run again and again, and one that is not killed goes on. *)
FairSpec == Spec /\ \A d \in Drains : WF_vars(Step(d))

-----------------------------------------------------------------------------
TypeOK == /\ clock \in 0..Horizon
          /\ share \in [Shares -> ShareRow \cup {NoShare}]
          /\ \A d \in Drains : /\ InHand(d) \subseteq Shares
                               /\ drain[d].pc = "idle" <=> InHand(d) = {}
                               /\ drain[d].pc = "book" <=> drain[d].at \in InHand(d)
          /\ faults \in 0..MaxFaults
          /\ sent \in [Shares -> Moments \cup {Never}]
          /\ tooSoon \subseteq Shares /\ crossed \subseteq Shares

(* A share is mailed once an interval, though drains run whenever they     *)
(* like and late: a second mail within it takes two drains that hold the   *)
(* share at once, or one that died between the mail and its booking.       *)
OncePerInterval == tooSoon \subseteq crossed

(* Only a drain that had begun by then mails a share that was revoked, or  *)
(* that is past its expiry, and what the drain books afterwards from its   *)
(* old copy does not take the revocation back, which would let the next    *)
(* drain mail it ("a revoke or an expiry takes a share out of the queue",  *)
(* due_scheduled_shares).                                                  *)
SentWhileActive ==
  [][/\ \A d \in Drains : drain[d].pc = "send" /\ drain'[d].pc = "book" =>
          LET s == drain'[d].at IN
          Here(s) => /\ share[s].revoked = Never \/ drain[d].now <= share[s].revoked
                     /\ share[s].expires = Never \/ drain[d].now < share[s].expires
     /\ \A s \in Shares : Here(s) /\ Here(s)' /\ share[s].revoked # Never
                            => share'[s].revoked = share[s].revoked]_vars

IsDue(s) == Here(s) /\ Due(share[s], clock)

(* A due share does not stay due: it is mailed or its failure booked, or   *)
(* it is withdrawn, whatever happens to the others of its batches.         *)
DueSettles == \A s \in Shares : IsDue(s) ~> ~IsDue(s)

(* "Revoking or expiring a share takes it out of the queue immediately"    *)
(* (docs/Management Commands.md).                                          *)
RevokedNotSent ==
  [][\A s \in Shares : sent'[s] # sent[s] /\ Here(s) => share[s].revoked = Never]_vars

(* "One undeliverable share must not stall the rest of the batch"          *)
(* (deliver_scheduled_share).                                              *)
BatchGoesOn ==
  [][\A d \in Drains : drain[d].pc = "book" /\ faults' = faults
       => InHand(d) \ {drain[d].at} \subseteq DOMAIN drain'[d].batch]_vars

=============================================================================
