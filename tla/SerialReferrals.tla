-------------------------- MODULE SerialReferrals --------------------------
(***************************************************************************)
(* ReferralRequests with one process: the statements of each handler, with *)
(* nobody in between, amount to the single step Referrals gives it.        *)
(* `before` is history: the tables as they were when the request under way *)
(* wrote its first row, which is what the abstract record still shows.     *)
(***************************************************************************)
EXTENDS ReferralRequests

OneWorker == \E w \in Workers : Workers = {w}

VARIABLE before

Tables == [referral |-> referral, rows |-> rows, events |-> events, alerts |-> alerts]

(* Some row of the request under way is written and more is to come.       *)
UnderWay == \E w \in Workers :
  req[w].pc \in {"event", "has", "open", "row", "grant", "drop", "alert"}

SerialInit == RequestsInit /\ before = Tables

SerialNext == /\ RequestsNext
              /\ before' = IF UnderWay THEN before ELSE Tables

SerialSpec == SerialInit /\ [][SerialNext]_<<allVars, before>>

-----------------------------------------------------------------------------
Shown == IF UnderWay THEN before ELSE Tables

ShownRow(g) ==
  LET mine == {pk \in DOMAIN Shown.rows : Shown.rows[pk].group = g /\ Shown.rows[pk].row # NoRow}
  IN  IF mine = {} THEN NoRow ELSE Shown.rows[CHOOSE pk \in mine : TRUE].row

Given(row) == IF row = NoRow \/ row.origin = "referral" THEN {} ELSE row.caps \ row.raised

Atomic == INSTANCE Referrals WITH
  referral <- Shown.referral,
  access <- [g \in Groups |-> ShownRow(g)],
  events <- Shown.events,
  alerts <- Shown.alerts,
  allowed <- TRUE,
  conferred <- [g \in Groups |-> Given(ShownRow(g))],
  disturbed <- {},
  ReferralsIn <- {TRUE},
  GrantsDuringReferral <- FALSE

(* Run one at a time, every handler does to the tables what its one-step   *)
(* description says, the alert and both synchronisations included.         *)
ImplementsReferrals == Atomic!Spec

(* Run one at a time, the handlers never leave two live rows of a group,   *)
(* though nothing in the schema forbids a second one.                      *)
OneRowPerGroup == \A p, q \in DOMAIN rows :
  Live(p) /\ Live(q) /\ rows[p].group = rows[q].group => p = q

=============================================================================
