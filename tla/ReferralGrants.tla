--------------------------- MODULE ReferralGrants ---------------------------
(***************************************************************************)
(* What a referral does to the referred group's access row: the rows, and  *)
(* sync_referral_access as a function of one row and of whether the group  *)
(* has a referral, and an open one, on the record.  The tables that every  *)
(* description of the handlers has in common are declared here.            *)
(***************************************************************************)
CONSTANTS Groups,        \* committees and houses
          Ids,           \* primary keys of referrals
          Capabilities,  \* the can_* columns of an access row
          NoReferral,    \* no such row
          NoRow,         \* no such row
          Registered,    \* event types present in the registry
          GrantCaps,     \* capability sets the type or an administrator writes
          AdminRows      \* referral rows an administrator types in

\* WorkflowReferral; the event types on the record's timeline, which is what
\* transition guards read; the alerts the notification service was asked for.
VARIABLES referral, events, alerts

Lifecycle == {"responded", "recalled", "expired"}
Statuses == {"open", "cancelled"} \cup Lifecycle
Kinds == {"created"} \cup Lifecycle

ReferralRow == [to : Groups, status : Statuses]

(* origin is via_referral; raised is the set of capabilities whose         *)
(* referral_raised_* column is set, of which the code has only one.        *)
AccessRow == [caps : SUBSET Capabilities, raised : SUBSET {"edit"},
              origin : {"referral", "organic"}]

ASSUME RowsAssumption ==
  /\ {"view", "edit"} \subseteq Capabilities
  /\ NoReferral \notin ReferralRow
  /\ NoRow \notin AccessRow
  /\ Registered \subseteq Kinds
  /\ GrantCaps \subseteq SUBSET Capabilities
  /\ AdminRows \subseteq ReferralRow

-----------------------------------------------------------------------------
(* sync_referral_access *)

HasReferral(table, g) == \E r \in Ids : table[r] # NoReferral /\ table[r].to = g

HasOpenReferral(table, g) ==
  \E r \in Ids : table[r] # NoReferral /\ table[r].to = g /\ table[r].status = "open"

OrganicRow(caps) == [caps |-> caps, raised |-> {}, origin |-> "organic"]

(* Mutation: the new row also marks view as raised. *)
NewRowMarksView(open) == [caps |-> {"view", "edit"}, raised |-> {"view", "edit"}, origin |-> "referral"]

NewRow(open) == [caps |-> IF open THEN {"view", "edit"} ELSE {"view"},
                 raised |-> IF open THEN {"edit"} ELSE {},
                 origin |-> "referral"]

(* Mutation: raising does not ask whether the group held edit already. *)
RaiseAlways(row) == [row EXCEPT !.caps = @ \cup {"edit"}, !.raised = {"edit"}]

Raise(row) == IF "edit" \in row.caps THEN row
              ELSE [row EXCEPT !.caps = @ \cup {"edit"}, !.raised = {"edit"}]

Lower(row) == IF row.raised = {} THEN row
              ELSE [row EXCEPT !.caps = @ \ {"edit"}, !.raised = {}]

(* Mutation: only edit counts as more than view. *)
GrantsNoEdit(row) == "edit" \notin row.caps

GrantsOnlyView(row) == row.caps \subseteq {"view"}

Aligned(row, open) == IF open THEN Raise(row) ELSE Lower(row)

Synced(row, has, open) ==
  IF row = NoRow
  THEN IF has THEN NewRow(open) ELSE NoRow
  ELSE IF ~has /\ row.origin = "referral" /\ GrantsOnlyView(Aligned(row, open))
       THEN NoRow
       ELSE Aligned(row, open)

(* The event types a save reports, given the row it read before (the       *)
(* creation of a row is reported whatever its status).                     *)
(* Mutation: the previous status is read after the row is written. *)
EventsOfLateRead(previous, row) == IF previous = NoReferral THEN {"created"} ELSE {}

EventsOf(previous, row) == IF previous = NoReferral THEN {"created"}
                           ELSE IF row.status # previous.status THEN {row.status} \cap Lifecycle
                           ELSE {}

=============================================================================
