----------------------------- MODULE Referrals -----------------------------
(***************************************************************************)
(* The referrals of one legislative record and the access rows they keep   *)
(* in step, with every operation run to its end before the next begins.    *)
(*                                                                         *)
(* `access` is WorkflowGroupAccess, one row per group.  `conferred` and    *)
(* `disturbed` are history: what a group was given by someone other than a *)
(* referral, and the groups whose rows were last written behind the back   *)
(* of the synchronisation.                                                 *)
(***************************************************************************)
EXTENDS ReferralGrants

CONSTANTS ReferralsIn,   \* whether the record's states allow referrals
          GrantsDuringReferral
             \* whether somebody confers "edit" on a row while a referral
             \* is marked as having raised it

ASSUME InputsAssumption ==
  /\ ReferralsIn \subseteq BOOLEAN
  /\ GrantsDuringReferral \in BOOLEAN

VARIABLES access, allowed, conferred, disturbed

vars == <<referral, access, events, alerts, allowed, conferred, disturbed>>

-----------------------------------------------------------------------------
(* WorkflowReferral.save and delete *)

(* The access table once the groups of S have been synchronised against a  *)
(* referral table.                                                         *)
SyncedTable(table, S) ==
  [g \in Groups |-> IF g \in S
                    THEN Synced(access[g], HasReferral(table, g), HasOpenReferral(table, g))
                    ELSE access[g]]

(* _emit_event skips a kind that was removed from the registry.            *)
Emit(kinds) == events' = events \cup (kinds \cap Registered)

Alert(kind) == alerts' = alerts \cup {kind}

(* Mutation: a reassignment forgets the group the referral moved from. *)
SavedGroupsNew(r, row) == {row.to}

(* The groups a save re-derives: the row's own, and the one it moved from. *)
SavedGroups(r, row) == {row.to} \cup (IF referral[r] = NoReferral THEN {} ELSE {referral[r].to})

Synchronise(table, S) == /\ referral' = table
                         /\ access' = SyncedTable(table, S)
                         /\ disturbed' = disturbed \ S

Save(r, row) == /\ Synchronise([referral EXCEPT ![r] = row], SavedGroups(r, row))
                /\ Emit(EventsOf(referral[r], row))

Refer(r, g) == /\ referral[r] = NoReferral
               /\ allowed
               /\ Save(r, [to |-> g, status |-> "open"])
               /\ Alert("created")
               /\ UNCHANGED <<allowed, conferred>>

IsOpen(r) == referral[r] # NoReferral /\ referral[r].status = "open"

Close(r, status) == /\ IsOpen(r)
                    /\ Save(r, [referral[r] EXCEPT !.status = status])
                    /\ Alert(status)
                    /\ UNCHANGED <<allowed, conferred>>

Respond(r) == Close(r, "responded")
Recall(r) == Close(r, "recalled")
MarkExpired(r) == Close(r, "expired")

(* The admin's change form: any status, any group, and no alert.           *)
AdminSave(r, row) == /\ referral[r] # NoReferral
                     /\ row # referral[r]
                     /\ Save(r, row)
                     /\ UNCHANGED <<alerts, allowed, conferred>>

(* The admin's add form creates a row whatever the state says.             *)
AdminCreate(r, row) == /\ referral[r] = NoReferral
                       /\ Save(r, row)
                       /\ UNCHANGED <<alerts, allowed, conferred>>

Delete(r) == /\ referral[r] # NoReferral
             /\ Synchronise([referral EXCEPT ![r] = NoReferral], {referral[r].to})
             /\ UNCHANGED <<events, alerts, allowed, conferred>>

(* queryset.delete(), the admin's "delete selected": no synchronisation.   *)
BulkDelete(R) == /\ \A r \in R : referral[r] # NoReferral
                 /\ R # {}
                 /\ referral' = [r \in Ids |-> IF r \in R THEN NoReferral ELSE referral[r]]
                 /\ disturbed' = disturbed \cup {referral[r].to : r \in R}
                 /\ UNCHANGED <<access, events, alerts, allowed, conferred>>

-----------------------------------------------------------------------------
(* The other writers of access rows *)

(* get_or_create of materialize_group_access, also an administrator's add. *)
Materialise(g, caps) ==
  /\ access[g] = NoRow
  /\ access' = [access EXCEPT ![g] = OrganicRow(caps)]
  /\ conferred' = [conferred EXCEPT ![g] = caps]
  /\ disturbed' = disturbed \cup {g}
  /\ UNCHANGED <<referral, events, alerts, allowed>>

(* View on a row a referral created stays the referral's own.              *)
Owed(g, given) == IF access[g].origin = "referral" THEN given \ {"view"} ELSE given

(* Writes the capabilities of an existing row and leaves its provenance    *)
(* columns alone; `given` is what the writer means the group to hold.      *)
Overwrite(g, caps, given) ==
  /\ access[g] # NoRow
  /\ caps # access[g].caps \/ given # conferred[g]
  /\ ("edit" \in given \ conferred[g] /\ access[g].raised # {}) => GrantsDuringReferral
  /\ access' = [access EXCEPT ![g].caps = caps]
  /\ conferred' = [conferred EXCEPT ![g] = given]
  /\ disturbed' = disturbed \cup {g}
  /\ UNCHANGED <<referral, events, alerts, allowed>>

(* The admin's form: a box newly ticked is given, one unticked withdrawn.  *)
AdminEditRow(g, caps) ==
  /\ access[g] # NoRow
  /\ Overwrite(g, caps, (conferred[g] \cap caps) \cup Owed(g, caps \ access[g].caps))

(* sync_type_group_access --update-existing re-applies the type's policy.  *)
ReconcilePrimaryRow(g, policy) == /\ access[g] # NoRow
                                  /\ Overwrite(g, policy, Owed(g, policy))

AdminDeleteRow(g) == /\ access[g] # NoRow
                     /\ access' = [access EXCEPT ![g] = NoRow]
                     /\ conferred' = [conferred EXCEPT ![g] = {}]
                     /\ disturbed' = disturbed \cup {g}
                     /\ UNCHANGED <<referral, events, alerts, allowed>>

(* A transition moves the record to a state that does or does not allow    *)
(* referrals (State.allows_referrals).                                     *)
MoveState == /\ allowed' \in ReferralsIn
             /\ allowed' # allowed
             /\ UNCHANGED <<referral, access, events, alerts, conferred, disturbed>>

-----------------------------------------------------------------------------
(* The record as its save() creates it: the type's owning group and viewer *)
(* groups have their rows.                                                 *)
Init == /\ referral = [r \in Ids |-> NoReferral]
        /\ access \in [Groups -> {NoRow} \cup {OrganicRow(caps) : caps \in GrantCaps}]
        /\ conferred = [g \in Groups |-> IF access[g] = NoRow THEN {} ELSE access[g].caps]
        /\ events = {}
        /\ alerts = {}
        /\ allowed \in ReferralsIn
        /\ disturbed = {}

ReferralStep == \E r \in Ids :
  \/ \E g \in Groups : Refer(r, g)
  \/ Respond(r)
  \/ Recall(r)
  \/ MarkExpired(r)
  \/ \E row \in AdminRows : AdminSave(r, row) \/ AdminCreate(r, row)
  \/ Delete(r)

GrantStep == \E g \in Groups :
  \/ \E caps \in GrantCaps :
       Materialise(g, caps) \/ AdminEditRow(g, caps) \/ ReconcilePrimaryRow(g, caps)
  \/ AdminDeleteRow(g)

Next == ReferralStep \/ GrantStep \/ MoveState \/ \E R \in SUBSET Ids : BulkDelete(R)

Spec == Init /\ [][Next]_vars

-----------------------------------------------------------------------------
TypeOK == /\ referral \in [Ids -> ReferralRow \cup {NoReferral}]
          /\ access \in [Groups -> AccessRow \cup {NoRow}]
          /\ events \subseteq Registered
          /\ alerts \subseteq Kinds
          /\ allowed \in BOOLEAN
          /\ conferred \in [Groups -> SUBSET Capabilities]
          /\ disturbed \subseteq Groups

(* What sync_referral_access promises of a group's row, whatever the       *)
(* sequence of operations that led to it: an open referral to the group    *)
(* means edit, any referral means a row, edit a referral raised is not     *)
(* kept once none is open, and a row that exists for referrals alone does  *)
(* not outlive them.                                                       *)
InStep(g) ==
  /\ HasReferral(referral, g) => access[g] # NoRow
  /\ HasOpenReferral(referral, g) => "edit" \in access[g].caps
  /\ access[g] # NoRow =>
       /\ access[g].raised # {} => HasOpenReferral(referral, g)
       /\ access[g].origin = "referral" /\ GrantsOnlyView(access[g]) => HasReferral(referral, g)

(* Every group is in step unless its rows were last written by a bulk      *)
(* deletion or directly by an administrator or the type's policy: no       *)
(* referral operation leaves a group behind, a reassignment included.      *)
GrantsInStep == \A g \in Groups \ disturbed : InStep(g)

(* What a group was given by its type or an administrator it still holds:  *)
(* no sequence of referrals to it, answered, withdrawn, reassigned or      *)
(* deleted, narrows the row or removes it.                                 *)
OrganicGrantKept == \A g \in Groups :
  conferred[g] # {} => access[g] # NoRow /\ conferred[g] \subseteq access[g].caps

(* A referral operation takes from a row only what the row says a referral *)
(* raised, removes only a row a referral created and that then grants no   *)
(* more than view, and adds to an existing row nothing beyond edit: above  *)
(* all no transition.                                                      *)
ReferralMovesOnlyItsOwn ==
  [][referral' # referral => \A g \in Groups : access[g] # NoRow =>
       IF access'[g] = NoRow
       THEN access[g].origin = "referral" /\ access[g].caps \ access[g].raised \subseteq {"view"}
       ELSE /\ access[g].caps \ access'[g].caps \subseteq access[g].raised
            /\ access'[g].caps \ access[g].caps \subseteq {"edit"}]_vars

(* "While a referral to it is open the group may view and edit the record" *)
(* (docs/Functional Design.md, section 3.4).                               *)
OpenReferralGrantsView == \A g \in Groups \ disturbed :
  HasOpenReferral(referral, g) => "view" \in access[g].caps

=============================================================================
