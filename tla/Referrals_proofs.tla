-------------------------- MODULE Referrals_proofs --------------------------
(***************************************************************************)
(* Proofs about Referrals, whose operations are one step each, and about   *)
(* ReferralRequests and SerialReferrals, where they are the statements of  *)
(* several processes, for any sets of groups, referrals, capabilities and  *)
(* processes.                                                              *)
(***************************************************************************)
EXTENDS Referrals, SerialReferrals, SequenceTheorems, WellFoundedInduction, TLAPS

USE DEF Lifecycle, Statuses, Kinds

-----------------------------------------------------------------------------
(* Lemmas about the synchronisation of one row. *)

(* Synchronising a row yields a row, and the row is in step with the two   *)
(* facts it was synchronised against (sync_referral_access).               *)
LEMMA SyncedRow ==
  ASSUME NEW row \in AccessRow \cup {NoRow},
         NEW has \in BOOLEAN, NEW open \in BOOLEAN, open => has
  PROVE  LET new == Synced(row, has, open) IN
         /\ new \in AccessRow \cup {NoRow}
         /\ has => new # NoRow
         /\ open => "edit" \in new.caps
         /\ new # NoRow =>
              /\ new.raised # {} => open
              /\ new.origin = "referral" /\ GrantsOnlyView(new) => has
<1>1. CASE row = NoRow
  <2>1. NewRow(open) \in AccessRow
    BY RowsAssumption DEF NewRow, AccessRow
  <2> QED BY <1>1, <2>1, RowsAssumption DEF Synced, NewRow, GrantsOnlyView
<1>2. CASE row # NoRow
  <2>1. /\ row \in AccessRow
        /\ NoRow \notin AccessRow
    BY <1>2, RowsAssumption
  <2>2. Aligned(row, open) \in AccessRow
    BY <2>1, RowsAssumption DEF Aligned, Raise, Lower, AccessRow
  <2>3. open => "edit" \in Aligned(row, open).caps
    BY <2>1 DEF Aligned, Raise, AccessRow
  <2>4. Aligned(row, open).raised # {} => open
    BY <2>1 DEF Aligned, Lower, AccessRow
  <2>5. Synced(row, has, open) =
          IF ~has /\ row.origin = "referral" /\ GrantsOnlyView(Aligned(row, open))
          THEN NoRow ELSE Aligned(row, open)
    BY <1>2 DEF Synced
  <2>6. Aligned(row, open).origin = row.origin
    BY <2>1 DEF Aligned, Raise, Lower, AccessRow
  <2>7. CASE Synced(row, has, open) = NoRow
    BY <2>1, <2>2, <2>5, <2>7
  <2>8. CASE Synced(row, has, open) = Aligned(row, open)
    BY <2>1, <2>2, <2>3, <2>4, <2>5, <2>6, <2>8
  <2> QED BY <2>5, <2>7, <2>8
<1> QED BY <1>1, <1>2

(* Synchronising an existing row removes only what a referral raised, adds *)
(* only edit, never changes what created the row, and deletes only a row   *)
(* of referrals that is down to view.                                      *)
LEMMA SyncedMovesOnlyItsOwn ==
  ASSUME NEW row \in AccessRow,
         NEW has \in BOOLEAN, NEW open \in BOOLEAN
  PROVE  LET new == Synced(row, has, open) IN
         /\ new = NoRow => /\ row.origin = "referral"
                           /\ row.caps \ row.raised \subseteq {"view"}
         /\ new # NoRow => /\ row.caps \ new.caps \subseteq row.raised
                           /\ new.caps \ row.caps \subseteq {"edit"}
                           /\ new.origin = row.origin
                           /\ new.raised # {} => row.raised # {} \/ "edit" \notin row.caps
<1>1. row # NoRow
  BY RowsAssumption
<1> DEFINE aligned == Aligned(row, open)
<1>2. /\ aligned \in AccessRow
      /\ aligned.origin = row.origin
  BY RowsAssumption DEF Aligned, Raise, Lower, AccessRow
<1>3. /\ row.caps \ aligned.caps \subseteq row.raised
      /\ aligned.caps \ row.caps \subseteq {"edit"}
      /\ aligned.raised # {} => row.raised # {} \/ "edit" \notin row.caps
  <2>1. CASE open
    BY <2>1 DEF Aligned, Raise, AccessRow
  <2>2. CASE ~open
    BY <2>2 DEF Aligned, Lower, AccessRow
  <2> QED BY <2>1, <2>2
<1>4. GrantsOnlyView(aligned) => row.caps \ row.raised \subseteq {"view"}
  BY <1>3 DEF GrantsOnlyView
<1>5. Synced(row, has, open) \in {NoRow, aligned}
  BY <1>1 DEF Synced
<1>6. Synced(row, has, open) = NoRow => aligned.origin = "referral" /\ GrantsOnlyView(aligned)
  BY <1>1, <1>2, RowsAssumption DEF Synced
<1> QED BY <1>2, <1>3, <1>4, <1>5, <1>6

(* A row that is in step is left as it is. *)
LEMMA InStepFixpoint ==
  ASSUME NEW row, NEW has \in BOOLEAN, NEW open \in BOOLEAN,
         has => row # NoRow,
         open => "edit" \in row.caps,
         row # NoRow => /\ row.raised # {} => open
                        /\ row.origin = "referral" /\ GrantsOnlyView(row) => has
  PROVE  Synced(row, has, open) = row
<1>1. CASE row = NoRow
  BY <1>1 DEF Synced
<1>2. CASE row # NoRow
  <2>1. Aligned(row, open) = row
    BY <1>2 DEF Aligned, Raise, Lower
  <2> QED BY <1>2, <2>1 DEF Synced
<1> QED BY <1>1, <1>2

(* A second synchronisation changes nothing: sync_referral_access may run  *)
(* again for a group (a reassignment back, a job that saves the same row)  *)
(* to no effect.                                                           *)
THEOREM SyncIdempotent ==
  ASSUME NEW row \in AccessRow \cup {NoRow},
         NEW has \in BOOLEAN, NEW open \in BOOLEAN, open => has
  PROVE  Synced(Synced(row, has, open), has, open) = Synced(row, has, open)
BY SyncedRow, InStepFixpoint

-----------------------------------------------------------------------------
(* Type correctness. *)

LEMMA OpenReferralIsReferral ==
  ASSUME NEW table, NEW g, HasOpenReferral(table, g)
  PROVE  HasReferral(table, g)
BY DEF HasOpenReferral, HasReferral

LEMMA FlagsBoolean ==
  ASSUME NEW table, NEW g
  PROVE  /\ HasReferral(table, g) \in BOOLEAN
         /\ HasOpenReferral(table, g) \in BOOLEAN
BY DEF HasOpenReferral, HasReferral

(* Synchronising some groups keeps the access table well typed.            *)
LEMMA SyncedTableType ==
  ASSUME TypeOK, NEW table, NEW S
  PROVE  SyncedTable(table, S) \in [Groups -> AccessRow \cup {NoRow}]
<1> SUFFICES ASSUME NEW g \in Groups
             PROVE  SyncedTable(table, S)[g] \in AccessRow \cup {NoRow}
  BY DEF SyncedTable
<1>1. Synced(access[g], HasReferral(table, g), HasOpenReferral(table, g))
        \in AccessRow \cup {NoRow}
  BY SyncedRow, OpenReferralIsReferral, FlagsBoolean DEF TypeOK
<1> QED BY <1>1 DEF SyncedTable, TypeOK

LEMMA SaveType ==
  ASSUME TypeOK, NEW r \in Ids, NEW row \in ReferralRow, Save(r, row)
  PROVE  /\ referral' \in [Ids -> ReferralRow \cup {NoReferral}]
         /\ access' \in [Groups -> AccessRow \cup {NoRow}]
         /\ events' \subseteq Registered
         /\ disturbed' \subseteq Groups
BY SyncedTableType DEF TypeOK, Save, Synchronise, Emit

LEMMA CloseType ==
  ASSUME TypeOK, NEW r \in Ids, NEW status \in Lifecycle, Close(r, status)
  PROVE  TypeOK'
<1>1. [referral[r] EXCEPT !.status = status] \in ReferralRow
  BY DEF Close, IsOpen, TypeOK, ReferralRow
<1> QED BY <1>1, SaveType DEF Close, Alert, TypeOK

LEMMA OverwriteType ==
  ASSUME TypeOK, NEW g \in Groups,
         NEW caps \in SUBSET Capabilities, NEW given \in SUBSET Capabilities,
         Overwrite(g, caps, given)
  PROVE  TypeOK'
<1>1. access[g] \in AccessRow
  BY DEF Overwrite, TypeOK
<1>2. [access[g] EXCEPT !.caps = caps] \in AccessRow
  BY <1>1 DEF AccessRow
<1> QED BY <1>2 DEF Overwrite, TypeOK

THEOREM TypeInvariant == Spec => []TypeOK
<1>1. Init => TypeOK
  <2> SUFFICES ASSUME Init PROVE TypeOK
    OBVIOUS
  <2>1. \A caps \in SUBSET Capabilities : OrganicRow(caps) \in AccessRow
    BY DEF OrganicRow, AccessRow
  <2>2. access \in [Groups -> AccessRow \cup {NoRow}]
    BY <2>1, RowsAssumption DEF Init
  <2>3. conferred \in [Groups -> SUBSET Capabilities]
    <3>1. \A g \in Groups : access[g] # NoRow => access[g].caps \subseteq Capabilities
      BY <2>2 DEF AccessRow
    <3> QED BY <3>1 DEF Init
  <2> QED BY <2>2, <2>3, InputsAssumption DEF Init, TypeOK
<1>2. TypeOK /\ [Next]_vars => TypeOK'
  <2> SUFFICES ASSUME TypeOK, [Next]_vars PROVE TypeOK'
    OBVIOUS
  <2>1. ASSUME NEW r \in Ids, NEW g \in Groups, Refer(r, g) PROVE TypeOK'
    <3>1. [to |-> g, status |-> "open"] \in ReferralRow
      BY DEF ReferralRow
    <3> QED BY <2>1, <3>1, SaveType DEF Refer, Alert, TypeOK
  <2>2. ASSUME NEW r \in Ids, Respond(r) \/ Recall(r) \/ MarkExpired(r) PROVE TypeOK'
    BY <2>2, CloseType DEF Respond, Recall, MarkExpired
  <2>3. ASSUME NEW r \in Ids, NEW row \in AdminRows,
               AdminSave(r, row) \/ AdminCreate(r, row)
        PROVE  TypeOK'
    BY <2>3, RowsAssumption, SaveType DEF AdminSave, AdminCreate, TypeOK
  <2>4. ASSUME NEW r \in Ids, Delete(r) PROVE TypeOK'
    BY <2>4, SyncedTableType DEF Delete, Synchronise, TypeOK
  <2>5. ASSUME NEW g \in Groups, NEW caps \in GrantCaps,
               \/ Materialise(g, caps)
               \/ AdminEditRow(g, caps)
               \/ ReconcilePrimaryRow(g, caps)
        PROVE  TypeOK'
    <3> caps \in SUBSET Capabilities
      BY RowsAssumption
    <3>1. CASE Materialise(g, caps)
      <4>1. OrganicRow(caps) \in AccessRow
        BY DEF AccessRow, OrganicRow
      <4> QED BY <3>1, <4>1 DEF Materialise, TypeOK
    <3>2. CASE AdminEditRow(g, caps)
      BY <3>2, OverwriteType DEF AdminEditRow, Owed
    <3>3. CASE ReconcilePrimaryRow(g, caps)
      BY <3>3, OverwriteType DEF ReconcilePrimaryRow, Owed
    <3> QED BY <2>5, <3>1, <3>2, <3>3
  <2>6. ASSUME NEW g \in Groups, AdminDeleteRow(g) PROVE TypeOK'
    BY <2>6 DEF AdminDeleteRow, TypeOK
  <2>7. ASSUME NEW R \in SUBSET Ids, BulkDelete(R) PROVE TypeOK'
    BY <2>7, RowsAssumption DEF BulkDelete, TypeOK, ReferralRow
  <2>8. CASE MoveState
    BY <2>8, RowsAssumption, InputsAssumption DEF MoveState, TypeOK
  <2>9. CASE UNCHANGED vars
    BY <2>9 DEF vars, TypeOK
  <2> QED BY <2>1, <2>2, <2>3, <2>4, <2>5, <2>6, <2>7, <2>8, <2>9
       DEF Next, ReferralStep, GrantStep
<1> QED BY <1>1, <1>2, PTL DEF Spec

-----------------------------------------------------------------------------
(* The grants stay in step. *)

(* Whatever the access rows were, a group synchronised against the new     *)
(* referral table is in step with it, and a group left out is untouched.   *)
LEMMA SynchroniseInStep ==
  ASSUME TypeOK, NEW table, NEW S, Synchronise(table, S),
         NEW g \in Groups, g \in S
  PROVE  InStep(g)'
<1> DEFINE has == HasReferral(table, g)
           open == HasOpenReferral(table, g)
<1>1. /\ referral' = table
      /\ access'[g] = Synced(access[g], has, open)
  BY DEF Synchronise, SyncedTable
<1>2. /\ access[g] \in AccessRow \cup {NoRow}
      /\ has \in BOOLEAN
      /\ open \in BOOLEAN
      /\ open => has
  BY OpenReferralIsReferral, FlagsBoolean DEF TypeOK
<1>3. /\ has => access'[g] # NoRow
      /\ open => "edit" \in access'[g].caps
      /\ access'[g] # NoRow =>
           /\ access'[g].raised # {} => open
           /\ access'[g].origin = "referral" /\ GrantsOnlyView(access'[g]) => has
  <2> HIDE DEF has, open
  <2> QED BY <1>1, <1>2, SyncedRow
<1>4. /\ HasReferral(referral, g)' = has
      /\ HasOpenReferral(referral, g)' = open
  BY <1>1 DEF HasReferral, HasOpenReferral
<1> QED BY <1>3, <1>4 DEF InStep, GrantsOnlyView

(* A group none of whose referrals changed, and whose row did not, is as   *)
(* much in step as before.                                                 *)
LEMMA UntouchedInStep ==
  ASSUME NEW g, InStep(g), access'[g] = access[g],
         \A r \in Ids : referral'[r] # referral[r] =>
            /\ referral[r] # NoReferral => referral[r].to # g
            /\ referral'[r] # NoReferral => referral'[r].to # g
  PROVE  InStep(g)'
<1>1. /\ HasReferral(referral, g)' = HasReferral(referral, g)
      /\ HasOpenReferral(referral, g)' = HasOpenReferral(referral, g)
  BY DEF HasReferral, HasOpenReferral
<1> QED BY <1>1 DEF InStep, GrantsOnlyView

LEMMA SaveInStep ==
  ASSUME TypeOK, GrantsInStep, NEW r \in Ids, NEW row \in ReferralRow, Save(r, row)
  PROVE  GrantsInStep'
<1> SUFFICES ASSUME NEW g \in Groups, g \notin disturbed' PROVE InStep(g)'
  BY DEF GrantsInStep
<1>1. CASE g \in SavedGroups(r, row)
  BY <1>1, SynchroniseInStep DEF Save
<1>2. CASE g \notin SavedGroups(r, row)
  <2>1. g \notin disturbed /\ access'[g] = access[g]
    BY <1>2 DEF Save, Synchronise, SyncedTable
  <2>2. \A i \in Ids : referral'[i] # referral[i] =>
            /\ referral[i] # NoReferral => referral[i].to # g
            /\ referral'[i] # NoReferral => referral'[i].to # g
    BY <1>2 DEF Save, Synchronise, SavedGroups, TypeOK
  <2> QED BY <2>1, <2>2, UntouchedInStep DEF GrantsInStep
<1> QED BY <1>1, <1>2

(* No sequence of referral operations leaves a group out of step.          *)
THEOREM GrantsStayInStep == Spec => []GrantsInStep
<1>1. Init => GrantsInStep
  <2> SUFFICES ASSUME Init, NEW g \in Groups PROVE InStep(g)
    BY DEF GrantsInStep
  <2>1. ~HasReferral(referral, g) /\ ~HasOpenReferral(referral, g)
    BY DEF Init, HasReferral, HasOpenReferral
  <2>2. access[g] # NoRow => \E caps \in GrantCaps : access[g] = OrganicRow(caps)
    BY DEF Init
  <2>3. \A caps : OrganicRow(caps).raised = {} /\ OrganicRow(caps).origin = "organic"
    BY DEF OrganicRow
  <2> QED BY <2>1, <2>2, <2>3 DEF InStep
<1>2. TypeOK /\ GrantsInStep /\ [Next]_vars => GrantsInStep'
  <2> SUFFICES ASSUME TypeOK, GrantsInStep, [Next]_vars PROVE GrantsInStep'
    OBVIOUS
  <2>1. ASSUME NEW r \in Ids, NEW g \in Groups, Refer(r, g) PROVE GrantsInStep'
    <3>1. [to |-> g, status |-> "open"] \in ReferralRow
      BY DEF ReferralRow
    <3> QED BY <2>1, <3>1, SaveInStep DEF Refer
  <2>2. ASSUME NEW r \in Ids, NEW status \in Lifecycle, Close(r, status) PROVE GrantsInStep'
    <3>1. [referral[r] EXCEPT !.status = status] \in ReferralRow
      BY <2>2 DEF Close, IsOpen, TypeOK, ReferralRow
    <3> QED BY <2>2, <3>1, SaveInStep DEF Close
  <2>3. ASSUME NEW r \in Ids, NEW row \in AdminRows,
               AdminSave(r, row) \/ AdminCreate(r, row)
        PROVE  GrantsInStep'
    BY <2>3, RowsAssumption, SaveInStep DEF AdminSave, AdminCreate
  <2>4. ASSUME NEW r \in Ids, Delete(r) PROVE GrantsInStep'
    <3> SUFFICES ASSUME NEW g \in Groups, g \notin disturbed' PROVE InStep(g)'
      BY DEF GrantsInStep
    <3>1. CASE g = referral[r].to
      BY <2>4, <3>1, SynchroniseInStep DEF Delete
    <3>2. CASE g # referral[r].to
      <4>1. g \notin disturbed /\ access'[g] = access[g]
        BY <2>4, <3>2 DEF Delete, Synchronise, SyncedTable
      <4>2. \A i \in Ids : referral'[i] # referral[i] =>
               i = r /\ referral'[i] = NoReferral
        BY <2>4 DEF Delete, Synchronise, TypeOK
      <4> QED BY <3>2, <4>1, <4>2, UntouchedInStep DEF GrantsInStep
    <3> QED BY <3>1, <3>2
  <2>5. ASSUME NEW g \in Groups, referral' = referral,
               \A h \in Groups \ {g} : access'[h] = access[h],
               disturbed' = disturbed \cup {g}
        PROVE  GrantsInStep'
    BY <2>5, UntouchedInStep DEF GrantsInStep
  <2>6. ASSUME NEW g \in Groups, NEW caps \in GrantCaps,
               \/ Materialise(g, caps)
               \/ AdminEditRow(g, caps)
               \/ ReconcilePrimaryRow(g, caps)
               \/ AdminDeleteRow(g)
        PROVE  GrantsInStep'
    BY <2>5, <2>6 DEF Materialise, AdminEditRow, ReconcilePrimaryRow, Overwrite,
                      AdminDeleteRow, TypeOK
  <2>7. ASSUME NEW g \in Groups, AdminDeleteRow(g) PROVE GrantsInStep'
    BY <2>5, <2>7 DEF AdminDeleteRow, TypeOK
  <2>8. ASSUME NEW R \in SUBSET Ids, BulkDelete(R) PROVE GrantsInStep'
    <3> SUFFICES ASSUME NEW g \in Groups, g \notin disturbed' PROVE InStep(g)'
      BY DEF GrantsInStep
    <3>1. g \notin disturbed /\ access'[g] = access[g]
      BY <2>8 DEF BulkDelete
    <3>2. \A i \in Ids : referral'[i] # referral[i] =>
             referral[i].to # g /\ referral'[i] = NoReferral
      BY <2>8 DEF BulkDelete
    <3> QED BY <3>1, <3>2, UntouchedInStep DEF GrantsInStep
  <2>9. CASE MoveState \/ UNCHANGED vars
    BY <2>9, UntouchedInStep DEF MoveState, vars, GrantsInStep
  <2> QED BY <2>1, <2>2, <2>3, <2>4, <2>6, <2>7, <2>8, <2>9
       DEF Next, ReferralStep, GrantStep, Respond, Recall, MarkExpired, Lifecycle
<1> QED BY <1>1, <1>2, TypeInvariant, PTL DEF Spec

-----------------------------------------------------------------------------
(* Organic grants are never narrowed. *)

(* Why OrganicGrantKept survives a referral operation: what a group was    *)
(* given never coincides with what a row holds on a referral's account.    *)
GivenApart == \A g \in Groups : access[g] # NoRow =>
  /\ access[g].raised # {} => "edit" \notin conferred[g]
  /\ access[g].origin = "referral" => "view" \notin conferred[g]

OrganicInv == TypeOK /\ OrganicGrantKept /\ GivenApart

(* A synchronisation keeps what each group was given. *)
LEMMA SynchroniseKeepsGiven ==
  ASSUME OrganicInv, NEW table, NEW S, Synchronise(table, S), conferred' = conferred
  PROVE  OrganicGrantKept' /\ GivenApart'
<1> SUFFICES ASSUME NEW g \in Groups
             PROVE  /\ conferred[g] # {} => access'[g] # NoRow /\ conferred[g] \subseteq access'[g].caps
                    /\ access'[g] # NoRow =>
                         /\ access'[g].raised # {} => "edit" \notin conferred[g]
                         /\ access'[g].origin = "referral" => "view" \notin conferred[g]
  BY DEF OrganicGrantKept, GivenApart
<1> USE DEF OrganicInv, TypeOK
<1>1. CASE g \notin S
  BY <1>1 DEF Synchronise, SyncedTable, OrganicGrantKept, GivenApart
<1>2. CASE g \in S /\ access[g] = NoRow
  BY <1>2 DEF OrganicGrantKept
<1>3. CASE g \in S /\ access[g] # NoRow
  <2> DEFINE has == HasReferral(table, g)
             open == HasOpenReferral(table, g)
             row == access[g]
  <2>1. access'[g] = Synced(row, has, open)
    BY <1>3 DEF Synchronise, SyncedTable
  <2>2. row \in AccessRow /\ has \in BOOLEAN /\ open \in BOOLEAN
    BY <1>3, FlagsBoolean
  <2>3. /\ row.raised # {} => "edit" \notin conferred[g]
        /\ row.origin = "referral" => "view" \notin conferred[g]
        /\ conferred[g] # {} => conferred[g] \subseteq row.caps
        /\ row.raised \subseteq {"edit"}
    BY <1>3, <2>2 DEF OrganicGrantKept, GivenApart, AccessRow
  <2>4. /\ access'[g] = NoRow => /\ row.origin = "referral"
                                 /\ row.caps \ row.raised \subseteq {"view"}
        /\ access'[g] # NoRow =>
             /\ row.caps \ access'[g].caps \subseteq row.raised
             /\ access'[g].origin = row.origin
             /\ access'[g].raised # {} => row.raised # {} \/ "edit" \notin row.caps
    <3> HIDE DEF has, open, row
    <3> QED BY <2>1, <2>2, SyncedMovesOnlyItsOwn
  <2> QED BY <2>3, <2>4
<1> QED BY <1>1, <1>2, <1>3

(* So does a write that is not a referral's, as long as it does not confer *)
(* edit on a row a referral has raised.                                    *)
LEMMA OverwriteKeepsGiven ==
  ASSUME OrganicInv, ~GrantsDuringReferral, NEW g \in Groups,
         NEW caps \in SUBSET Capabilities, NEW given \in SUBSET caps,
         Overwrite(g, caps, given),
         "view" \in given => access[g].origin # "referral" \/ "view" \in conferred[g]
  PROVE  OrganicGrantKept' /\ GivenApart'
<1> USE DEF OrganicInv, TypeOK
<1>1. /\ access[g] \in AccessRow
      /\ NoRow \notin AccessRow
  BY RowsAssumption DEF Overwrite
<1>2. /\ access'[g].caps = caps
      /\ access'[g].raised = access[g].raised
      /\ access'[g].origin = access[g].origin
      /\ access'[g] # NoRow
      /\ conferred'[g] = given
  <2>1. access'[g] = [access[g] EXCEPT !.caps = caps]
    BY DEF Overwrite
  <2>2. access'[g] \in AccessRow
    BY <1>1, <2>1 DEF AccessRow
  <2> QED BY <1>1, <2>1, <2>2 DEF Overwrite, AccessRow
<1>3. \A h \in Groups \ {g} : access'[h] = access[h] /\ conferred'[h] = conferred[h]
  BY DEF Overwrite
<1>4. access[g].raised # {} => "edit" \notin given
  BY DEF Overwrite, GivenApart
<1>5. access[g].origin = "referral" => "view" \notin given
  BY DEF Overwrite, GivenApart
<1> QED BY <1>2, <1>3, <1>4, <1>5 DEF OrganicGrantKept, GivenApart

(* If nobody confers edit on a row while a referral is marked as having    *)
(* raised it, no referral ever costs a group what it was given.            *)
THEOREM OrganicGrantsStay ==
  ASSUME ~GrantsDuringReferral
  PROVE  Spec => []OrganicGrantKept
<1>1. Init => OrganicGrantKept /\ GivenApart
  <2> SUFFICES ASSUME Init, NEW g \in Groups
               PROVE  /\ conferred[g] # {} => access[g] # NoRow /\ conferred[g] \subseteq access[g].caps
                      /\ access[g] # NoRow =>
                           /\ access[g].raised # {} => "edit" \notin conferred[g]
                           /\ access[g].origin = "referral" => "view" \notin conferred[g]
    BY DEF OrganicGrantKept, GivenApart
  <2>1. /\ access[g] # NoRow => \E caps \in GrantCaps : access[g] = OrganicRow(caps)
        /\ conferred[g] = IF access[g] = NoRow THEN {} ELSE access[g].caps
    BY DEF Init
  <2>2. \A caps : OrganicRow(caps).raised = {} /\ OrganicRow(caps).origin = "organic"
    BY DEF OrganicRow
  <2> QED BY <2>1, <2>2
<1>2. OrganicInv /\ [Next]_vars => (OrganicGrantKept /\ GivenApart)'
  <2> SUFFICES ASSUME OrganicInv, [Next]_vars
               PROVE  OrganicGrantKept' /\ GivenApart'
    OBVIOUS
  <2>1. ASSUME NEW r \in Ids, ReferralStep PROVE OrganicGrantKept' /\ GivenApart'
    BY <2>1, SynchroniseKeepsGiven
       DEF ReferralStep, Refer, Respond, Recall, MarkExpired, Close, AdminSave, AdminCreate,
           Delete, Save
  <2>2. ASSUME NEW g \in Groups, NEW caps \in GrantCaps, Materialise(g, caps)
        PROVE  OrganicGrantKept' /\ GivenApart'
    <3>1. /\ access'[g] = OrganicRow(caps)
          /\ access'[g] # NoRow
          /\ conferred'[g] = caps
      <4>1. OrganicRow(caps) \in AccessRow
        BY RowsAssumption DEF AccessRow, OrganicRow
      <4> QED BY <2>2, <4>1, RowsAssumption DEF Materialise, OrganicInv, TypeOK
    <3>2. \A h \in Groups \ {g} : access'[h] = access[h] /\ conferred'[h] = conferred[h]
      BY <2>2 DEF Materialise, OrganicInv, TypeOK
    <3> QED BY <3>1, <3>2 DEF OrganicInv, OrganicGrantKept, GivenApart, OrganicRow
  <2>3. ASSUME NEW g \in Groups, NEW caps \in GrantCaps, AdminEditRow(g, caps)
        PROVE  OrganicGrantKept' /\ GivenApart'
    BY <2>3, RowsAssumption, OverwriteKeepsGiven DEF AdminEditRow, Owed
  <2>4. ASSUME NEW g \in Groups, NEW caps \in GrantCaps, ReconcilePrimaryRow(g, caps)
        PROVE  OrganicGrantKept' /\ GivenApart'
    BY <2>4, RowsAssumption, OverwriteKeepsGiven DEF ReconcilePrimaryRow, Owed
  <2>5. ASSUME NEW g \in Groups, AdminDeleteRow(g)
        PROVE  OrganicGrantKept' /\ GivenApart'
    BY <2>5 DEF AdminDeleteRow, OrganicInv, TypeOK, OrganicGrantKept, GivenApart
  <2>6. CASE UNCHANGED <<access, conferred>>
    BY <2>6 DEF OrganicInv, OrganicGrantKept, GivenApart
  <2>7. CASE MoveState \/ (\E R \in SUBSET Ids : BulkDelete(R)) \/ UNCHANGED vars
    BY <2>6, <2>7 DEF MoveState, BulkDelete, vars
  <2> QED BY <2>1, <2>2, <2>3, <2>4, <2>5, <2>7 DEF Next, GrantStep, ReferralStep
<1> QED BY <1>1, <1>2, TypeInvariant, PTL DEF Spec, OrganicInv

(* A referral operation moves only what a referral put there.              *)
THEOREM ReferralStepsMoveOnlyTheirOwn == Spec => ReferralMovesOnlyItsOwn
<1> DEFINE OwnOnly == \A g \in Groups : access[g] # NoRow =>
       IF access'[g] = NoRow
       THEN access[g].origin = "referral" /\ access[g].caps \ access[g].raised \subseteq {"view"}
       ELSE /\ access[g].caps \ access'[g].caps \subseteq access[g].raised
            /\ access'[g].caps \ access[g].caps \subseteq {"edit"}
<1>1. TypeOK /\ [Next]_vars => [referral' # referral => OwnOnly]_vars
  <2> SUFFICES ASSUME TypeOK, Next, referral' # referral PROVE OwnOnly
    BY DEF vars
  <2> SUFFICES ASSUME NEW g \in Groups, access[g] # NoRow
               PROVE  IF access'[g] = NoRow
                      THEN /\ access[g].origin = "referral"
                           /\ access[g].caps \ access[g].raised \subseteq {"view"}
                      ELSE /\ access[g].caps \ access'[g].caps \subseteq access[g].raised
                           /\ access'[g].caps \ access[g].caps \subseteq {"edit"}
    OBVIOUS
  <2>1. CASE access'[g] = access[g]
    BY <2>1
  <2>2. CASE \E table, S : Synchronise(table, S)
    <3> PICK table, S : Synchronise(table, S)
      BY <2>2
    <3>1. \/ access'[g] = access[g]
          \/ access'[g] = Synced(access[g], HasReferral(table, g), HasOpenReferral(table, g))
      BY DEF Synchronise, SyncedTable
    <3>2. access[g] \in AccessRow
      BY DEF TypeOK
    <3> QED BY <2>1, <3>1, <3>2, FlagsBoolean, SyncedMovesOnlyItsOwn
  <2>3. CASE \E R \in SUBSET Ids : BulkDelete(R)
    BY <2>1, <2>3 DEF BulkDelete
  <2>4. CASE GrantStep \/ MoveState
    BY <2>4 DEF GrantStep, MoveState, Materialise, AdminEditRow, ReconcilePrimaryRow,
                Overwrite, AdminDeleteRow
  <2>5. CASE ReferralStep
    BY <2>2, <2>5 DEF ReferralStep, Refer, Respond, Recall, MarkExpired, Close, AdminSave,
                      AdminCreate, Delete, Save
  <2> QED BY <2>3, <2>4, <2>5 DEF Next
<1> QED BY <1>1, TypeInvariant, PTL DEF Spec, ReferralMovesOnlyItsOwn

-----------------------------------------------------------------------------
(* Statement by statement: what a request has in memory.                   *)

Working == {"insert", "previous", "write", "event", "has", "open", "row", "grant", "drop",
            "alert", "commit"}

Batches == {<<>>} \cup UNION {[R -> ReferralRow] : R \in SUBSET Ids}

Job == [pc : {"idle", "batch"} \cup Working,
        op : {"none", "saved", "deleted"} \cup Kinds,
        id : Ids \cup {NoReferral},
        copy : ReferralRow \cup {NoReferral},
        prev : ReferralRow \cup {NoReferral},
        batch : Batches,
        has : BOOLEAN,
        open : BOOLEAN,
        pk : Nat,
        seen : AccessRow \cup {NoRow}]

Held(row) == "edit" \in row.caps /\ row.raised = {}

Typed ==
  /\ referral \in [Ids -> ReferralRow \cup {NoReferral}]
  /\ rows \in Seq(Row)
  /\ req \in [Workers -> Job]
  /\ \A w \in Workers :
       /\ req[w].pc \in Working => req[w].id \in Ids /\ req[w].copy \in ReferralRow
       /\ req[w].pc = "insert" => req[w].op = "created" /\ req[w].copy.status = "open"
       /\ req[w].pc \in {"previous", "write"} => req[w].op \in Lifecycle
       /\ req[w].pc = "drop" => req[w].seen # NoRow /\ req[w].seen.origin = "referral"
       /\ req[w].pc \in {"grant", "drop"} /\ req[w].seen # NoRow => req[w].pk \in DOMAIN rows

Others(w) == \A v \in Workers \ {w} : req'[v] = req[v]

Aside == /\ UNCHANGED <<referral, used, rows, events, alerts, excused, crashes>>

LEMMA IdleIs ==
  /\ Idle \in Job /\ Idle.pc = "idle" /\ Idle.batch = <<>> /\ Idle.seen = NoRow
  /\ Idle.prev = NoReferral
BY RowsAssumption DEF Idle, Job, Batches

LEMMA BeginIs ==
  ASSUME Typed, NEW w \in Workers, NEW pc \in {"previous", "commit"},
         NEW op \in {"saved", "deleted"} \cup Lifecycle, NEW id \in Ids, NEW copy \in ReferralRow,
         Begin(w, pc, op, id, copy)
  PROVE  /\ req' \in [Workers -> Job] /\ Others(w) /\ Aside
         /\ req[w].pc = "idle" /\ req'[w].pc = pc /\ req'[w].op = op /\ req'[w].id = id
         /\ req'[w].copy = copy /\ req'[w].batch = <<>>
<1> DEFINE job == [Idle EXCEPT !.pc = pc, !.op = op, !.id = id, !.copy = copy]
<1>1. job \in Job /\ job.pc = pc /\ job.op = op /\ job.id = id /\ job.copy = copy /\ job.batch = <<>>
  BY IdleIs DEF Job, Working
<1>2. req' = [req EXCEPT ![w] = job] /\ Aside /\ req[w].pc = "idle"
  BY DEF Begin, Become, Request, At, Aside, tables, history
<1> HIDE DEF job
<1> QED BY <1>1, <1>2 DEF Typed, Others

LEMMA LoadReferIs ==
  ASSUME Typed, NEW w \in Workers, NEW r \in Ids, NEW g \in Groups, LoadRefer(w, r, g)
  PROVE  /\ req' \in [Workers -> Job] /\ Others(w)
         /\ UNCHANGED <<referral, rows, events, alerts, excused, crashes>>
         /\ req[w].pc = "idle" /\ req'[w].pc = "insert" /\ req'[w].op = "created"
         /\ req'[w].id = r /\ req'[w].copy = [to |-> g, status |-> "open"] /\ req'[w].batch = <<>>
         /\ req'[w].prev = NoReferral /\ r \notin used /\ used' = used \cup {r}
<1> DEFINE copy == [to |-> g, status |-> "open"]
<1>0. copy \in ReferralRow
  BY DEF ReferralRow
<1> HIDE DEF copy
<1> DEFINE job == [Idle EXCEPT !.pc = "insert", !.op = "created", !.id = r, !.copy = copy]
<1>1. job \in Job /\ job.pc = "insert" /\ job.op = "created" /\ job.id = r /\ job.copy = copy
      /\ job.batch = <<>> /\ job.prev = NoReferral
  BY <1>0, IdleIs DEF Job, Working
<1>2. req' = [req EXCEPT ![w] = job] /\ req[w].pc = "idle"
      /\ r \notin used /\ used' = used \cup {r}
      /\ UNCHANGED <<referral, rows, events, alerts, excused, crashes>>
  BY DEF LoadRefer, Become, Request, At, copy, history
<1> HIDE DEF job
<1>3. /\ req' \in [Workers -> Job] /\ Others(w)
      /\ UNCHANGED <<referral, rows, events, alerts, excused, crashes>>
      /\ req[w].pc = "idle" /\ req'[w].pc = "insert" /\ req'[w].op = "created"
      /\ req'[w].id = r /\ req'[w].copy = copy /\ req'[w].batch = <<>>
      /\ req'[w].prev = NoReferral
  BY <1>1, <1>2 DEF Typed, Others
<1> QED BY <1>2, <1>3 DEF copy

LEMMA SelectExpiredIs ==
  ASSUME Typed, NEW w \in Workers, NEW R \in SUBSET Ids, SelectExpired(w, R)
  PROVE  /\ req' \in [Workers -> Job] /\ Others(w) /\ Aside
         /\ req[w].pc = "idle" /\ req'[w].pc = "batch" /\ DOMAIN req'[w].batch = R
         /\ \A r \in R : /\ referral[r] # NoReferral /\ referral[r].status = "open"
                        /\ req'[w].batch[r] = referral[r]
<1> DEFINE batch == [r \in R |-> referral[r]]
<1>0. batch \in Batches /\ DOMAIN batch = R /\ \A r \in R : batch[r] = referral[r]
  <2>1. batch \in [R -> ReferralRow]
    BY DEF SelectExpired, Typed
  <2> QED BY <2>1 DEF Batches
<1> HIDE DEF batch
<1> DEFINE job == [Idle EXCEPT !.pc = "batch", !.batch = batch]
<1>1. job \in Job /\ job.pc = "batch" /\ job.batch = batch
  BY <1>0, IdleIs DEF Job
<1>2. req' = [req EXCEPT ![w] = job] /\ Aside /\ req[w].pc = "idle"
      /\ \A r \in R : referral[r] # NoReferral /\ referral[r].status = "open"
  BY DEF SelectExpired, Become, At, Aside, tables, history, batch
<1> HIDE DEF job
<1> QED BY <1>0, <1>1, <1>2 DEF Typed, Others

LEMMA TakeExpiredIs ==
  ASSUME Typed, NEW w \in Workers, NEW r \in Ids, TakeExpired(w, r)
  PROVE  /\ req' \in [Workers -> Job] /\ Others(w) /\ Aside
         /\ req[w].pc = "batch" /\ r \in DOMAIN req[w].batch
         /\ req'[w].pc = "previous" /\ req'[w].op = "expired" /\ req'[w].id = r
         /\ req'[w].copy \in ReferralRow /\ DOMAIN req'[w].batch \subseteq DOMAIN req[w].batch
         /\ req'[w].copy = [req[w].batch[r] EXCEPT !.status = "expired"]
         /\ r \notin DOMAIN req'[w].batch
         /\ \A i \in DOMAIN req'[w].batch : req'[w].batch[i] = req[w].batch[i]
<1>0. req[w] \in Job /\ r \in DOMAIN req[w].batch /\ req[w].pc = "batch"
  BY DEF Typed, TakeExpired, At
<1>1. PICK old : old = req[w].batch
  OBVIOUS
<1>2. PICK R \in SUBSET Ids : old \in [R -> ReferralRow]
  BY <1>0, <1>1 DEF Job, Batches
<1>3. PICK copy : copy = [old[r] EXCEPT !.status = "expired"]
  OBVIOUS
<1>4. copy \in ReferralRow
  BY <1>0, <1>1, <1>2, <1>3 DEF ReferralRow
<1>5. PICK batch : batch = [i \in DOMAIN old \ {r} |-> old[i]]
  OBVIOUS
<1>6. /\ batch \in Batches /\ DOMAIN batch \subseteq DOMAIN old /\ r \notin DOMAIN batch
      /\ \A i \in DOMAIN batch : batch[i] = old[i]
  <2>1. batch \in [R \ {r} -> ReferralRow] /\ R \ {r} \in SUBSET Ids
    BY <1>2, <1>5
  <2> QED BY <1>2, <1>5, <2>1 DEF Batches
<1> DEFINE job == [Idle EXCEPT !.pc = "previous", !.op = "expired", !.id = r, !.copy = copy,
                                !.batch = batch]
<1>7. job \in Job /\ job.pc = "previous" /\ job.op = "expired" /\ job.id = r /\ job.copy = copy
      /\ job.batch = batch
  BY <1>4, <1>6, IdleIs DEF Job, Working
<1>8. req' = [req EXCEPT ![w] = job] /\ Aside
  BY <1>1, <1>3, <1>5 DEF TakeExpired, Become, Aside, tables, history
<1> HIDE DEF job
<1>9. req'[w] = job /\ req' \in [Workers -> Job] /\ Others(w) /\ Aside
  BY <1>7, <1>8 DEF Typed, Others
<1> QED BY <1>0, <1>1, <1>3, <1>4, <1>6, <1>7, <1>9

(* The statements that go on with the same referral.                       *)
Same(w) == /\ req'[w].id = req[w].id /\ req'[w].copy = req[w].copy /\ req'[w].op = req[w].op
           /\ req'[w].batch = req[w].batch

LEMMA WriteIs ==
  ASSUME Typed, NEW w \in Workers, Insert(w) \/ Write(w)
  PROVE  /\ req' \in [Workers -> Job] /\ Others(w) /\ Same(w)
         /\ UNCHANGED <<used, rows, events, alerts, excused, crashes>>
         /\ req[w].pc \in {"insert", "write"} /\ req'[w].pc = "event" /\ req'[w].prev = req[w].prev
         /\ referral' = [referral EXCEPT ![req[w].id] = req[w].copy]
<1>0. req[w] \in Job
  BY DEF Typed
<1> DEFINE job == [req[w] EXCEPT !.pc = "event"]
<1>1. job \in Job /\ job.pc = "event" /\ job.op = req[w].op /\ job.id = req[w].id
      /\ job.copy = req[w].copy /\ job.batch = req[w].batch /\ job.prev = req[w].prev
  BY <1>0 DEF Job, Working
<1>2. /\ req' = [req EXCEPT ![w] = job] /\ req[w].pc \in {"insert", "write"}
      /\ UNCHANGED <<used, rows, events, alerts, excused, crashes>>
      /\ referral' = [referral EXCEPT ![req[w].id] = req[w].copy]
  BY DEF Insert, Write, Become, At, history
<1> HIDE DEF job
<1> QED BY <1>1, <1>2 DEF Typed, Others, Same

LEMMA ReadPreviousIs ==
  ASSUME Typed, NEW w \in Workers, ReadPrevious(w)
  PROVE  /\ req' \in [Workers -> Job] /\ Others(w) /\ Same(w) /\ Aside
         /\ req[w].pc = "previous" /\ req'[w].pc = "write"
         /\ req'[w].prev = referral[req[w].id]
<1>0. req[w] \in Job /\ req[w].id \in Ids
  BY DEF Typed, ReadPrevious, At, Working
<1>1. PICK prev : prev = referral[req[w].id]
  OBVIOUS
<1>2. prev \in ReferralRow \cup {NoReferral}
  BY <1>0, <1>1 DEF Typed
<1> DEFINE job == [req[w] EXCEPT !.pc = "write", !.prev = prev]
<1>3. job \in Job /\ job.pc = "write" /\ job.op = req[w].op /\ job.id = req[w].id
      /\ job.copy = req[w].copy /\ job.batch = req[w].batch /\ job.prev = prev
  BY <1>0, <1>2 DEF Job, Working
<1>4. req' = [req EXCEPT ![w] = job] /\ req[w].pc = "previous" /\ Aside
  BY <1>1 DEF ReadPrevious, Become, At, Aside, tables, history
<1> HIDE DEF job
<1> QED BY <1>1, <1>3, <1>4 DEF Typed, Others, Same

LEMMA EmitEventIs ==
  ASSUME Typed, NEW w \in Workers, EmitEvent(w)
  PROVE  /\ req' \in [Workers -> Job] /\ Others(w) /\ Same(w)
         /\ UNCHANGED <<referral, used, rows, alerts, excused, crashes>>
         /\ req[w].pc = "event" /\ req'[w].pc = "has"
         /\ events' = events \cup (Reported(req[w]) \cap Registered)
<1>0. req[w] \in Job
  BY DEF Typed
<1> DEFINE job == [req[w] EXCEPT !.pc = "has", !.prev = NoReferral]
<1>1. job \in Job /\ job.pc = "has" /\ job.op = req[w].op /\ job.id = req[w].id
      /\ job.copy = req[w].copy /\ job.batch = req[w].batch
  BY <1>0 DEF Job, Working
<1>2. /\ req' = [req EXCEPT ![w] = job] /\ req[w].pc = "event"
      /\ UNCHANGED <<referral, used, rows, alerts, excused, crashes>>
      /\ events' = events \cup (Reported(req[w]) \cap Registered)
  BY DEF EmitEvent, Become, At, history
<1> HIDE DEF job
<1> QED BY <1>1, <1>2 DEF Typed, Others, Same

LEMMA ReadFlagIs ==
  ASSUME Typed, NEW w \in Workers, ReadHas(w) \/ ReadOpen(w)
  PROVE  /\ req' \in [Workers -> Job] /\ Others(w) /\ Same(w) /\ Aside
         /\ req[w].pc \in {"has", "open"} /\ req'[w].pc \in {"open", "row"}
<1>0. req[w] \in Job
  BY DEF Typed
<1>1. ASSUME ReadHas(w)
      PROVE  \E job \in Job : /\ req' = [req EXCEPT ![w] = job] /\ job.pc = "open"
               /\ job.op = req[w].op /\ job.id = req[w].id /\ job.copy = req[w].copy
               /\ job.batch = req[w].batch
  <2>1. PICK has \in BOOLEAN : has = HasReferral(referral, Group(w))
    BY FlagsBoolean
  <2> DEFINE job == [req[w] EXCEPT !.pc = "open", !.has = has]
  <2>2. job \in Job /\ job.pc = "open" /\ job.op = req[w].op /\ job.id = req[w].id
        /\ job.copy = req[w].copy /\ job.batch = req[w].batch
    BY <1>0 DEF Job, Working
  <2>3. req' = [req EXCEPT ![w] = job]
    BY <1>1, <2>1 DEF ReadHas, Become
  <2> QED BY <2>2, <2>3
<1>2. ASSUME ReadOpen(w)
      PROVE  \E job \in Job : /\ req' = [req EXCEPT ![w] = job] /\ job.pc = "row"
               /\ job.op = req[w].op /\ job.id = req[w].id /\ job.copy = req[w].copy
               /\ job.batch = req[w].batch
  <2>1. PICK open \in BOOLEAN : open = HasOpenReferral(referral, Group(w))
    BY FlagsBoolean
  <2> DEFINE job == [req[w] EXCEPT !.pc = "row", !.open = open]
  <2>2. job \in Job /\ job.pc = "row" /\ job.op = req[w].op /\ job.id = req[w].id
        /\ job.copy = req[w].copy /\ job.batch = req[w].batch
    BY <1>0 DEF Job, Working
  <2>3. req' = [req EXCEPT ![w] = job]
    BY <1>2, <2>1 DEF ReadOpen, Become
  <2> QED BY <2>2, <2>3
<1>3. Aside /\ req[w].pc \in {"has", "open"}
  BY DEF ReadHas, ReadOpen, At, Aside, tables, history
<1>4. PICK job \in Job : /\ req' = [req EXCEPT ![w] = job] /\ job.pc \in {"open", "row"}
               /\ job.op = req[w].op /\ job.id = req[w].id /\ job.copy = req[w].copy
               /\ job.batch = req[w].batch
  BY <1>1, <1>2
<1> QED BY <1>3, <1>4 DEF Typed, Others, Same

-----------------------------------------------------------------------------
(* The access rows, in key order.                                          *)

LEMMA LeastKey ==
  ASSUME NEW T \in SUBSET Nat, T # {}
  PROVE  \E x \in T : \A y \in T : x <= y
<1> DEFINE R == {ss \in Nat \X Nat : ss[1] < ss[2]}
<1>0. IsWellFoundedOn(R, Nat)
  BY NatLessThanWellFounded DEF OpToRel
<1>1. \E x \in T : \A y \in T : ~ (<<y, x>> \in R)
  <2> HIDE DEF R
  <2> QED BY <1>0, WFMin
<1>2. PICK x \in T : \A y \in T : ~ (<<y, x>> \in R)
  BY <1>1
<1>3. ASSUME NEW y \in T PROVE x <= y
  <2>1. x \in Nat /\ y \in Nat /\ <<y, x>> \notin R
    BY <1>2
  <2>2. <<y, x>> \in Nat \X Nat /\ <<y, x>>[1] = y /\ <<y, x>>[2] = x
    BY <2>1
  <2>3. ~(y < x)
    BY <2>1, <2>2
  <2> QED BY <2>1, <2>3
<1> QED BY <1>3

LEMMA FirstRowIs ==
  ASSUME NEW T \in Seq(Row), NEW g
  PROVE  \/ /\ FirstRow(T, g) = 0
            /\ \A pk \in DOMAIN T : T[pk].group = g => T[pk].row = NoRow
         \/ /\ FirstRow(T, g) \in DOMAIN T /\ FirstRow(T, g) # 0
            /\ T[FirstRow(T, g)].group = g /\ T[FirstRow(T, g)].row # NoRow
<1> DEFINE mine == {pk \in DOMAIN T : T[pk].group = g /\ T[pk].row # NoRow}
<1>1. DOMAIN T = 1..Len(T) /\ Len(T) \in Nat
  BY LenProperties
<1>2. CASE mine = {}
  BY <1>2 DEF FirstRow
<1>3. CASE mine # {}
  <2>1. \E pk \in mine : \A other \in mine : pk <= other
    <3>1. mine \in SUBSET Nat
      BY <1>1
    <3> HIDE DEF mine
    <3> QED BY <1>3, <3>1, LeastKey
  <2>2. FirstRow(T, g) = CHOOSE pk \in mine : \A other \in mine : pk <= other
    BY <1>3 DEF FirstRow
  <2>3. FirstRow(T, g) \in mine
    <3> HIDE DEF mine
    <3> QED BY <2>1, <2>2
  <2> QED BY <1>1, <2>3
<1> QED BY <1>2, <1>3

LEMMA PutRow ==
  ASSUME NEW T \in Seq(Row), NEW pk \in DOMAIN T, NEW row \in AccessRow \cup {NoRow}
  PROVE  LET N == [T EXCEPT ![pk].row = row] IN
         /\ N \in Seq(Row) /\ DOMAIN N = DOMAIN T
         /\ \A i \in DOMAIN T : /\ N[i].group = T[i].group
                                /\ N[i].row = IF i = pk THEN row ELSE T[i].row
<1>1. DOMAIN T = 1..Len(T) /\ Len(T) \in Nat /\ T[pk] \in Row
  BY LenProperties, ElementOfSeq
<1>2. PICK new : new = [T[pk] EXCEPT !.row = row]
  OBVIOUS
<1>3. new \in Row /\ new.group = T[pk].group /\ new.row = row
  BY <1>1, <1>2 DEF Row
<1>4. [T EXCEPT ![pk].row = row] = [T EXCEPT ![pk] = new]
  BY <1>2
<1>5. /\ [T EXCEPT ![pk] = new] \in Seq(Row) /\ Len([T EXCEPT ![pk] = new]) = Len(T)
      /\ \A j \in 1..Len(T) : [T EXCEPT ![pk] = new][j] = IF j = pk THEN new ELSE T[j]
  BY <1>1, <1>3, ExceptSeq
<1> QED BY <1>1, <1>3, <1>4, <1>5

LEMMA AddRow ==
  ASSUME NEW T \in Seq(Row), NEW new \in Row
  PROVE  /\ Append(T, new) \in Seq(Row) /\ DOMAIN Append(T, new) = DOMAIN T \cup {Len(T) + 1}
         /\ Len(T) + 1 \notin DOMAIN T /\ Append(T, new)[Len(T) + 1] = new
         /\ \A i \in DOMAIN T : Append(T, new)[i] = T[i]
<1>1. DOMAIN T = 1..Len(T) /\ Len(T) \in Nat
  BY LenProperties
<1>2. /\ Append(T, new) \in Seq(Row) /\ Len(Append(T, new)) = Len(T) + 1
      /\ \A i \in 1..Len(T) : Append(T, new)[i] = T[i]
      /\ Append(T, new)[Len(T) + 1] = new
  BY AppendProperties
<1>3. DOMAIN Append(T, new) = 1..(Len(T) + 1)
  BY <1>2, LenProperties
<1> QED BY <1>1, <1>2, <1>3

NoneLive(T, g) == \A pk \in DOMAIN T : T[pk].group = g => T[pk].row = NoRow

LEMMA SyncedRowsIs ==
  ASSUME NEW T \in Seq(Row), NEW table, NEW g \in Groups
  PROVE  /\ SyncedRows(table, T, g) \in Seq(Row)
         /\ \/ SyncedRows(table, T, g) = T
            \/ \E pk \in DOMAIN T, has, open \in BOOLEAN :
                 /\ open => has
                 /\ T[pk].group = g /\ T[pk].row \in AccessRow
                 /\ SyncedRows(table, T, g) = [T EXCEPT ![pk].row = Synced(T[pk].row, has, open)]
            \/ \E row \in AccessRow :
                 /\ NoneLive(T, g)
                 /\ SyncedRows(table, T, g) = Append(T, [group |-> g, row |-> row])
<1>1. PICK pk : pk = FirstRow(T, g)
  OBVIOUS
<1>2. PICK has \in BOOLEAN, open \in BOOLEAN :
        has = HasReferral(table, g) /\ open = HasOpenReferral(table, g)
  BY FlagsBoolean
<1>3. open => has
  BY <1>2, OpenReferralIsReferral
<1>4. CASE pk # 0
  <2>1. pk \in DOMAIN T /\ T[pk].group = g /\ T[pk].row # NoRow
    BY <1>1, <1>4, FirstRowIs
  <2>2. T[pk].row \in AccessRow
    <3>1. T[pk] \in Row
      BY <2>1, LenProperties, ElementOfSeq
    <3> QED BY <2>1, <3>1 DEF Row
  <2>3. SyncedRows(table, T, g) = [T EXCEPT ![pk].row = Synced(T[pk].row, has, open)]
    BY <1>1, <1>2, <1>4 DEF SyncedRows, RowOf
  <2>4. Synced(T[pk].row, has, open) \in AccessRow \cup {NoRow}
    BY <1>3, <2>2, SyncedRow
  <2>5. SyncedRows(table, T, g) \in Seq(Row)
    BY <2>1, <2>3, <2>4, PutRow
  <2> QED BY <1>3, <2>1, <2>2, <2>3, <2>5
<1>5. CASE pk = 0
  <2>1. PICK row : row = Synced(NoRow, has, open)
    OBVIOUS
  <2>2. row \in AccessRow \cup {NoRow}
    BY <1>3, <2>1, SyncedRow
  <2>3. SyncedRows(table, T, g) = IF row = NoRow THEN T ELSE Append(T, [group |-> g, row |-> row])
    BY <1>1, <1>2, <1>5, <2>1 DEF SyncedRows, RowOf
  <2>4. NoneLive(T, g)
    <3>1. \/ \A i \in DOMAIN T : T[i].group = g => T[i].row = NoRow
          \/ FirstRow(T, g) # 0
      BY FirstRowIs
    <3> QED BY <1>1, <1>5, <3>1 DEF NoneLive
  <2>5. CASE row = NoRow
    BY <2>3, <2>5
  <2>6. CASE row # NoRow
    <3>1. [group |-> g, row |-> row] \in Row
      BY <2>2 DEF Row
    <3> QED BY <2>2, <2>3, <2>4, <2>6, <3>1, AddRow
  <2> QED BY <2>5, <2>6
<1> QED BY <1>4, <1>5

(* What every write of a table of rows spares: a row that is gone stays    *)
(* so, what created a row and whether its edit was given do not change,    *)
(* and an organic row loses only what a referral raised.                   *)
Spares(T, N) ==
  \A pk \in DOMAIN T :
    /\ pk \in DOMAIN N
    /\ N[pk].group = T[pk].group
    /\ N[pk].row # NoRow => /\ T[pk].row # NoRow
                            /\ N[pk].row.origin = T[pk].row.origin
                            /\ Held(N[pk].row) <=> Held(T[pk].row)
    /\ T[pk].row # NoRow /\ T[pk].row.origin = "organic" =>
         /\ N[pk].row # NoRow
         /\ T[pk].row.caps \ N[pk].row.caps \subseteq T[pk].row.raised

LEMMA RowType ==
  ASSUME NEW T \in Seq(Row), NEW pk \in DOMAIN T, T[pk].row # NoRow
  PROVE  T[pk].row \in AccessRow
<1>1. T[pk] \in Row
  BY LenProperties, ElementOfSeq
<1> QED BY <1>1 DEF Row

LEMMA SparesTwice ==
  ASSUME NEW T \in Seq(Row), NEW M \in Seq(Row), NEW N \in Seq(Row), Spares(T, M), Spares(M, N)
  PROVE  Spares(T, N)
<1> SUFFICES ASSUME NEW pk \in DOMAIN T
             PROVE  /\ pk \in DOMAIN N
                    /\ N[pk].group = T[pk].group
                    /\ N[pk].row # NoRow => /\ T[pk].row # NoRow
                                            /\ N[pk].row.origin = T[pk].row.origin
                                            /\ Held(N[pk].row) <=> Held(T[pk].row)
                    /\ T[pk].row # NoRow /\ T[pk].row.origin = "organic" =>
                         /\ N[pk].row # NoRow
                         /\ T[pk].row.caps \ N[pk].row.caps \subseteq T[pk].row.raised
  BY DEF Spares
<1>1. pk \in DOMAIN M /\ pk \in DOMAIN N
  BY DEF Spares
<1>2. ASSUME T[pk].row # NoRow, T[pk].row.origin = "organic"
      PROVE  /\ N[pk].row # NoRow
             /\ T[pk].row.caps \ N[pk].row.caps \subseteq T[pk].row.raised
  <2>1. /\ M[pk].row # NoRow /\ M[pk].row.origin = "organic" /\ N[pk].row # NoRow
        /\ T[pk].row.caps \ M[pk].row.caps \subseteq T[pk].row.raised
        /\ M[pk].row.caps \ N[pk].row.caps \subseteq M[pk].row.raised
        /\ Held(M[pk].row) <=> Held(T[pk].row)
    BY <1>1, <1>2 DEF Spares
  <2>2. T[pk].row.raised \in SUBSET {"edit"} /\ M[pk].row.raised \in SUBSET {"edit"}
    BY <1>1, <1>2, <2>1, RowType DEF AccessRow
  <2> QED BY <2>1, <2>2 DEF Held
<1> QED BY <1>1, <1>2 DEF Spares

LEMMA SparesPut ==
  ASSUME NEW T \in Seq(Row), NEW pk \in DOMAIN T, NEW row \in AccessRow \cup {NoRow},
         row # NoRow => /\ T[pk].row # NoRow /\ row.origin = T[pk].row.origin
                        /\ Held(row) <=> Held(T[pk].row),
         T[pk].row # NoRow /\ T[pk].row.origin = "organic" =>
           row # NoRow /\ T[pk].row.caps \ row.caps \subseteq T[pk].row.raised
  PROVE  Spares(T, [T EXCEPT ![pk].row = row])
<1> DEFINE N == [T EXCEPT ![pk].row = row]
<1>1. /\ DOMAIN N = DOMAIN T
      /\ \A i \in DOMAIN T : N[i].group = T[i].group /\ N[i].row = IF i = pk THEN row ELSE T[i].row
  BY PutRow
<1> HIDE DEF N
<1>2. Spares(T, N)
  BY <1>1 DEF Spares
<1> QED BY <1>2 DEF N

LEMMA SparesSame == ASSUME NEW T PROVE Spares(T, T)
BY DEF Spares

LEMMA SparesAdd ==
  ASSUME NEW T \in Seq(Row), NEW new \in Row
  PROVE  Spares(T, Append(T, new))
BY AddRow DEF Spares

LEMMA AlignedIs ==
  ASSUME NEW row \in AccessRow, NEW open \in BOOLEAN
  PROVE  /\ Aligned(row, open) \in AccessRow
         /\ Aligned(row, open).origin = row.origin
         /\ Held(Aligned(row, open)) <=> Held(row)
         /\ "edit" \in row.caps /\ "edit" \notin Aligned(row, open).caps => row.raised # {}
<1>1. CASE open
  BY <1>1, RowsAssumption DEF Aligned, Raise, AccessRow, Held
<1>2. CASE ~open
  BY <1>2, RowsAssumption DEF Aligned, Lower, AccessRow, Held
<1> QED BY <1>1, <1>2

LEMMA SparesSync ==
  ASSUME NEW T \in Seq(Row), NEW table, NEW g \in Groups
  PROVE  Spares(T, SyncedRows(table, T, g))
<1>1. ASSUME NEW pk \in DOMAIN T, NEW has \in BOOLEAN, NEW open \in BOOLEAN, open => has,
             T[pk].row \in AccessRow,
             SyncedRows(table, T, g) = [T EXCEPT ![pk].row = Synced(T[pk].row, has, open)]
      PROVE  Spares(T, SyncedRows(table, T, g))
  <2>1. PICK old \in AccessRow : old = T[pk].row
    BY <1>1
  <2>2. PICK new : new = Synced(old, has, open)
    OBVIOUS
  <2>3. new \in AccessRow \cup {NoRow}
    BY <1>1, <2>2, SyncedRow
  <2>4. /\ new = NoRow => old.origin = "referral"
        /\ new # NoRow => old.caps \ new.caps \subseteq old.raised /\ new.origin = old.origin
    BY <2>2, SyncedMovesOnlyItsOwn
  <2>5. new # NoRow => (Held(new) <=> Held(old))
    BY <2>2, AlignedIs, RowsAssumption DEF Synced
  <2>6. old # NoRow
    BY RowsAssumption
  <2>7. Spares(T, [T EXCEPT ![pk].row = new])
    BY <2>1, <2>3, <2>4, <2>5, <2>6, SparesPut
  <2> QED BY <1>1, <2>1, <2>2, <2>7
<1>2. ASSUME NEW row \in AccessRow, SyncedRows(table, T, g) = Append(T, [group |-> g, row |-> row])
      PROVE  Spares(T, SyncedRows(table, T, g))
  <2>1. [group |-> g, row |-> row] \in Row
    BY DEF Row
  <2> QED BY <1>2, <2>1, SparesAdd
<1> QED BY <1>1, <1>2, SyncedRowsIs, SparesSame

-----------------------------------------------------------------------------
(* The statements that touch access rows.                                  *)

LEMMA ReadRowIs ==
  ASSUME Typed, NEW w \in Workers, ReadRow(w)
  PROVE  /\ req' \in [Workers -> Job] /\ Others(w) /\ Same(w) /\ Aside
         /\ req[w].pc = "row" /\ req'[w].pc = "grant"
         /\ \/ req'[w].seen = NoRow /\ NoneLive(rows, req[w].copy.to)
            \/ /\ req'[w].seen # NoRow /\ req'[w].pk \in DOMAIN rows
               /\ rows[req'[w].pk].row = req'[w].seen
<1>0. req[w] \in Job /\ DOMAIN rows \subseteq Nat
  BY LenProperties DEF Typed
<1>1. PICK pk, seen : pk = FirstRow(rows, Group(w)) /\ seen = RowOf(rows, pk)
  OBVIOUS
<1>2. \/ pk = 0 /\ seen = NoRow /\ NoneLive(rows, req[w].copy.to)
      \/ pk \in DOMAIN rows /\ seen = rows[pk].row /\ seen # NoRow
  BY <1>1, FirstRowIs DEF RowOf, NoneLive, Group, Typed
<1>3. pk \in Nat /\ seen \in AccessRow \cup {NoRow}
  BY <1>0, <1>2, RowType DEF Typed
<1> DEFINE job == [req[w] EXCEPT !.pc = "grant", !.pk = pk, !.seen = seen]
<1>4. job \in Job /\ job.pc = "grant" /\ job.op = req[w].op /\ job.id = req[w].id
      /\ job.copy = req[w].copy /\ job.batch = req[w].batch /\ job.pk = pk /\ job.seen = seen
  BY <1>0, <1>3 DEF Job, Working
<1>5. req' = [req EXCEPT ![w] = job] /\ req[w].pc = "row" /\ Aside
  BY <1>1 DEF ReadRow, Become, At, Aside, tables, history
<1> HIDE DEF job
<1> QED BY <1>2, <1>4, <1>5 DEF Typed, Others, Same

LEMMA InStepNowIs ==
  ASSUME NEW job \in Job
  PROVE  LET next == InStepNow(job) IN
         /\ next \in Job /\ next.pc = "alert" /\ next.id = job.id /\ next.copy = job.copy
         /\ next.op = job.op /\ next.batch = job.batch
BY RowsAssumption DEF InStepNow, Job, Working

LEMMA CreateRowIs ==
  ASSUME Typed, NEW w \in Workers, CreateRow(w)
  PROVE  /\ req' \in [Workers -> Job] /\ Others(w) /\ Same(w)
         /\ UNCHANGED <<referral, used, events, alerts, excused, crashes>>
         /\ req[w].pc = "grant" /\ req'[w].pc = "alert" /\ req[w].seen = NoRow
         /\ \/ rows' = rows
            \/ \E row \in AccessRow : rows' = Append(rows, [group |-> req[w].copy.to, row |-> row])
<1>1. PICK job : job = InStepNow(req[w])
  OBVIOUS
<1>2. job \in Job /\ job.pc = "alert" /\ job.id = req[w].id /\ job.copy = req[w].copy
      /\ job.op = req[w].op /\ job.batch = req[w].batch
  BY <1>1, InStepNowIs DEF Typed
<1>3. /\ req' = [req EXCEPT ![w] = job] /\ req[w].pc = "grant" /\ req[w].seen = NoRow
      /\ UNCHANGED <<referral, used, events, alerts, excused, crashes>>
  BY <1>1 DEF CreateRow, Become, At, history
<1>4. NewRow(req[w].open) \in AccessRow
  BY RowsAssumption DEF NewRow, AccessRow
<1>5. \/ rows' = rows
      \/ \E row \in AccessRow : rows' = Append(rows, [group |-> req[w].copy.to, row |-> row])
  BY <1>4 DEF CreateRow, Group
<1> QED BY <1>2, <1>3, <1>5 DEF Typed, Others, Same

LEMMA UpdateRowIs ==
  ASSUME Typed, NEW w \in Workers, UpdateRow(w)
  PROVE  /\ req' \in [Workers -> Job] /\ Others(w)
         /\ UNCHANGED <<referral, used, events, alerts, excused, crashes>>
         /\ req[w].pc = "grant" /\ req[w].seen # NoRow
         /\ \/ req'[w].pc = "idle" /\ req'[w].batch = <<>>
            \/ req'[w].pc = "alert" /\ Same(w)
            \/ /\ req'[w].pc = "drop" /\ Same(w) /\ req'[w].pk = req[w].pk
               /\ req'[w].seen = req[w].seen /\ req[w].seen.origin = "referral"
         /\ \/ rows' = rows
            \/ /\ rows[req[w].pk].row # NoRow
               /\ \E open \in BOOLEAN :
                    rows' = [rows EXCEPT ![req[w].pk].row =
                               Written(rows[req[w].pk].row, Aligned(req[w].seen, open))]
<1>0. req[w] \in Job /\ req[w].seen # NoRow /\ req[w].pc = "grant"
  BY DEF Typed, UpdateRow, At
<1>1. PICK open \in BOOLEAN : open = req[w].open
  BY <1>0 DEF Job
<1>2. \/ rows' = rows
      \/ /\ rows[req[w].pk].row # NoRow
         /\ rows' = [rows EXCEPT ![req[w].pk].row =
                       Written(rows[req[w].pk].row, Aligned(req[w].seen, open))]
  BY <1>1 DEF UpdateRow, Live
<1> DEFINE drop == [req[w] EXCEPT !.pc = "drop"]
<1>3. drop \in Job /\ drop.pc = "drop" /\ drop.id = req[w].id /\ drop.copy = req[w].copy
      /\ drop.op = req[w].op /\ drop.batch = req[w].batch /\ drop.pk = req[w].pk
      /\ drop.seen = req[w].seen
  BY <1>0 DEF Job, Working
<1>4. PICK next : next = InStepNow(req[w])
  OBVIOUS
<1>5. next \in Job /\ next.pc = "alert" /\ next.id = req[w].id /\ next.copy = req[w].copy
      /\ next.op = req[w].op /\ next.batch = req[w].batch
  BY <1>0, <1>4, InStepNowIs
<1>6. PICK job \in {Idle, drop, next} :
        req' = [req EXCEPT ![w] = job] /\ (job = drop => req[w].seen.origin = "referral")
  <2>1. Become(w, Idle) \/ (Become(w, drop) /\ req[w].seen.origin = "referral") \/ Become(w, next)
    BY <1>4 DEF UpdateRow
  <2>2. drop # Idle /\ drop # next
    BY <1>3, <1>5, IdleIs
  <2> HIDE DEF drop
  <2> QED BY <2>1, <2>2 DEF Become
<1>7. UNCHANGED <<referral, used, events, alerts, excused, crashes>>
  BY DEF UpdateRow, history
<1>8. job \in Job
  BY <1>3, <1>5, IdleIs
<1> HIDE DEF drop
<1>9. \/ job.pc = "idle" /\ job.batch = <<>>
      \/ /\ job.pc = "alert" /\ job.id = req[w].id /\ job.copy = req[w].copy
         /\ job.op = req[w].op /\ job.batch = req[w].batch
      \/ /\ job.pc = "drop" /\ job.id = req[w].id /\ job.copy = req[w].copy
         /\ job.op = req[w].op /\ job.batch = req[w].batch /\ job.pk = req[w].pk
         /\ job.seen = req[w].seen /\ req[w].seen.origin = "referral"
  BY <1>3, <1>5, <1>6, IdleIs
<1>10. req'[w] = job /\ req' \in [Workers -> Job] /\ Others(w)
  BY <1>6, <1>8 DEF Typed, Others
<1> QED BY <1>0, <1>2, <1>7, <1>9, <1>10 DEF Same

LEMMA DropRowIs ==
  ASSUME Typed, NEW w \in Workers, DropRow(w)
  PROVE  /\ req' \in [Workers -> Job] /\ Others(w) /\ Same(w)
         /\ UNCHANGED <<referral, used, events, alerts, excused, crashes>>
         /\ req[w].pc = "drop" /\ req'[w].pc = "alert"
         /\ rows' = [rows EXCEPT ![req[w].pk].row = NoRow]
<1>1. PICK job : job = InStepNow(req[w])
  OBVIOUS
<1>2. job \in Job /\ job.pc = "alert" /\ job.id = req[w].id /\ job.copy = req[w].copy
      /\ job.op = req[w].op /\ job.batch = req[w].batch
  BY <1>1, InStepNowIs DEF Typed
<1>3. /\ req' = [req EXCEPT ![w] = job] /\ req[w].pc = "drop"
      /\ UNCHANGED <<referral, used, events, alerts, excused, crashes>>
      /\ rows' = [rows EXCEPT ![req[w].pk].row = NoRow]
  BY <1>1 DEF DropRow, Become, At, history
<1> QED BY <1>2, <1>3 DEF Typed, Others, Same

LEMMA SendAlertIs ==
  ASSUME Typed, NEW w \in Workers, SendAlert(w)
  PROVE  /\ req' \in [Workers -> Job] /\ Others(w)
         /\ UNCHANGED <<referral, used, rows, events, excused, crashes>>
         /\ req[w].pc = "alert" /\ req'[w].pc \in {"idle", "batch"}
         /\ DOMAIN req'[w].batch \subseteq DOMAIN req[w].batch
<1>0. req[w] \in Job
  BY DEF Typed
<1> DEFINE on == [Idle EXCEPT !.pc = "batch", !.batch = req[w].batch]
<1>1. on \in Job /\ on.pc = "batch" /\ on.batch = req[w].batch
  BY <1>0, IdleIs DEF Job
<1>2. PICK job : job = IF req[w].batch = <<>> THEN Idle ELSE on
  OBVIOUS
<1>3. job \in Job /\ job.pc \in {"idle", "batch"} /\ DOMAIN job.batch \subseteq DOMAIN req[w].batch
  <2>1. CASE req[w].batch = <<>>
    BY <1>2, <2>1, IdleIs
  <2>2. CASE req[w].batch # <<>>
    <3> HIDE DEF on
    <3> QED BY <1>1, <1>2, <2>2
  <2> QED BY <2>1, <2>2
<1>4. /\ req' = [req EXCEPT ![w] = job] /\ req[w].pc = "alert"
      /\ UNCHANGED <<referral, used, rows, events, excused, crashes>>
  BY <1>2 DEF SendAlert, Become, At, history
<1> QED BY <1>3, <1>4 DEF Typed, Others

(* The admin's transaction: both groups synchronised, one after the other. *)
LEMMA CommitSaveIs ==
  ASSUME Typed, NEW w \in Workers, CommitSave(w)
  PROVE  /\ req' \in [Workers -> Job] /\ Others(w)
         /\ UNCHANGED <<used, alerts, excused, crashes>>
         /\ req[w].pc = "commit" /\ req'[w].pc = "idle" /\ req'[w].batch = <<>>
         /\ req[w].op = "saved"
         /\ referral' = [referral EXCEPT ![req[w].id] = req[w].copy]
         /\ events' = events \cup (Reported([req[w] EXCEPT !.prev = referral[req[w].id]]) \cap Registered)
         /\ \E table :
              \/ rows' = SyncedRows(table, rows, req[w].copy.to)
              \/ \E g \in Groups :
                   rows' = SyncedRows(table, SyncedRows(table, rows, req[w].copy.to), g)
<1>1. req' = [req EXCEPT ![w] = Idle] /\ req[w].pc = "commit" /\ req[w].op = "saved"
      /\ UNCHANGED <<used, alerts, excused, crashes>>
      /\ referral' = [referral EXCEPT ![req[w].id] = req[w].copy]
      /\ events' = events \cup (Reported([req[w] EXCEPT !.prev = referral[req[w].id]]) \cap Registered)
  BY DEF CommitSave, Become, At, history
<1>2. req[w].id \in Ids /\ req[w].copy \in ReferralRow
  BY <1>1 DEF Typed, Working
<1>3. PICK prev : prev = referral[req[w].id]
  OBVIOUS
<1>4. prev # NoReferral => prev.to \in Groups
  BY <1>2, <1>3 DEF Typed, ReferralRow
<1>5. PICK table : table = [referral EXCEPT ![req[w].id] = req[w].copy]
  OBVIOUS
<1>6. \/ rows' = SyncedRows(table, rows, req[w].copy.to)
      \/ prev # NoReferral /\ rows' = SyncedRows(table, SyncedRows(table, rows, req[w].copy.to), prev.to)
  BY <1>3, <1>5 DEF CommitSave
<1> QED BY <1>1, <1>4, <1>6, IdleIs DEF Typed, Others

LEMMA CommitDeleteIs ==
  ASSUME Typed, NEW w \in Workers, CommitDelete(w)
  PROVE  /\ req' \in [Workers -> Job] /\ Others(w)
         /\ UNCHANGED <<used, events, alerts, crashes>>
         /\ req[w].pc = "commit" /\ req'[w].pc = "idle" /\ req'[w].batch = <<>>
         /\ referral' = [referral EXCEPT ![req[w].id] = NoReferral]
         /\ excused' = excused \cup {req[w].id}
         /\ \E table : rows' = SyncedRows(table, rows, req[w].copy.to)
<1>1. /\ req' = [req EXCEPT ![w] = Idle] /\ req[w].pc = "commit"
      /\ UNCHANGED <<used, events, alerts, crashes>>
      /\ referral' = [referral EXCEPT ![req[w].id] = NoReferral]
      /\ excused' = excused \cup {req[w].id}
      /\ \E table : rows' = SyncedRows(table, rows, req[w].copy.to)
  BY DEF CommitDelete, Become, At
<1> QED BY <1>1, IdleIs DEF Typed, Others

LEMMA CrashIs ==
  ASSUME Typed, NEW w \in Workers, Crash(w)
  PROVE  /\ req' \in [Workers -> Job] /\ Others(w)
         /\ UNCHANGED <<referral, used, rows, events, alerts>>
         /\ req'[w].pc = "idle" /\ req'[w].batch = <<>>
         /\ excused' = excused \cup (IF req[w].pc = "event" THEN {req[w].id} ELSE {})
<1>1. /\ req' = [req EXCEPT ![w] = Idle]
      /\ UNCHANGED <<referral, used, rows, events, alerts>>
      /\ excused' = excused \cup (IF req[w].pc = "event" THEN {req[w].id} ELSE {})
  BY DEF Crash, Become, At, tables
<1> QED BY <1>1, IdleIs DEF Typed, Others

LEMMA WidenIs ==
  ASSUME Typed, NEW pk \in DOMAIN rows, NEW more \in AdminGrants, AdminWidenRow(pk, more)
  PROVE  /\ UNCHANGED <<referral, used, events, alerts, req, excused, crashes>>
         /\ rows[pk].row \in AccessRow
         /\ \E row \in AccessRow :
              /\ row.caps = rows[pk].row.caps \cup more /\ row.raised = rows[pk].row.raised
              /\ row.origin = rows[pk].row.origin
              /\ rows' = [rows EXCEPT ![pk].row = row]
<1>1. rows[pk].row \in AccessRow
  BY RowType DEF AdminWidenRow, Live, Typed
<1>2. more \in SUBSET Capabilities
  BY RequestsAssumption
<1>3. PICK row : row = [rows[pk].row EXCEPT !.caps = @ \cup more]
  OBVIOUS
<1>4. row \in AccessRow /\ row.caps = rows[pk].row.caps \cup more
      /\ row.raised = rows[pk].row.raised /\ row.origin = rows[pk].row.origin
  BY <1>1, <1>2, <1>3 DEF AccessRow
<1>5. rows' = [rows EXCEPT ![pk].row = row]
  BY <1>3 DEF AdminWidenRow
<1> QED BY <1>1, <1>4, <1>5 DEF AdminWidenRow, history

-----------------------------------------------------------------------------
LEMMA WrittenIs ==
  ASSUME NEW current \in AccessRow, NEW aligned \in AccessRow
  PROVE  /\ Written(current, aligned) \in AccessRow
         /\ Written(current, aligned).origin = current.origin
         /\ Written(current, aligned).raised = aligned.raised
         /\ Written(current, aligned).caps =
              (current.caps \ {"edit"}) \cup (aligned.caps \cap {"edit"})
BY DEF Written, AccessRow

LEMMA SyncGrows ==
  ASSUME NEW T \in Seq(Row), NEW table, NEW g \in Groups
  PROVE  SyncedRows(table, T, g) \in Seq(Row) /\ DOMAIN T \subseteq DOMAIN SyncedRows(table, T, g)
BY SyncedRowsIs, SparesSync DEF Spares

LEMMA TypedInit == RequestsInit => Typed
<1> SUFFICES ASSUME RequestsInit PROVE Typed
  OBVIOUS
<1>1. rows \in Seq(Row)
  <2>1. PICK n \in 0..MaxRows : \E of \in [1..n -> Groups], caps \in [1..n -> GrantCaps] :
          rows = [pk \in 1..n |-> [group |-> of[pk], row |-> OrganicRow(caps[pk])]]
    BY DEF RequestsInit
  <2>2. PICK of \in [1..n -> Groups] : \E caps \in [1..n -> GrantCaps] :
          rows = [pk \in 1..n |-> [group |-> of[pk], row |-> OrganicRow(caps[pk])]]
    BY <2>1
  <2>3. PICK caps \in [1..n -> GrantCaps] :
          rows = [pk \in 1..n |-> [group |-> of[pk], row |-> OrganicRow(caps[pk])]]
    BY <2>2
  <2>4. ASSUME NEW pk \in 1..n
        PROVE  [group |-> of[pk], row |-> OrganicRow(caps[pk])] \in Row
    BY RowsAssumption DEF OrganicRow, Row, AccessRow
  <2>5. n \in Nat
    BY RequestsAssumption
  <2> QED BY <2>3, <2>4, <2>5
<1>2. req \in [Workers -> Job] /\ \A w \in Workers : req[w].pc = "idle"
  BY IdleIs DEF RequestsInit
<1>3. referral \in [Ids -> ReferralRow \cup {NoReferral}]
  BY DEF RequestsInit
<1> QED BY <1>1, <1>2, <1>3 DEF Typed, Working

LEMMA TypedNext == Typed /\ [RequestsNext]_allVars => Typed'
<1> SUFFICES ASSUME Typed, [RequestsNext]_allVars PROVE Typed'
  OBVIOUS
<1> USE DEF Others, Working
<1>1. ASSUME NEW w \in Workers, NEW r \in Ids, LoadOne(w, r)
      PROVE  Typed'
  <2>1. ASSUME NEW g \in Groups, LoadRefer(w, r, g) PROVE Typed'
    <3>1. [to |-> g, status |-> "open"] \in ReferralRow
      BY DEF ReferralRow
    <3>2. [to |-> g, status |-> "open"].status = "open"
      OBVIOUS
    <3> QED BY <2>1, <3>1, <3>2, LoadReferIs DEF Typed
  <2>2. ASSUME NEW status \in {"responded", "recalled"}, LoadClose(w, r, status) PROVE Typed'
    <3>1. PICK copy : copy = [referral[r] EXCEPT !.status = status]
      OBVIOUS
    <3>2. copy \in ReferralRow
      BY <2>2, <3>1 DEF LoadClose, Typed, ReferralRow
    <3>3. Begin(w, "previous", status, r, copy)
      BY <2>2, <3>1 DEF LoadClose
    <3> QED BY <3>2, <3>3, BeginIs DEF Typed, Aside
  <2>3. ASSUME NEW row \in AdminRows, LoadAdminSave(w, r, row) PROVE Typed'
    BY <2>3, RowsAssumption, BeginIs DEF LoadAdminSave, Typed, Aside
  <2>4. ASSUME LoadDelete(w, r) PROVE Typed'
    <3>1. referral[r] \in ReferralRow /\ Begin(w, "commit", "deleted", r, referral[r])
      BY <2>4 DEF LoadDelete, Typed
    <3> QED BY <3>1, BeginIs DEF Typed, Aside
  <2> QED BY <1>1, <2>1, <2>2, <2>3, <2>4 DEF LoadOne
<1>2. ASSUME NEW w \in Workers, NEW R \in SUBSET Ids, SelectExpired(w, R) PROVE Typed'
  BY <1>2, SelectExpiredIs DEF Typed, Aside
<1>3. ASSUME NEW w \in Workers, NEW r \in Ids, TakeExpired(w, r) PROVE Typed'
  <2>1. /\ req' \in [Workers -> Job] /\ Others(w) /\ Aside /\ req'[w].pc = "previous"
        /\ req'[w].op = "expired" /\ req'[w].id = r /\ req'[w].copy \in ReferralRow
    BY <1>3, TakeExpiredIs
  <2> QED BY <2>1 DEF Typed, Aside
<1>4. ASSUME NEW w \in Workers, Insert(w) \/ Write(w) PROVE Typed'
  BY <1>4, WriteIs DEF Typed, Same
<1>5. ASSUME NEW w \in Workers, ReadPrevious(w) PROVE Typed'
  BY <1>5, ReadPreviousIs DEF Typed, Same, Aside
<1>6. ASSUME NEW w \in Workers, EmitEvent(w) PROVE Typed'
  BY <1>6, EmitEventIs DEF Typed, Same
<1>7. ASSUME NEW w \in Workers, ReadHas(w) \/ ReadOpen(w) PROVE Typed'
  BY <1>7, ReadFlagIs DEF Typed, Same, Aside
<1>8. ASSUME NEW w \in Workers, ReadRow(w) PROVE Typed'
  BY <1>8, ReadRowIs DEF Typed, Same, Aside
<1>9. ASSUME NEW w \in Workers, CreateRow(w) PROVE Typed'
  <2>1. req[w].copy.to \in Groups
    BY <1>9, CreateRowIs DEF Typed, ReferralRow
  <2>2. \A row \in AccessRow : [group |-> req[w].copy.to, row |-> row] \in Row
    BY <2>1 DEF Row
  <2>3. rows' \in Seq(Row) /\ DOMAIN rows \subseteq DOMAIN rows'
    <3>1. CASE rows' = rows
      BY <3>1 DEF Typed
    <3>2. ASSUME NEW row \in AccessRow, rows' = Append(rows, [group |-> req[w].copy.to, row |-> row])
          PROVE  rows' \in Seq(Row) /\ DOMAIN rows \subseteq DOMAIN rows'
      <4>1. PICK new \in Row : new = [group |-> req[w].copy.to, row |-> row]
        BY <2>2
      <4> QED BY <3>2, <4>1, AddRow DEF Typed
    <3> QED BY <1>9, <3>1, <3>2, CreateRowIs
  <2> QED BY <1>9, <2>3, CreateRowIs DEF Typed, Same
<1>10. ASSUME NEW w \in Workers, UpdateRow(w) PROVE Typed'
  <2>1. req[w].pk \in DOMAIN rows /\ req[w].seen \in AccessRow
    BY <1>10, UpdateRowIs DEF Typed, Job
  <2>2. rows' \in Seq(Row) /\ DOMAIN rows \subseteq DOMAIN rows'
    <3>1. CASE rows' = rows
      BY <3>1 DEF Typed
    <3>2. ASSUME rows[req[w].pk].row # NoRow, NEW open \in BOOLEAN,
                 rows' = [rows EXCEPT ![req[w].pk].row =
                               Written(rows[req[w].pk].row, Aligned(req[w].seen, open))]
          PROVE  rows' \in Seq(Row) /\ DOMAIN rows \subseteq DOMAIN rows'
      <4>1. PICK new : new = Written(rows[req[w].pk].row, Aligned(req[w].seen, open))
        OBVIOUS
      <4>2. new \in AccessRow
        BY <2>1, <3>2, <4>1, RowType, AlignedIs, WrittenIs DEF Typed
      <4> QED BY <2>1, <3>2, <4>1, <4>2, PutRow DEF Typed
    <3> QED BY <1>10, <3>1, <3>2, UpdateRowIs
  <2> QED BY <1>10, <2>1, <2>2, UpdateRowIs DEF Typed, Same
<1>11. ASSUME NEW w \in Workers, DropRow(w) PROVE Typed'
  <2>1. req[w].pk \in DOMAIN rows
    <3>1. req[w].pc = "drop"
      BY <1>11, DropRowIs
    <3> QED BY <3>1 DEF Typed
  <2>2. PICK gone \in AccessRow \cup {NoRow} : gone = NoRow
    OBVIOUS
  <2>3. rows' = [rows EXCEPT ![req[w].pk].row = gone]
    BY <1>11, <2>2, DropRowIs
  <2>4. rows \in Seq(Row)
    BY DEF Typed
  <2>5. rows' \in Seq(Row) /\ DOMAIN rows = DOMAIN rows'
    BY <2>1, <2>3, <2>4, PutRow
  <2>6. /\ req' \in [Workers -> Job] /\ Others(w) /\ Same(w) /\ UNCHANGED referral
        /\ req[w].pc = "drop" /\ req'[w].pc = "alert"
    BY <1>11, DropRowIs
  <2> QED BY <2>5, <2>6 DEF Typed, Same
<1>12. ASSUME NEW w \in Workers, SendAlert(w) PROVE Typed'
  BY <1>12, SendAlertIs DEF Typed
<1>13. ASSUME NEW w \in Workers, CommitSave(w) PROVE Typed'
  <2>1. req[w].copy \in ReferralRow /\ req[w].copy.to \in Groups
    BY <1>13, CommitSaveIs DEF Typed, ReferralRow
  <2>2. rows' \in Seq(Row) /\ DOMAIN rows \subseteq DOMAIN rows'
    <3>1. PICK table :
            \/ rows' = SyncedRows(table, rows, req[w].copy.to)
            \/ \E g \in Groups : rows' = SyncedRows(table, SyncedRows(table, rows, req[w].copy.to), g)
      BY <1>13, CommitSaveIs
    <3>2. PICK T : T = SyncedRows(table, rows, req[w].copy.to)
      OBVIOUS
    <3>3. T \in Seq(Row) /\ DOMAIN rows \subseteq DOMAIN T
      BY <2>1, <3>2, SyncGrows DEF Typed
    <3>4. rows' = T \/ \E g \in Groups : rows' = SyncedRows(table, T, g)
      BY <3>1, <3>2
    <3>5. ASSUME NEW g \in Groups, rows' = SyncedRows(table, T, g)
          PROVE  rows' \in Seq(Row) /\ DOMAIN T \subseteq DOMAIN rows'
      BY <3>3, <3>5, SyncGrows
    <3> QED BY <3>3, <3>4, <3>5
  <2>3. /\ req' \in [Workers -> Job] /\ Others(w) /\ req'[w].pc = "idle" /\ req[w].pc = "commit"
        /\ referral' = [referral EXCEPT ![req[w].id] = req[w].copy]
    BY <1>13, CommitSaveIs
  <2> QED BY <2>1, <2>2, <2>3 DEF Typed
<1>14. ASSUME NEW w \in Workers, CommitDelete(w) PROVE Typed'
  <2>1. req[w].copy.to \in Groups
    BY <1>14, CommitDeleteIs DEF Typed, ReferralRow
  <2>2. rows' \in Seq(Row) /\ DOMAIN rows \subseteq DOMAIN rows'
    BY <1>14, <2>1, CommitDeleteIs, SyncGrows DEF Typed
  <2> QED BY <1>14, <2>2, CommitDeleteIs DEF Typed
<1>15. ASSUME NEW w \in Workers, Crash(w) PROVE Typed'
  BY <1>15, CrashIs DEF Typed
<1>16. ASSUME NEW pk \in DOMAIN rows, NEW more \in AdminGrants, AdminWidenRow(pk, more)
       PROVE  Typed'
  <2>1. rows' \in Seq(Row) /\ DOMAIN rows = DOMAIN rows'
    BY <1>16, WidenIs, PutRow DEF Typed
  <2> QED BY <1>16, <2>1, WidenIs DEF Typed
<1>17. CASE UNCHANGED allVars
  BY <1>17 DEF allVars, tables, Typed
<1> QED BY <1>1, <1>2, <1>3, <1>4, <1>5, <1>6, <1>7, <1>8, <1>9, <1>10, <1>11, <1>12, <1>13, <1>14,
           <1>15, <1>16, <1>17 DEF RequestsNext, Load, Continue

-----------------------------------------------------------------------------
(* The bounds of the tables.                                               *)

Bounded == /\ used \subseteq Ids
           /\ Len(rows) <= MaxRows
           /\ events \subseteq Registered
           /\ alerts \subseteq Kinds
           /\ excused \subseteq Ids
           /\ crashes \in 0..MaxCrashes

LEMMA SameLength ==
  ASSUME NEW T \in Seq(Row), NEW N \in Seq(Row), DOMAIN N = DOMAIN T
  PROVE  Len(N) = Len(T)
<1>1. DOMAIN T = 1..Len(T) /\ Len(T) \in Nat /\ DOMAIN N = 1..Len(N) /\ Len(N) \in Nat
  BY LenProperties
<1> QED BY <1>1

LEMMA PutLength ==
  ASSUME NEW T \in Seq(Row), NEW pk \in DOMAIN T, NEW row \in AccessRow \cup {NoRow}
  PROVE  Len([T EXCEPT ![pk].row = row]) = Len(T)
<1>1. PICK N : N = [T EXCEPT ![pk].row = row]
  OBVIOUS
<1>2. N \in Seq(Row) /\ DOMAIN N = DOMAIN T
  BY <1>1, PutRow
<1> QED BY <1>1, <1>2, SameLength

LEMMA BoundedInit == RequestsInit => Bounded
<1> SUFFICES ASSUME RequestsInit PROVE Bounded
  OBVIOUS
<1>1. Len(rows) <= MaxRows
  <2>1. PICK n \in 0..MaxRows : \E of \in [1..n -> Groups], caps \in [1..n -> GrantCaps] :
          rows = [pk \in 1..n |-> [group |-> of[pk], row |-> OrganicRow(caps[pk])]]
    BY DEF RequestsInit
  <2>2. DOMAIN rows = 1..n /\ n \in Nat
    BY <2>1, RequestsAssumption
  <2>3. DOMAIN rows = 1..Len(rows) /\ Len(rows) \in Nat
    BY TypedInit, LenProperties DEF Typed
  <2> QED BY <2>2, <2>3, RequestsAssumption
<1> QED BY <1>1, RequestsAssumption DEF RequestsInit, Bounded

LEMMA BoundedNext == Typed /\ Bounded /\ [RequestsNext]_allVars => Bounded'
<1> SUFFICES ASSUME Typed, Bounded, [RequestsNext]_allVars PROVE Bounded'
  OBVIOUS
(* What a statement that adds to no table but `used` leaves behind.        *)
<1>1. ASSUME used' \subseteq Ids, UNCHANGED <<rows, events, alerts, excused, crashes>>
      PROVE  Bounded'
  BY <1>1 DEF Bounded
<1>2. ASSUME NEW w \in Workers, NEW r \in Ids, LoadOne(w, r)
      PROVE  Bounded'
  <2>1. used' \subseteq Ids /\ UNCHANGED <<rows, events, alerts, excused, crashes>>
    BY <1>2 DEF LoadOne, LoadRefer, LoadClose, LoadAdminSave, LoadDelete, Begin, tables, history,
                Bounded
  <2> QED BY <1>1, <2>1
<1>3. ASSUME NEW w \in Workers, NEW R \in SUBSET Ids, SelectExpired(w, R)
      PROVE  Bounded'
  BY <1>3 DEF SelectExpired, tables, history, Bounded
<1>4. ASSUME NEW w \in Workers, NEW r \in Ids, TakeExpired(w, r)
      PROVE  Bounded'
  BY <1>4 DEF TakeExpired, tables, history, Bounded
<1>5. ASSUME NEW w \in Workers, Insert(w) \/ Write(w) PROVE Bounded'
  BY <1>5 DEF Insert, Write, history, Bounded
<1>6. ASSUME NEW w \in Workers, ReadPrevious(w) \/ ReadHas(w) \/ ReadOpen(w) \/ ReadRow(w)
      PROVE  Bounded'
  BY <1>6 DEF ReadPrevious, ReadHas, ReadOpen, ReadRow, tables, history, Bounded
<1>7. ASSUME NEW w \in Workers, EmitEvent(w) PROVE Bounded'
  BY <1>7 DEF EmitEvent, history, Bounded
<1>8. ASSUME NEW w \in Workers, CreateRow(w) PROVE Bounded'
  <2>1. UNCHANGED <<used, events, alerts, excused, crashes>>
    BY <1>8 DEF CreateRow, history
  <2>2. req[w].copy.to \in Groups
    BY <1>8 DEF CreateRow, At, Typed, Working, ReferralRow
  <2>3. PICK new : new = [group |-> req[w].copy.to, row |-> NewRow(req[w].open)]
    OBVIOUS
  <2>4. NewRow(req[w].open) \in AccessRow
    BY RowsAssumption DEF NewRow, AccessRow
  <2>5. new \in Row
    BY <2>2, <2>3, <2>4 DEF Row
  <2>6. rows' = rows \/ (Len(rows) < MaxRows /\ rows' = Append(rows, new))
    BY <1>8, <2>3 DEF CreateRow, Group
  <2>7. Len(Append(rows, new)) = Len(rows) + 1 /\ Len(rows) \in Nat
    BY <2>5, AppendProperties, LenProperties DEF Typed
  <2>8. Len(rows') <= MaxRows
    BY <2>6, <2>7, RequestsAssumption DEF Bounded
  <2> QED BY <2>1, <2>8 DEF Bounded
<1>9. ASSUME NEW w \in Workers, UpdateRow(w) PROVE Bounded'
  <2>1. UNCHANGED <<used, events, alerts, excused, crashes>> /\ rows \in Seq(Row)
    BY <1>9 DEF UpdateRow, history, Typed
  <2>2. req[w].pk \in DOMAIN rows /\ req[w].seen \in AccessRow
    BY <1>9, UpdateRowIs DEF Typed, Job
  <2>3. ASSUME rows[req[w].pk].row # NoRow, NEW open \in BOOLEAN,
               rows' = [rows EXCEPT ![req[w].pk].row =
                             Written(rows[req[w].pk].row, Aligned(req[w].seen, open))]
        PROVE  Len(rows') = Len(rows)
    <3>1. PICK new : new = Written(rows[req[w].pk].row, Aligned(req[w].seen, open))
      OBVIOUS
    <3>2. new \in AccessRow
      BY <2>1, <2>2, <2>3, <3>1, RowType, AlignedIs, WrittenIs
    <3> QED BY <2>1, <2>2, <2>3, <3>1, <3>2, PutLength
  <2>4. Len(rows') = Len(rows)
    BY <1>9, <2>3, UpdateRowIs
  <2> QED BY <2>1, <2>4 DEF Bounded
<1>10. ASSUME NEW w \in Workers, DropRow(w) PROVE Bounded'
  <2>1. /\ UNCHANGED <<used, events, alerts, excused, crashes>> /\ rows \in Seq(Row)
        /\ req[w].pk \in DOMAIN rows
    BY <1>10 DEF DropRow, At, history, Typed
  <2>2. PICK gone \in AccessRow \cup {NoRow} : rows' = [rows EXCEPT ![req[w].pk].row = gone]
    BY <1>10 DEF DropRow
  <2>3. Len(rows') = Len(rows)
    BY <2>1, <2>2, PutLength
  <2> QED BY <2>1, <2>3 DEF Bounded
<1>11. ASSUME NEW w \in Workers, SendAlert(w) PROVE Bounded'
  BY <1>11 DEF SendAlert, history, Bounded
<1>12. ASSUME NEW w \in Workers, CommitSave(w) PROVE Bounded'
  <2>1. UNCHANGED <<used, alerts, excused, crashes>> /\ Len(rows') <= MaxRows
    BY <1>12 DEF CommitSave, history
  <2>2. events' \subseteq Registered
    BY <1>12, CommitSaveIs DEF Bounded
  <2> QED BY <2>1, <2>2 DEF Bounded
<1>13. ASSUME NEW w \in Workers, CommitDelete(w) PROVE Bounded'
  <2>1. /\ UNCHANGED <<used, events, alerts, crashes>> /\ Len(rows') <= MaxRows
        /\ excused' = excused \cup {req[w].id} /\ req[w].id \in Ids
    BY <1>13 DEF CommitDelete, At, Typed, Working
  <2> QED BY <2>1 DEF Bounded
<1>14. ASSUME NEW w \in Workers, Crash(w) PROVE Bounded'
  <2>1. /\ UNCHANGED <<used, rows, events, alerts>>
        /\ excused' \subseteq excused \cup Ids
        /\ crashes < MaxCrashes /\ crashes' = crashes + 1
    BY <1>14 DEF Crash, At, tables, Typed, Working
  <2>2. crashes' \in 0..MaxCrashes
    BY <2>1, RequestsAssumption DEF Bounded
  <2> QED BY <2>1, <2>2 DEF Bounded
<1>15. ASSUME NEW pk \in DOMAIN rows, NEW more \in AdminGrants, AdminWidenRow(pk, more)
       PROVE  Bounded'
  <2>1. PICK row \in AccessRow : rows' = [rows EXCEPT ![pk].row = row]
    BY <1>15, WidenIs
  <2>2. Len(rows') = Len(rows)
    BY <2>1, PutLength DEF Typed
  <2>3. UNCHANGED <<used, events, alerts, excused, crashes>>
    BY <1>15, WidenIs
  <2> QED BY <2>2, <2>3 DEF Bounded
<1>16. CASE UNCHANGED allVars
  BY <1>16 DEF allVars, tables, history, Bounded
<1> QED BY <1>2, <1>3, <1>4, <1>5, <1>6, <1>7, <1>8, <1>9, <1>10, <1>11, <1>12, <1>13, <1>14,
           <1>15, <1>16 DEF RequestsNext, Load, Continue

(* Whatever the interleaving, the tables hold rows of their kind, and no   *)
(* row is inserted beyond the bound.                                       *)
THEOREM RequestsTypeInvariant == RequestsSpec => []RequestsTypeOK
<1>1. RequestsInit => Typed /\ Bounded
  BY TypedInit, BoundedInit
<1>2. Typed /\ Bounded /\ [RequestsNext]_allVars => (Typed /\ Bounded)'
  BY TypedNext, BoundedNext
<1>3. Typed /\ Bounded => RequestsTypeOK
  <2> SUFFICES ASSUME Typed, Bounded PROVE RequestsTypeOK
    OBVIOUS
  <2>1. \A w \in Workers : req[w].copy \in ReferralRow \cup {NoReferral}
    BY DEF Typed, Job
  <2> QED BY <2>1 DEF Typed, Bounded, RequestsTypeOK
<1> QED BY <1>1, <1>2, <1>3, PTL DEF RequestsSpec

-----------------------------------------------------------------------------
(* No event is left to the other save.                                     *)

Reportable == Lifecycle \cap Registered

(* The closing status s of referral r is on the timeline, or a save that   *)
(* saw another status before it is about to emit it.                       *)
Told(r, s) ==
  \/ r \in excused
  \/ s \in events
  \/ \E w \in Workers : /\ req[w].pc = "event" /\ req[w].id = r /\ req[w].copy.status = s
                        /\ req[w].prev # NoReferral /\ req[w].prev.status # s

Present(r) == referral[r] # NoReferral \/ r \in excused

(* What a save that is to write w's copy knows.                            *)
Backed(w) == \/ req[w].prev # NoReferral /\ req[w].prev.status # req[w].copy.status
             \/ Told(req[w].id, req[w].copy.status)

TimelineInv ==
  /\ \A r \in Ids : referral[r] # NoReferral /\ referral[r].status \in Reportable =>
       Told(r, referral[r].status)
  /\ \A w \in Workers : req[w].pc \in {"previous", "write", "commit"} => Present(req[w].id)
  /\ \A w \in Workers, r \in Ids : r \in DOMAIN req[w].batch => Present(r)
  /\ \A w \in Workers : req[w].pc = "write" /\ req[w].copy.status \in Reportable => Backed(w)

(* A step of w keeps what was told when it loses neither an event nor an   *)
(* excuse and w, if it was to emit, has emitted or is excused.             *)
LEMMA ToldStays ==
  ASSUME NEW w \in Workers, Others(w), events \subseteq events', excused \subseteq excused',
         req[w].pc = "event" =>
           \/ req[w].id \in excused'
           \/ /\ req[w].copy.status \in Reportable
              /\ req[w].prev # NoReferral /\ req[w].prev.status # req[w].copy.status
              => req[w].copy.status \in events'
  PROVE  \A r \in Ids, s \in Reportable : Told(r, s) => Told(r, s)'
<1> SUFFICES ASSUME NEW r \in Ids, NEW s \in Reportable, Told(r, s) PROVE Told(r, s)'
  OBVIOUS
<1>1. CASE r \in excused \/ s \in events
  BY <1>1 DEF Told
<1>2. ASSUME NEW v \in Workers, req[v].pc = "event", req[v].id = r, req[v].copy.status = s,
             req[v].prev # NoReferral, req[v].prev.status # s
      PROVE  Told(r, s)'
  <2>1. CASE v = w
    BY <1>2, <2>1 DEF Told
  <2>2. CASE v # w
    BY <1>2, <2>2 DEF Told, Others
  <2> QED BY <2>1, <2>2
<1> QED BY <1>1, <1>2 DEF Told

(* A step that writes no referral, and after which w is not about to write *)
(* one.                                                                    *)
LEMMA TimelineQuiet ==
  ASSUME TimelineInv, NEW w \in Workers, Others(w), referral' = referral,
         Typed, Typed', events \subseteq events', excused \subseteq excused',
         \A r \in Ids, s \in Reportable : Told(r, s) => Told(r, s)',
         req'[w].pc \in {"previous", "commit"} => Present(req'[w].id),
         req'[w].pc # "write",
         \A r \in Ids : r \in DOMAIN req'[w].batch => Present(r)
  PROVE  TimelineInv'
<1>1. \A r : Present(r) => Present(r)'
  BY DEF Present
<1>2. \A r \in Ids : referral'[r] # NoReferral /\ referral'[r].status \in Reportable =>
        Told(r, referral[r].status)'
  BY DEF TimelineInv
<1>3. \A v \in Workers : req'[v].pc \in {"previous", "write", "commit"} => Present(req'[v].id)
  BY DEF TimelineInv, Others
<1>4. \A v \in Workers, r \in Ids : r \in DOMAIN req'[v].batch => Present(r)
  BY DEF TimelineInv, Others
<1>5. ASSUME NEW v \in Workers, req'[v].pc = "write", req'[v].copy.status \in Reportable
      PROVE  Backed(v)'
  <2>1. v # w /\ req'[v] = req[v]
    BY <1>5 DEF Others
  <2>2. req[v].id \in Ids
    BY <1>5, <2>1 DEF Typed, Working
  <2>3. Backed(v)
    BY <1>5, <2>1 DEF TimelineInv
  <2> QED BY <1>5, <2>1, <2>2, <2>3 DEF Backed
<1> QED BY <1>1, <1>2, <1>3, <1>4, <1>5 DEF TimelineInv

(* A transaction of w, after which its request has ended.                  *)
LEMMA TimelineOver ==
  ASSUME TimelineInv, Typed, NEW w \in Workers, Others(w), req'[w].pc = "idle",
         DOMAIN req'[w].batch = {},
         \A r \in Ids, s \in Reportable : Told(r, s) => Told(r, s)',
         \A r \in Ids : Present(r) => Present(r)',
         \A r \in Ids : referral'[r] # NoReferral /\ referral'[r].status \in Reportable =>
           Told(r, referral[r].status)'
  PROVE  TimelineInv'
<1>1. ASSUME NEW v \in Workers, req'[v].pc \in {"previous", "write", "commit"}
      PROVE  Present(req[v].id)'
  <2>1. v # w /\ req'[v] = req[v]
    BY <1>1 DEF Others
  <2>2. req[v].id \in Ids
    BY <1>1, <2>1 DEF Typed, Working
  <2> QED BY <1>1, <2>1, <2>2 DEF TimelineInv, Present
<1>2. \A v \in Workers, r \in Ids : r \in DOMAIN req'[v].batch => Present(r)'
  BY DEF TimelineInv, Others
<1>3. ASSUME NEW v \in Workers, req'[v].pc = "write", req'[v].copy.status \in Reportable
      PROVE  Backed(v)'
  <2>1. v # w /\ req'[v] = req[v]
    BY <1>3 DEF Others
  <2>2. req[v].id \in Ids
    BY <1>3, <2>1 DEF Typed, Working
  <2>3. Backed(v)
    BY <1>3, <2>1 DEF TimelineInv
  <2> QED BY <1>3, <2>1, <2>2, <2>3 DEF Backed
<1> QED BY <1>1, <1>2, <1>3 DEF TimelineInv

LEMMA TimelineInit == RequestsInit => TimelineInv
<1> SUFFICES ASSUME RequestsInit PROVE TimelineInv
  OBVIOUS
<1>1. \A r \in Ids : referral[r] = NoReferral
  BY DEF RequestsInit
<1>2. \A w \in Workers : req[w].pc = "idle" /\ req[w].batch = <<>>
  BY IdleIs DEF RequestsInit
<1>3. DOMAIN <<>> = {}
  OBVIOUS
<1> QED BY <1>1, <1>2, <1>3 DEF TimelineInv

LEMMA TimelineNext == Typed /\ Typed' /\ TimelineInv /\ [RequestsNext]_allVars => TimelineInv'
<1> SUFFICES ASSUME Typed, Typed', TimelineInv, [RequestsNext]_allVars PROVE TimelineInv'
  OBVIOUS
<1>0. DOMAIN <<>> = {}
  OBVIOUS
<1>1. ASSUME NEW w \in Workers, NEW r \in Ids, LoadOne(w, r)
      PROVE  TimelineInv'
  <2>1. ASSUME NEW g \in Groups, LoadRefer(w, r, g) PROVE TimelineInv'
    <3>1. /\ Others(w) /\ UNCHANGED <<referral, events, excused>> /\ req[w].pc = "idle"
          /\ req'[w].pc = "insert" /\ req'[w].batch = <<>>
      BY <2>1, LoadReferIs
    <3> QED BY <1>0, <3>1, ToldStays, TimelineQuiet
  <2>2. ASSUME NEW pc \in {"previous", "commit"}, NEW op \in {"saved", "deleted"} \cup Lifecycle,
               NEW copy \in ReferralRow, Begin(w, pc, op, r, copy), referral[r] # NoReferral
        PROVE  TimelineInv'
    <3>1. /\ Others(w) /\ UNCHANGED <<referral, events, excused>> /\ req[w].pc = "idle"
          /\ req'[w].pc = pc /\ req'[w].id = r /\ req'[w].batch = <<>>
      BY <2>2, BeginIs DEF Aside
    <3>2. Present(r)
      BY <2>2 DEF Present
    <3> QED BY <1>0, <3>1, <3>2, ToldStays, TimelineQuiet
  <2>3. ASSUME NEW status \in {"responded", "recalled"}, LoadClose(w, r, status) PROVE TimelineInv'
    <3>1. PICK copy : copy = [referral[r] EXCEPT !.status = status]
      OBVIOUS
    <3>2. copy \in ReferralRow /\ referral[r] # NoReferral
      BY <2>3, <3>1 DEF LoadClose, Typed, ReferralRow
    <3>3. Begin(w, "previous", status, r, copy)
      BY <2>3, <3>1 DEF LoadClose
    <3> QED BY <2>2, <3>2, <3>3
  <2>4. ASSUME NEW row \in AdminRows, LoadAdminSave(w, r, row) PROVE TimelineInv'
    <3>1. row \in ReferralRow /\ referral[r] # NoReferral /\ Begin(w, "commit", "saved", r, row)
      BY <2>4, RowsAssumption DEF LoadAdminSave
    <3> QED BY <2>2, <3>1
  <2>5. ASSUME LoadDelete(w, r) PROVE TimelineInv'
    <3>1. /\ referral[r] \in ReferralRow /\ referral[r] # NoReferral
          /\ Begin(w, "commit", "deleted", r, referral[r])
      BY <2>5 DEF LoadDelete, Typed
    <3> QED BY <2>2, <3>1
  <2> QED BY <1>1, <2>1, <2>3, <2>4, <2>5 DEF LoadOne
<1>2. ASSUME NEW w \in Workers, NEW R \in SUBSET Ids, SelectExpired(w, R) PROVE TimelineInv'
  <2>1. /\ Others(w) /\ UNCHANGED <<referral, events, excused>> /\ req[w].pc = "idle"
        /\ req'[w].pc = "batch" /\ DOMAIN req'[w].batch = R /\ \A r \in R : referral[r] # NoReferral
    BY <1>2, SelectExpiredIs DEF Aside
  <2>2. \A r \in R : Present(r)
    BY <2>1 DEF Present
  <2> QED BY <2>1, <2>2, ToldStays, TimelineQuiet
<1>3. ASSUME NEW w \in Workers, NEW r \in Ids, TakeExpired(w, r) PROVE TimelineInv'
  <2>1. /\ Others(w) /\ UNCHANGED <<referral, events, excused>> /\ req[w].pc = "batch"
        /\ r \in DOMAIN req[w].batch /\ req'[w].pc = "previous" /\ req'[w].id = r
        /\ DOMAIN req'[w].batch \subseteq DOMAIN req[w].batch
    BY <1>3, TakeExpiredIs DEF Aside
  <2>2. \A i \in Ids : i \in DOMAIN req[w].batch => Present(i)
    BY DEF TimelineInv
  <2> QED BY <2>1, <2>2, ToldStays, TimelineQuiet
(* The row of the copy is written: it was just created, or what the save   *)
(* read before tells the event, now or by another save.                    *)
<1>4. ASSUME NEW w \in Workers, Insert(w) \/ Write(w) PROVE TimelineInv'
  <2>1. /\ Others(w) /\ Same(w) /\ UNCHANGED <<events, excused>> /\ req[w].pc \in {"insert", "write"}
        /\ req'[w].pc = "event" /\ req'[w].prev = req[w].prev
        /\ referral' = [referral EXCEPT ![req[w].id] = req[w].copy]
    BY <1>4, WriteIs
  <2>2. req[w].id \in Ids /\ req[w].copy \in ReferralRow /\ req[w].copy # NoReferral
    BY <2>1, RowsAssumption DEF Typed, Working
  <2>3. \A r \in Ids, s \in Reportable : Told(r, s) => Told(r, s)'
    BY <2>1, ToldStays
  <2>4. /\ referral'[req[w].id] = req[w].copy
        /\ \A r \in Ids : r # req[w].id => referral'[r] = referral[r]
    BY <2>1, <2>2 DEF Typed
  <2>5. \A r \in Ids : Present(r) => Present(r)'
    BY <2>1, <2>2, <2>4 DEF Present
  <2>6. ASSUME req[w].copy.status \in Reportable
        PROVE  Told(req[w].id, req[w].copy.status)'
    <3>1. req[w].pc = "write"
      BY <2>1, <2>6 DEF Typed, Reportable
    <3>2. CASE req[w].prev # NoReferral /\ req[w].prev.status # req[w].copy.status
      BY <2>1, <3>2 DEF Told, Same
    <3>3. CASE Told(req[w].id, req[w].copy.status)
      <4>1. PICK r \in Ids, s \in Reportable : r = req[w].id /\ s = req[w].copy.status
        BY <2>2, <2>6
      <4>2. Told(r, s)'
        BY <2>3, <3>3, <4>1
      <4>3. r = req'[w].id /\ s = req'[w].copy.status
        BY <2>1, <4>1 DEF Same
      <4> QED BY <2>1, <4>2, <4>3 DEF Told, Same
    <3> QED BY <2>6, <3>1, <3>2, <3>3 DEF TimelineInv, Backed
  <2>7. ASSUME NEW r \in Ids, referral'[r] # NoReferral, referral'[r].status \in Reportable
        PROVE  Told(r, referral[r].status)'
    <3>1. CASE r = req[w].id
      BY <2>1, <2>4, <2>6, <2>7, <3>1 DEF Told, Same
    <3>2. CASE r # req[w].id
      <4>1. referral'[r] = referral[r] /\ Told(r, referral[r].status)
        BY <2>4, <2>7, <3>2 DEF TimelineInv
      <4>2. PICK s \in Reportable : s = referral[r].status
        BY <2>7, <4>1
      <4>3. Told(r, s)'
        BY <2>3, <4>1, <4>2
      <4> QED BY <4>1, <4>2, <4>3 DEF Told
    <3> QED BY <3>1, <3>2
  <2>8. ASSUME NEW v \in Workers, req'[v].pc \in {"previous", "write", "commit"}
        PROVE  Present(req[v].id)'
    <3>1. v # w /\ req'[v] = req[v]
      BY <2>1, <2>8 DEF Others
    <3>2. req[v].id \in Ids
      BY <2>8, <3>1 DEF Typed, Working
    <3> QED BY <2>5, <2>8, <3>1, <3>2 DEF TimelineInv, Present
  <2>9. ASSUME NEW v \in Workers, NEW r \in Ids, r \in DOMAIN req'[v].batch
        PROVE  Present(r)'
    BY <2>1, <2>5, <2>9 DEF TimelineInv, Others, Same
  <2>10. ASSUME NEW v \in Workers, req'[v].pc = "write", req'[v].copy.status \in Reportable
         PROVE  Backed(v)'
    <3>1. v # w /\ req'[v] = req[v]
      BY <2>1, <2>10 DEF Others
    <3>2. req[v].id \in Ids
      BY <2>10, <3>1 DEF Typed, Working
    <3>3. Backed(v)
      BY <2>10, <3>1 DEF TimelineInv
    <3> QED BY <2>3, <2>10, <3>1, <3>2, <3>3 DEF Backed
  <2> QED BY <2>7, <2>8, <2>9, <2>10 DEF TimelineInv
(* A save that reads the status it is to write finds the event told.       *)
<1>5. ASSUME NEW w \in Workers, ReadPrevious(w) PROVE TimelineInv'
  <2>1. /\ Others(w) /\ Same(w) /\ UNCHANGED <<referral, events, excused>>
        /\ req[w].pc = "previous" /\ req'[w].pc = "write" /\ req'[w].prev = referral[req[w].id]
    BY <1>5, ReadPreviousIs DEF Aside
  <2>2. \A r \in Ids, s \in Reportable : Told(r, s) => Told(r, s)'
    BY <2>1, ToldStays
  <2>3. req[w].id \in Ids /\ Present(req[w].id)
    BY <2>1 DEF Typed, Working, TimelineInv
  <2>4. ASSUME req'[w].copy.status \in Reportable PROVE Backed(w)'
    <3>1. PICK r \in Ids, s \in Reportable : r = req[w].id /\ s = req[w].copy.status
      BY <2>1, <2>3, <2>4 DEF Same
    <3>2. CASE referral[r] # NoReferral /\ referral[r].status # s
      BY <2>1, <3>1, <3>2 DEF Backed, Same
    <3>3. CASE referral[r] # NoReferral /\ referral[r].status = s
      <4>1. Told(r, s)
        BY <3>3 DEF TimelineInv
      <4> QED BY <2>1, <2>2, <3>1, <4>1 DEF Backed, Told, Same
    <3>4. CASE referral[r] = NoReferral
      <4>1. r \in excused
        BY <2>3, <3>1, <3>4 DEF Present
      <4> QED BY <2>1, <3>1, <4>1 DEF Backed, Told, Same
    <3> QED BY <3>2, <3>3, <3>4
  <2>5. ASSUME NEW v \in Workers, req'[v].pc = "write", req'[v].copy.status \in Reportable
        PROVE  Backed(v)'
    <3>1. CASE v = w
      BY <2>4, <2>5, <3>1
    <3>2. CASE v # w
      <4>1. req'[v] = req[v] /\ req[v].id \in Ids
        BY <2>1, <2>5, <3>2 DEF Others, Typed, Working
      <4>2. Backed(v)
        BY <2>5, <4>1 DEF TimelineInv
      <4> QED BY <2>2, <2>5, <4>1, <4>2 DEF Backed
    <3> QED BY <3>1, <3>2
  <2>6. \A r : Present(r) => Present(r)'
    BY <2>1 DEF Present
  <2>7. \A r \in Ids : referral'[r] # NoReferral /\ referral'[r].status \in Reportable =>
          Told(r, referral[r].status)'
    BY <2>1, <2>2 DEF TimelineInv
  <2>8. \A v \in Workers : req'[v].pc \in {"previous", "write", "commit"} => Present(req'[v].id)
    BY <2>1, <2>3 DEF TimelineInv, Others, Same
  <2>9. \A v \in Workers, r \in Ids : r \in DOMAIN req'[v].batch => Present(r)
    BY <2>1 DEF TimelineInv, Others, Same
  <2> QED BY <2>5, <2>6, <2>7, <2>8, <2>9 DEF TimelineInv
<1>6. ASSUME NEW w \in Workers, EmitEvent(w) PROVE TimelineInv'
  <2>1. /\ Others(w) /\ Same(w) /\ UNCHANGED <<referral, excused>> /\ req[w].pc = "event"
        /\ req'[w].pc = "has" /\ events' = events \cup (Reported(req[w]) \cap Registered)
    BY <1>6, EmitEventIs
  <2>2. ASSUME req[w].copy.status \in Reportable, req[w].prev # NoReferral,
               req[w].prev.status # req[w].copy.status
        PROVE  req[w].copy.status \in events'
    BY <2>1, <2>2 DEF Reported, EventsOf, Reportable
  <2>3. \A r \in Ids, s \in Reportable : Told(r, s) => Told(r, s)'
    BY <2>1, <2>2, ToldStays
  <2>4. \A r \in Ids : r \in DOMAIN req'[w].batch => Present(r)
    BY <2>1 DEF Same, TimelineInv
  <2> QED BY <2>1, <2>3, <2>4, TimelineQuiet
(* Every other statement that leaves the referrals alone.                  *)
<1>7. ASSUME NEW w \in Workers, Others(w), UNCHANGED <<referral, events>>,
             excused \subseteq excused',
             req[w].pc = "event" => req[w].id \in excused',
             req'[w].pc \notin {"previous", "write", "commit"},
             DOMAIN req'[w].batch \subseteq DOMAIN req[w].batch
      PROVE  TimelineInv'
  <2>1. \A r \in Ids, s \in Reportable : Told(r, s) => Told(r, s)'
    BY <1>7, ToldStays
  <2>2. \A r \in Ids : r \in DOMAIN req'[w].batch => Present(r)
    BY <1>7 DEF TimelineInv
  <2> QED BY <1>7, <2>1, <2>2, TimelineQuiet
<1>8. ASSUME NEW w \in Workers, ReadHas(w) \/ ReadOpen(w) PROVE TimelineInv'
  BY <1>7, <1>8, ReadFlagIs DEF Same, Aside
<1>9. ASSUME NEW w \in Workers, ReadRow(w) PROVE TimelineInv'
  BY <1>7, <1>9, ReadRowIs DEF Same, Aside
<1>10. ASSUME NEW w \in Workers, CreateRow(w) PROVE TimelineInv'
  BY <1>7, <1>10, CreateRowIs DEF Same
<1>11. ASSUME NEW w \in Workers, UpdateRow(w) PROVE TimelineInv'
  BY <1>0, <1>7, <1>11, UpdateRowIs DEF Same
<1>12. ASSUME NEW w \in Workers, DropRow(w) PROVE TimelineInv'
  BY <1>7, <1>12, DropRowIs DEF Same
<1>13. ASSUME NEW w \in Workers, SendAlert(w) PROVE TimelineInv'
  BY <1>7, <1>13, SendAlertIs
(* The admin's save reports a status it changes, and one it does not       *)
(* change is told already.                                                 *)
<1>14. ASSUME NEW w \in Workers, CommitSave(w) PROVE TimelineInv'
  <2>1. /\ Others(w) /\ UNCHANGED excused /\ req[w].pc = "commit" /\ req'[w].pc = "idle"
        /\ req'[w].batch = <<>> /\ req[w].op = "saved"
        /\ referral' = [referral EXCEPT ![req[w].id] = req[w].copy]
        /\ events' = events \cup (Reported([req[w] EXCEPT !.prev = referral[req[w].id]]) \cap Registered)
    BY <1>14, CommitSaveIs
  <2>2. PICK r \in Ids, copy \in ReferralRow : r = req[w].id /\ copy = req[w].copy
    BY <2>1 DEF Typed, Working
  <2>3. Present(r) /\ copy # NoReferral /\ req[w] \in Job
    BY <2>1, <2>2, RowsAssumption DEF Typed, TimelineInv
  <2>4. \A i \in Ids, s \in Reportable : Told(i, s) => Told(i, s)'
    BY <2>1, ToldStays
  <2>5. referral'[r] = copy /\ \A i \in Ids : i # r => referral'[i] = referral[i]
    BY <2>1, <2>2 DEF Typed
  <2>6. ASSUME NEW s \in Reportable, copy.status = s PROVE Told(r, s)'
    <3>1. PICK prev : prev = referral[r]
      OBVIOUS
    <3>2. CASE prev # NoReferral /\ prev.status # s
      <4> DEFINE job == [req[w] EXCEPT !.prev = prev]
      <4>1. job.prev = prev /\ job.copy = copy
        BY <2>2, <2>3 DEF Job
      <4>2. events' = events \cup (Reported(job) \cap Registered)
        BY <2>1, <2>2, <3>1
      <4> HIDE DEF job
      <4>3. s \in events'
        BY <2>6, <3>2, <4>1, <4>2 DEF Reported, EventsOf, Reportable
      <4> QED BY <4>3 DEF Told
    <3>3. CASE prev # NoReferral /\ prev.status = s
      BY <2>4, <3>1, <3>3 DEF TimelineInv
    <3>4. CASE prev = NoReferral
      BY <2>1, <2>3, <3>1, <3>4 DEF Present, Told
    <3> QED BY <3>2, <3>3, <3>4
  <2>7. /\ \A i \in Ids : Present(i) => Present(i)'
        /\ \A i \in Ids : referral'[i] # NoReferral /\ referral'[i].status \in Reportable =>
             Told(i, referral[i].status)'
    <3>1. ASSUME NEW i \in Ids, referral'[i] # NoReferral, referral'[i].status \in Reportable
          PROVE  Told(i, referral[i].status)'
      <4>1. PICK s \in Reportable : s = referral'[i].status
        BY <3>1
      <4>2. CASE i = r
        BY <2>5, <2>6, <4>1, <4>2 DEF Told
      <4>3. CASE i # r
        <5>1. referral'[i] = referral[i] /\ Told(i, s)
          BY <2>5, <3>1, <4>1, <4>3 DEF TimelineInv
        <5> QED BY <2>4, <4>1, <5>1 DEF Told
      <4> QED BY <4>2, <4>3
    <3> QED BY <2>1, <2>3, <2>5, <3>1 DEF Present
  <2> QED BY <1>0, <2>1, <2>4, <2>7, TimelineOver
(* What is deleted is excused.                                             *)
<1>15. ASSUME NEW w \in Workers, CommitDelete(w) PROVE TimelineInv'
  <2>1. /\ Others(w) /\ UNCHANGED events /\ req[w].pc = "commit" /\ req'[w].pc = "idle"
        /\ req'[w].batch = <<>> /\ excused' = excused \cup {req[w].id}
        /\ referral' = [referral EXCEPT ![req[w].id] = NoReferral]
    BY <1>15, CommitDeleteIs
  <2>2. PICK r \in Ids : r = req[w].id
    BY <2>1 DEF Typed, Working
  <2>3. \A i \in Ids, s \in Reportable : Told(i, s) => Told(i, s)'
    BY <2>1, ToldStays
  <2>4. referral'[r] = NoReferral /\ \A i \in Ids : i # r => referral'[i] = referral[i]
    BY <2>1, <2>2 DEF Typed
  <2>5. \A i \in Ids : Present(i) => Present(i)'
    BY <2>1, <2>2, <2>4 DEF Present
  <2>6. ASSUME NEW i \in Ids, referral'[i] # NoReferral, referral'[i].status \in Reportable
        PROVE  Told(i, referral[i].status)'
    <3>1. PICK s \in Reportable : s = referral'[i].status
      BY <2>6
    <3>2. referral'[i] = referral[i] /\ Told(i, s)
      BY <2>4, <2>6, <3>1 DEF TimelineInv
    <3> QED BY <2>3, <3>1, <3>2 DEF Told
  <2> QED BY <1>0, <2>1, <2>3, <2>5, <2>6, TimelineOver
<1>16. ASSUME NEW w \in Workers, Crash(w) PROVE TimelineInv'
  <2>1. /\ Others(w) /\ UNCHANGED <<referral, events>> /\ req'[w].pc = "idle"
        /\ req'[w].batch = <<>>
        /\ excused' = excused \cup (IF req[w].pc = "event" THEN {req[w].id} ELSE {})
    BY <1>16, CrashIs
  <2> QED BY <1>0, <1>7, <2>1
<1>17. CASE UNCHANGED <<referral, events, req, excused>>
  BY <1>17 DEF TimelineInv, Told, Present, Backed
<1>18. ASSUME NEW pk \in DOMAIN rows, NEW more \in AdminGrants, AdminWidenRow(pk, more)
       PROVE  TimelineInv'
  BY <1>17, <1>18, WidenIs
<1>19. CASE UNCHANGED allVars
  BY <1>17, <1>19 DEF allVars, tables, history
<1> QED BY <1>1, <1>2, <1>3, <1>4, <1>5, <1>6, <1>8, <1>9, <1>10, <1>11, <1>12, <1>13, <1>14,
           <1>15, <1>16, <1>18, <1>19 DEF RequestsNext, Load, Continue

(* A referral that is answered, withdrawn or expired is on the timeline,   *)
(* or a save of it is still to emit, however the saves of several          *)
(* processes interleave and wherever one dies, for any number of them.     *)
THEOREM TimelineToldOnce == RequestsSpec => []TimelineComplete
<1>1. RequestsInit => Typed /\ TimelineInv
  BY TypedInit, TimelineInit
<1>2. Typed /\ TimelineInv /\ [RequestsNext]_allVars => (Typed /\ TimelineInv)'
  BY TypedNext, TimelineNext
<1>3. TimelineInv => TimelineComplete
  BY DEF TimelineInv, TimelineComplete, Told, Reportable, At
<1> QED BY <1>1, <1>2, <1>3, PTL DEF RequestsSpec

-----------------------------------------------------------------------------
(* What a synchronisation read of a row and will write or delete later     *)
(* still tells which row it is: who made it, and whether its edit was      *)
(* given.                                                                  *)
Fits(w) ==
  req[w].pc \in {"grant", "drop"} /\ req[w].seen # NoRow /\ rows[req[w].pk].row # NoRow =>
    /\ rows[req[w].pk].row.origin = req[w].seen.origin
    /\ Held(rows[req[w].pk].row) <=> Held(req[w].seen)

Fit == \A w \in Workers : Fits(w)

(* Every step spares the rows, and keeps what the others read fitting.     *)
LEMMA OthersFit ==
  ASSUME Typed, Fit, Spares(rows, rows'), NEW v \in Workers, req'[v] = req[v]
  PROVE  Fits(v)'
<1> SUFFICES ASSUME req[v].pc \in {"grant", "drop"}, req[v].seen # NoRow,
                    rows'[req[v].pk].row # NoRow
             PROVE  /\ rows'[req[v].pk].row.origin = req[v].seen.origin
                    /\ Held(rows'[req[v].pk].row) <=> Held(req[v].seen)
  BY DEF Fits
<1>1. PICK pk \in DOMAIN rows : pk = req[v].pk
  BY DEF Typed
<1>2. /\ rows[pk].row # NoRow /\ rows'[pk].row.origin = rows[pk].row.origin
      /\ Held(rows'[pk].row) <=> Held(rows[pk].row)
  BY <1>1 DEF Spares
<1>3. /\ rows[pk].row.origin = req[v].seen.origin
      /\ Held(rows[pk].row) <=> Held(req[v].seen)
  BY <1>1, <1>2 DEF Fit, Fits
<1> QED BY <1>1, <1>2, <1>3

LEMMA StepFit ==
  ASSUME Typed, Fit, NEW w \in Workers, Others(w), Spares(rows, rows'), Fits(w)'
  PROVE  Spares(rows, rows') /\ Fit'
<1>1. \A v \in Workers : Fits(v)'
  <2> SUFFICES ASSUME NEW v \in Workers PROVE Fits(v)'
    OBVIOUS
  <2>1. CASE v = w
    BY <2>1
  <2>2. CASE v # w
    BY <2>2, OthersFit DEF Others
  <2> QED BY <2>1, <2>2
<1> QED BY <1>1 DEF Fit

LEMMA OrganicNext ==
  ASSUME \A more \in AdminGrants : "edit" \notin more
  PROVE  Typed /\ Typed' /\ Fit /\ [RequestsNext]_allVars => Spares(rows, rows') /\ Fit'
<1> SUFFICES ASSUME Typed, Typed', Fit, [RequestsNext]_allVars
             PROVE  Spares(rows, rows') /\ Fit'
  OBVIOUS
(* Every statement but a synchronisation's.                                *)
<1>1. ASSUME NEW w \in Workers, Others(w), rows' = rows, req'[w].pc \notin {"grant", "drop"}
      PROVE  Spares(rows, rows') /\ Fit'
  <2>1. Spares(rows, rows')
    BY <1>1, SparesSame
  <2>2. Fits(w)'
    BY <1>1 DEF Fits
  <2> QED BY <1>1, <2>1, <2>2, StepFit
<1>2. ASSUME NEW w \in Workers, NEW r \in Ids, LoadOne(w, r)
      PROVE  Spares(rows, rows') /\ Fit'
  <2>1. ASSUME NEW g \in Groups, LoadRefer(w, r, g) PROVE Spares(rows, rows') /\ Fit'
    <3>1. Others(w) /\ rows' = rows /\ req'[w].pc = "insert"
      BY <2>1, LoadReferIs
    <3> QED BY <1>1, <3>1
  <2>2. ASSUME NEW pc \in {"previous", "commit"}, NEW op \in {"saved", "deleted"} \cup Lifecycle,
               NEW copy \in ReferralRow, Begin(w, pc, op, r, copy)
        PROVE  Spares(rows, rows') /\ Fit'
    <3>1. Others(w) /\ rows' = rows /\ req'[w].pc = pc
      BY <2>2, BeginIs DEF Aside
    <3> QED BY <1>1, <3>1
  <2>3. ASSUME NEW status \in {"responded", "recalled"}, LoadClose(w, r, status)
        PROVE  Spares(rows, rows') /\ Fit'
    <3>1. PICK copy : copy = [referral[r] EXCEPT !.status = status]
      OBVIOUS
    <3>2. copy \in ReferralRow
      BY <2>3, <3>1 DEF LoadClose, Typed, ReferralRow
    <3>3. Begin(w, "previous", status, r, copy)
      BY <2>3, <3>1 DEF LoadClose
    <3> QED BY <2>2, <3>2, <3>3
  <2>4. ASSUME NEW row \in AdminRows, LoadAdminSave(w, r, row)
        PROVE  Spares(rows, rows') /\ Fit'
    <3>1. row \in ReferralRow /\ Begin(w, "commit", "saved", r, row)
      BY <2>4, RowsAssumption DEF LoadAdminSave
    <3> QED BY <2>2, <3>1
  <2>5. ASSUME LoadDelete(w, r) PROVE Spares(rows, rows') /\ Fit'
    <3>1. referral[r] \in ReferralRow /\ Begin(w, "commit", "deleted", r, referral[r])
      BY <2>5 DEF LoadDelete, Typed
    <3> QED BY <2>2, <3>1
  <2> QED BY <1>2, <2>1, <2>3, <2>4, <2>5 DEF LoadOne
<1>3. ASSUME NEW w \in Workers, NEW R \in SUBSET Ids, SelectExpired(w, R)
      PROVE  Spares(rows, rows') /\ Fit'
  BY <1>1, <1>3, SelectExpiredIs DEF Aside
<1>4. ASSUME NEW w \in Workers, NEW r \in Ids, TakeExpired(w, r)
      PROVE  Spares(rows, rows') /\ Fit'
  BY <1>1, <1>4, TakeExpiredIs DEF Aside
<1>5. ASSUME NEW w \in Workers, Insert(w) \/ Write(w) PROVE Spares(rows, rows') /\ Fit'
  BY <1>1, <1>5, WriteIs
<1>6. ASSUME NEW w \in Workers, ReadPrevious(w) PROVE Spares(rows, rows') /\ Fit'
  BY <1>1, <1>6, ReadPreviousIs DEF Aside
<1>7. ASSUME NEW w \in Workers, EmitEvent(w) PROVE Spares(rows, rows') /\ Fit'
  BY <1>1, <1>7, EmitEventIs
<1>8. ASSUME NEW w \in Workers, ReadHas(w) \/ ReadOpen(w) PROVE Spares(rows, rows') /\ Fit'
  BY <1>1, <1>8, ReadFlagIs DEF Aside
<1>9. ASSUME NEW w \in Workers, ReadRow(w) PROVE Spares(rows, rows') /\ Fit'
  <2>1. /\ Others(w) /\ rows' = rows
        /\ req'[w].seen = NoRow \/ rows[req'[w].pk].row = req'[w].seen
    BY <1>9, ReadRowIs DEF Aside
  <2>2. Spares(rows, rows')
    BY <2>1, SparesSame
  <2>3. Fits(w)'
    BY <2>1 DEF Fits
  <2> QED BY <2>1, <2>2, <2>3, StepFit
<1>10. ASSUME NEW w \in Workers, CreateRow(w) PROVE Spares(rows, rows') /\ Fit'
  <2>1. /\ Others(w) /\ req[w].pc = "grant" /\ req'[w].pc = "alert"
        /\ \/ rows' = rows
           \/ \E row \in AccessRow : rows' = Append(rows, [group |-> req[w].copy.to, row |-> row])
    BY <1>10, CreateRowIs
  <2>2. req[w].copy.to \in Groups /\ rows \in Seq(Row)
    BY <2>1 DEF Typed, Working, ReferralRow
  <2>3. \A row \in AccessRow : [group |-> req[w].copy.to, row |-> row] \in Row
    BY <2>2 DEF Row
  <2>4. rows' = rows \/ \E new \in Row : rows' = Append(rows, new)
    BY <2>1, <2>3
  <2>5. Spares(rows, rows')
    BY <2>2, <2>4, SparesSame, SparesAdd
  <2>6. Fits(w)'
    BY <2>1 DEF Fits
  <2> QED BY <2>1, <2>5, <2>6, StepFit
(* Writing can_edit back: the row is as the synchronisation read it in     *)
(* what decides the write.                                                 *)
<1>11. ASSUME NEW w \in Workers, UpdateRow(w) PROVE Spares(rows, rows') /\ Fit'
  <2>1. /\ Others(w) /\ req[w].pc = "grant" /\ req[w].seen # NoRow
        /\ \/ req'[w].pc \notin {"grant", "drop"}
           \/ req'[w].pk = req[w].pk /\ req'[w].seen = req[w].seen
        /\ \/ rows' = rows
           \/ /\ rows[req[w].pk].row # NoRow
              /\ \E open \in BOOLEAN :
                   rows' = [rows EXCEPT ![req[w].pk].row =
                              Written(rows[req[w].pk].row, Aligned(req[w].seen, open))]
    BY <1>11, UpdateRowIs
  <2>2. PICK pk \in DOMAIN rows, seen \in AccessRow : pk = req[w].pk /\ seen = req[w].seen
    BY <2>1 DEF Typed, Job
  <2>3. rows \in Seq(Row)
    BY DEF Typed
  <2>4. ASSUME rows[pk].row # NoRow, NEW open \in BOOLEAN,
               rows' = [rows EXCEPT ![pk].row = Written(rows[pk].row, Aligned(seen, open))]
        PROVE  Spares(rows, rows')
    <3>1. PICK current \in AccessRow : current = rows[pk].row
      BY <2>3, <2>4, RowType
    <3>2. Held(current) <=> Held(seen)
      BY <2>1, <2>2, <2>4, <3>1 DEF Fit, Fits
    <3>3. PICK aligned \in AccessRow : aligned = Aligned(seen, open)
      BY AlignedIs
    <3>4. Held(aligned) <=> Held(seen)
      BY <3>3, AlignedIs
    <3>5. PICK new \in AccessRow : new = Written(current, aligned)
      BY WrittenIs
    <3>6. /\ new.origin = current.origin /\ new.raised = aligned.raised
          /\ new.caps = (current.caps \ {"edit"}) \cup (aligned.caps \cap {"edit"})
      BY <3>5, WrittenIs
    <3>7. Held(new) <=> Held(current)
      BY <3>2, <3>4, <3>6 DEF Held
    <3>8. current.caps \ new.caps \subseteq current.raised
      <4>1. current.raised \in SUBSET {"edit"}
        BY DEF AccessRow
      <4> QED BY <3>6, <3>7, <4>1 DEF Held
    <3>9. new # NoRow
      BY RowsAssumption
    <3>10. rows' = [rows EXCEPT ![pk].row = new]
      BY <2>4, <3>1, <3>3, <3>5
    <3>11. Spares(rows, [rows EXCEPT ![pk].row = new])
      <4>1. /\ rows[pk].row # NoRow /\ new.origin = rows[pk].row.origin
            /\ Held(new) <=> Held(rows[pk].row)
            /\ rows[pk].row.caps \ new.caps \subseteq rows[pk].row.raised
        BY <2>4, <3>1, <3>6, <3>7, <3>8
      <4> QED BY <2>3, <3>9, <4>1, SparesPut
    <3> QED BY <3>10, <3>11
  <2>5. Spares(rows, rows')
    BY <2>1, <2>2, <2>4, SparesSame
  <2>6. Fits(w)'
    <3>1. CASE req'[w].pc \notin {"grant", "drop"}
      BY <3>1 DEF Fits
    <3>2. CASE req'[w].pk = req[w].pk /\ req'[w].seen = req[w].seen
      <4> SUFFICES ASSUME rows'[pk].row # NoRow
                   PROVE  /\ rows'[pk].row.origin = seen.origin
                          /\ Held(rows'[pk].row) <=> Held(seen)
        BY <2>2, <3>2 DEF Fits
      <4>1. /\ rows[pk].row # NoRow /\ rows'[pk].row.origin = rows[pk].row.origin
            /\ Held(rows'[pk].row) <=> Held(rows[pk].row)
        BY <2>5 DEF Spares
      <4>2. /\ rows[pk].row.origin = seen.origin
            /\ Held(rows[pk].row) <=> Held(seen)
        BY <2>1, <2>2, <4>1 DEF Fit, Fits
      <4> QED BY <4>1, <4>2
    <3> QED BY <2>1, <3>1, <3>2
  <2> QED BY <2>1, <2>5, <2>6, StepFit
(* Only a row a referral created is deleted.                               *)
<1>12. ASSUME NEW w \in Workers, DropRow(w) PROVE Spares(rows, rows') /\ Fit'
  <2>1. /\ Others(w) /\ req[w].pc = "drop" /\ req'[w].pc = "alert"
        /\ rows' = [rows EXCEPT ![req[w].pk].row = NoRow]
    BY <1>12, DropRowIs
  <2>2. PICK pk \in DOMAIN rows : pk = req[w].pk
    BY <2>1 DEF Typed
  <2>3. rows[pk].row # NoRow => rows[pk].row.origin = "referral"
    BY <2>1, <2>2 DEF Typed, Fit, Fits
  <2>4. PICK gone \in AccessRow \cup {NoRow} : gone = NoRow
    OBVIOUS
  <2>5. rows \in Seq(Row) /\ rows' = [rows EXCEPT ![pk].row = gone]
    BY <2>1, <2>2, <2>4 DEF Typed
  <2>6. Spares(rows, rows')
    BY <2>3, <2>4, <2>5, SparesPut
  <2>7. Fits(w)'
    BY <2>1 DEF Fits
  <2> QED BY <2>1, <2>6, <2>7, StepFit
<1>13. ASSUME NEW w \in Workers, SendAlert(w) PROVE Spares(rows, rows') /\ Fit'
  BY <1>1, <1>13, SendAlertIs
<1>14. ASSUME NEW w \in Workers, CommitSave(w) PROVE Spares(rows, rows') /\ Fit'
  <2>1. PICK table :
          \/ rows' = SyncedRows(table, rows, req[w].copy.to)
          \/ \E g \in Groups : rows' = SyncedRows(table, SyncedRows(table, rows, req[w].copy.to), g)
    BY <1>14, CommitSaveIs
  <2>2. Others(w) /\ req[w].pc = "commit" /\ req'[w].pc = "idle"
    BY <1>14, CommitSaveIs
  <2>3. PICK to \in Groups : to = req[w].copy.to
    BY <2>2 DEF Typed, Working, ReferralRow
  <2>4. PICK T : T = SyncedRows(table, rows, to)
    OBVIOUS
  <2>5. rows \in Seq(Row) /\ T \in Seq(Row) /\ Spares(rows, T)
    BY <2>3, <2>4, SyncGrows, SparesSync DEF Typed
  <2>6. ASSUME NEW g \in Groups, rows' = SyncedRows(table, T, g)
        PROVE  Spares(rows, rows')
    <3>1. rows' \in Seq(Row) /\ Spares(T, rows')
      BY <2>5, <2>6, SyncGrows, SparesSync
    <3> QED BY <2>5, <3>1, SparesTwice
  <2>7. Spares(rows, rows')
    BY <2>1, <2>3, <2>4, <2>5, <2>6
  <2>8. Fits(w)'
    BY <2>2 DEF Fits
  <2> QED BY <2>2, <2>7, <2>8, StepFit
<1>15. ASSUME NEW w \in Workers, CommitDelete(w) PROVE Spares(rows, rows') /\ Fit'
  <2>1. PICK table : rows' = SyncedRows(table, rows, req[w].copy.to)
    BY <1>15, CommitDeleteIs
  <2>2. Others(w) /\ req[w].pc = "commit" /\ req'[w].pc = "idle"
    BY <1>15, CommitDeleteIs
  <2>3. req[w].copy.to \in Groups
    BY <2>2 DEF Typed, Working, ReferralRow
  <2>4. Spares(rows, rows')
    BY <2>1, <2>3, SparesSync DEF Typed
  <2>5. Fits(w)'
    BY <2>2 DEF Fits
  <2> QED BY <2>2, <2>4, <2>5, StepFit
<1>16. ASSUME NEW w \in Workers, Crash(w) PROVE Spares(rows, rows') /\ Fit'
  BY <1>1, <1>16, CrashIs
<1>17. ASSUME Spares(rows, rows'), req' = req PROVE Spares(rows, rows') /\ Fit'
  BY <1>17, OthersFit DEF Fit
<1>18. ASSUME NEW pk \in DOMAIN rows, NEW more \in AdminGrants, AdminWidenRow(pk, more)
       PROVE  Spares(rows, rows') /\ Fit'
  <2>1. /\ req' = req /\ rows[pk].row \in AccessRow
        /\ \E row \in AccessRow :
             /\ row.caps = rows[pk].row.caps \cup more /\ row.raised = rows[pk].row.raised
             /\ row.origin = rows[pk].row.origin
             /\ rows' = [rows EXCEPT ![pk].row = row]
    BY <1>18, WidenIs
  <2>2. PICK old \in AccessRow, row \in AccessRow :
          /\ old = rows[pk].row /\ row.caps = old.caps \cup more /\ row.raised = old.raised
          /\ row.origin = old.origin /\ rows' = [rows EXCEPT ![pk].row = row]
    BY <2>1
  <2>3. (Held(row) <=> Held(old)) /\ old.caps \ row.caps = {}
    BY <2>2 DEF Held
  <2>4. row # NoRow /\ old # NoRow /\ rows \in Seq(Row)
    BY RowsAssumption DEF Typed
  <2>5. Spares(rows, rows')
    BY <2>2, <2>3, <2>4, SparesPut
  <2> QED BY <1>17, <2>1, <2>5
<1>19. CASE UNCHANGED allVars
  BY <1>17, <1>19, SparesSame DEF allVars, tables
<1> QED BY <1>2, <1>3, <1>4, <1>5, <1>6, <1>7, <1>8, <1>9, <1>10, <1>11, <1>12, <1>13, <1>14,
           <1>15, <1>16, <1>18, <1>19 DEF RequestsNext, Load, Continue

(* However the handlers interleave and wherever a process dies, a row the  *)
(* type or an administrator made is never removed and loses nothing but an *)
(* edit a referral raised, as long as no administrator ticks edit between  *)
(* the statement that reads a row and the one that writes it.              *)
THEOREM OrganicRowsSpared ==
  ASSUME \A more \in AdminGrants : "edit" \notin more
  PROVE  RequestsSpec => OrganicNeverNarrowed
<1>1. RequestsInit => Typed /\ Fit
  <2>1. RequestsInit => \A w \in Workers : req[w].pc = "idle"
    BY IdleIs DEF RequestsInit
  <2> QED BY <2>1, TypedInit DEF Fit, Fits
<1>2. Typed /\ Fit /\ [RequestsNext]_allVars => (Typed /\ Fit)'
  BY TypedNext, OrganicNext
<1>3. Typed /\ Fit /\ [RequestsNext]_allVars =>
        [\A pk \in DOMAIN rows : Live(pk) /\ rows[pk].row.origin = "organic" =>
           /\ Live(pk)'
           /\ rows[pk].row.caps \ rows'[pk].row.caps \subseteq rows[pk].row.raised]_allVars
  BY TypedNext, OrganicNext DEF Spares, Live
<1> QED BY <1>1, <1>2, <1>3, PTL DEF RequestsSpec, OrganicNeverNarrowed

-----------------------------------------------------------------------------
(* One process at a time never inserts a second live row of a group.       *)

Unique(T) == \A p, q \in DOMAIN T :
  T[p].row # NoRow /\ T[q].row # NoRow /\ T[p].group = T[q].group => p = q

(* A write that inserts nothing: no row comes back and none changes group. *)
Shrinks(T, N) ==
  /\ DOMAIN N = DOMAIN T
  /\ \A pk \in DOMAIN T : N[pk].group = T[pk].group /\ (N[pk].row # NoRow => T[pk].row # NoRow)

(* What the synchronisation found missing is still missing.                *)
StillNone == \A w \in Workers :
  req[w].pc = "grant" /\ req[w].seen = NoRow => NoneLive(rows, req[w].copy.to)

LEMMA ShrinksPut ==
  ASSUME NEW T \in Seq(Row), NEW pk \in DOMAIN T, NEW row \in AccessRow \cup {NoRow},
         row # NoRow => T[pk].row # NoRow
  PROVE  Shrinks(T, [T EXCEPT ![pk].row = row])
<1> DEFINE N == [T EXCEPT ![pk].row = row]
<1>1. /\ DOMAIN N = DOMAIN T
      /\ \A i \in DOMAIN T : N[i].group = T[i].group /\ N[i].row = IF i = pk THEN row ELSE T[i].row
  BY PutRow
<1> HIDE DEF N
<1>2. Shrinks(T, N)
  BY <1>1 DEF Shrinks
<1> QED BY <1>2 DEF N

LEMMA ShrinksUnique ==
  ASSUME NEW T, NEW N, Shrinks(T, N)
  PROVE  /\ Unique(T) => Unique(N)
         /\ \A g : NoneLive(T, g) => NoneLive(N, g)
BY DEF Shrinks, Unique, NoneLive

LEMMA UniqueAdd ==
  ASSUME NEW T \in Seq(Row), NEW g \in Groups, NEW row \in AccessRow, Unique(T), NoneLive(T, g)
  PROVE  Unique(Append(T, [group |-> g, row |-> row]))
<1>1. PICK new \in Row : new = [group |-> g, row |-> row]
  BY DEF Row
<1>2. PICK N : N = Append(T, new)
  OBVIOUS
<1>3. /\ DOMAIN N = DOMAIN T \cup {Len(T) + 1} /\ Len(T) + 1 \notin DOMAIN T
      /\ N[Len(T) + 1] = new /\ \A i \in DOMAIN T : N[i] = T[i]
  BY <1>2, AddRow
<1>4. PICK last : last = Len(T) + 1
  OBVIOUS
<1>5. new.group = g
  BY <1>1
<1>6. Unique(N)
  BY <1>3, <1>4, <1>5 DEF Unique, NoneLive
<1> QED BY <1>1, <1>2, <1>6

LEMMA UniqueSync ==
  ASSUME NEW T \in Seq(Row), NEW table, NEW g \in Groups, Unique(T)
  PROVE  Unique(SyncedRows(table, T, g))
<1>1. ASSUME NEW pk \in DOMAIN T, NEW has \in BOOLEAN, NEW open \in BOOLEAN, open => has,
             T[pk].row \in AccessRow,
             SyncedRows(table, T, g) = [T EXCEPT ![pk].row = Synced(T[pk].row, has, open)]
      PROVE  Unique(SyncedRows(table, T, g))
  <2>1. PICK new : new = Synced(T[pk].row, has, open)
    OBVIOUS
  <2>2. new \in AccessRow \cup {NoRow} /\ T[pk].row # NoRow
    BY <1>1, <2>1, SyncedRow, RowsAssumption
  <2>3. Shrinks(T, [T EXCEPT ![pk].row = new])
    BY <2>2, ShrinksPut
  <2> QED BY <1>1, <2>1, <2>3, ShrinksUnique
<1>2. ASSUME NEW row \in AccessRow, NoneLive(T, g),
             SyncedRows(table, T, g) = Append(T, [group |-> g, row |-> row])
      PROVE  Unique(SyncedRows(table, T, g))
  BY <1>2, UniqueAdd
<1> QED BY <1>1, <1>2, SyncedRowsIs

LEMMA OneRowInit == RequestsInit => Unique(rows) /\ StillNone
<1> SUFFICES ASSUME RequestsInit PROVE Unique(rows) /\ StillNone
  OBVIOUS
<1>1. StillNone
  BY IdleIs DEF RequestsInit, StillNone
<1>2. PICK n \in 0..MaxRows : \E of \in [1..n -> Groups], caps \in [1..n -> GrantCaps] :
        /\ \A i, j \in 1..n : of[i] = of[j] => i = j
        /\ rows = [pk \in 1..n |-> [group |-> of[pk], row |-> OrganicRow(caps[pk])]]
  BY DEF RequestsInit
<1>3. PICK of \in [1..n -> Groups] : \E caps \in [1..n -> GrantCaps] :
        /\ \A i, j \in 1..n : of[i] = of[j] => i = j
        /\ rows = [pk \in 1..n |-> [group |-> of[pk], row |-> OrganicRow(caps[pk])]]
  BY <1>2
<1>4. PICK caps \in [1..n -> GrantCaps] :
        /\ \A i, j \in 1..n : of[i] = of[j] => i = j
        /\ rows = [pk \in 1..n |-> [group |-> of[pk], row |-> OrganicRow(caps[pk])]]
  BY <1>3
<1>5. Unique(rows)
  BY <1>4 DEF Unique
<1> QED BY <1>1, <1>5

LEMMA OneRowNext ==
  ASSUME OneWorker
  PROVE  Typed /\ Unique(rows) /\ StillNone /\ [RequestsNext]_allVars => (Unique(rows) /\ StillNone)'
<1> SUFFICES ASSUME Typed, Unique(rows), StillNone, [RequestsNext]_allVars
             PROVE  Unique(rows') /\ StillNone'
  BY DEF Unique, StillNone
<1>0. rows \in Seq(Row) /\ \A v, w \in Workers : v = w
  BY DEF OneWorker, Typed
(* Every statement but a synchronisation's.                                *)
<1>1. ASSUME NEW w \in Workers, rows' = rows, req'[w].pc # "grant"
      PROVE  Unique(rows') /\ StillNone'
  BY <1>0, <1>1 DEF StillNone
<1>2. ASSUME NEW w \in Workers, NEW r \in Ids, LoadOne(w, r)
      PROVE  Unique(rows') /\ StillNone'
  <2>1. ASSUME NEW g \in Groups, LoadRefer(w, r, g) PROVE Unique(rows') /\ StillNone'
    BY <1>1, <2>1, LoadReferIs
  <2>2. ASSUME NEW pc \in {"previous", "commit"}, NEW op \in {"saved", "deleted"} \cup Lifecycle,
               NEW copy \in ReferralRow, Begin(w, pc, op, r, copy)
        PROVE  Unique(rows') /\ StillNone'
    <3>1. rows' = rows /\ req'[w].pc = pc
      BY <2>2, BeginIs DEF Aside
    <3> QED BY <1>1, <3>1
  <2>3. ASSUME NEW status \in {"responded", "recalled"}, LoadClose(w, r, status)
        PROVE  Unique(rows') /\ StillNone'
    <3>1. PICK copy : copy = [referral[r] EXCEPT !.status = status]
      OBVIOUS
    <3>2. copy \in ReferralRow
      BY <2>3, <3>1 DEF LoadClose, Typed, ReferralRow
    <3>3. Begin(w, "previous", status, r, copy)
      BY <2>3, <3>1 DEF LoadClose
    <3> QED BY <2>2, <3>2, <3>3
  <2>4. ASSUME NEW row \in AdminRows, LoadAdminSave(w, r, row)
        PROVE  Unique(rows') /\ StillNone'
    <3>1. row \in ReferralRow /\ Begin(w, "commit", "saved", r, row)
      BY <2>4, RowsAssumption DEF LoadAdminSave
    <3> QED BY <2>2, <3>1
  <2>5. ASSUME LoadDelete(w, r) PROVE Unique(rows') /\ StillNone'
    <3>1. referral[r] \in ReferralRow /\ Begin(w, "commit", "deleted", r, referral[r])
      BY <2>5 DEF LoadDelete, Typed
    <3> QED BY <2>2, <3>1
  <2> QED BY <1>2, <2>1, <2>3, <2>4, <2>5 DEF LoadOne
<1>3. ASSUME NEW w \in Workers, NEW R \in SUBSET Ids, SelectExpired(w, R)
      PROVE  Unique(rows') /\ StillNone'
  BY <1>1, <1>3, SelectExpiredIs DEF Aside
<1>4. ASSUME NEW w \in Workers, NEW r \in Ids, TakeExpired(w, r)
      PROVE  Unique(rows') /\ StillNone'
  BY <1>1, <1>4, TakeExpiredIs DEF Aside
<1>5. ASSUME NEW w \in Workers, Insert(w) \/ Write(w) PROVE Unique(rows') /\ StillNone'
  BY <1>1, <1>5, WriteIs
<1>6. ASSUME NEW w \in Workers, ReadPrevious(w) PROVE Unique(rows') /\ StillNone'
  BY <1>1, <1>6, ReadPreviousIs DEF Aside
<1>7. ASSUME NEW w \in Workers, EmitEvent(w) PROVE Unique(rows') /\ StillNone'
  BY <1>1, <1>7, EmitEventIs
<1>8. ASSUME NEW w \in Workers, ReadHas(w) \/ ReadOpen(w) PROVE Unique(rows') /\ StillNone'
  BY <1>1, <1>8, ReadFlagIs DEF Aside
(* The row is looked for in the rows as they are.                          *)
<1>9. ASSUME NEW w \in Workers, ReadRow(w) PROVE Unique(rows') /\ StillNone'
  <2>1. /\ rows' = rows /\ req'[w].copy = req[w].copy
        /\ req'[w].seen = NoRow => NoneLive(rows, req[w].copy.to)
    BY <1>9, ReadRowIs DEF Aside, Same
  <2> QED BY <1>0, <2>1 DEF StillNone
<1>10. ASSUME NEW w \in Workers, CreateRow(w) PROVE Unique(rows') /\ StillNone'
  <2>1. /\ req[w].pc = "grant" /\ req'[w].pc = "alert" /\ req[w].seen = NoRow
        /\ \/ rows' = rows
           \/ \E row \in AccessRow : rows' = Append(rows, [group |-> req[w].copy.to, row |-> row])
    BY <1>10, CreateRowIs
  <2>2. PICK g \in Groups : g = req[w].copy.to
    BY <2>1 DEF Typed, Working, ReferralRow
  <2>3. NoneLive(rows, g)
    BY <2>1, <2>2 DEF StillNone
  <2>4. Unique(rows')
    BY <1>0, <2>1, <2>2, <2>3, UniqueAdd
  <2> QED BY <1>0, <2>1, <2>4 DEF StillNone
<1>11. ASSUME NEW w \in Workers, UpdateRow(w) PROVE Unique(rows') /\ StillNone'
  <2>1. /\ req[w].pc = "grant" /\ req[w].seen # NoRow /\ req'[w].pc # "grant"
        /\ \/ rows' = rows
           \/ /\ rows[req[w].pk].row # NoRow
              /\ \E open \in BOOLEAN :
                   rows' = [rows EXCEPT ![req[w].pk].row =
                              Written(rows[req[w].pk].row, Aligned(req[w].seen, open))]
    BY <1>11, UpdateRowIs
  <2>2. PICK pk \in DOMAIN rows, seen \in AccessRow : pk = req[w].pk /\ seen = req[w].seen
    BY <2>1 DEF Typed, Job
  <2>3. ASSUME rows[pk].row # NoRow, NEW open \in BOOLEAN,
               rows' = [rows EXCEPT ![pk].row = Written(rows[pk].row, Aligned(seen, open))]
        PROVE  Unique(rows')
    <3>1. PICK aligned \in AccessRow : aligned = Aligned(seen, open)
      BY AlignedIs
    <3>2. rows[pk].row \in AccessRow
      BY <1>0, <2>3, RowType
    <3>3. PICK new \in AccessRow : new = Written(rows[pk].row, aligned)
      BY <3>2, WrittenIs
    <3>4. Shrinks(rows, [rows EXCEPT ![pk].row = new])
      BY <1>0, <2>3, ShrinksPut
    <3> QED BY <2>3, <3>1, <3>3, <3>4, ShrinksUnique
  <2>4. Unique(rows')
    BY <2>1, <2>2, <2>3
  <2> QED BY <1>0, <2>1, <2>4 DEF StillNone
<1>12. ASSUME NEW w \in Workers, DropRow(w) PROVE Unique(rows') /\ StillNone'
  <2>1. /\ req[w].pc = "drop" /\ req'[w].pc = "alert"
        /\ rows' = [rows EXCEPT ![req[w].pk].row = NoRow]
    BY <1>12, DropRowIs
  <2>2. PICK pk \in DOMAIN rows, gone \in AccessRow \cup {NoRow} : pk = req[w].pk /\ gone = NoRow
    BY <2>1 DEF Typed
  <2>3. Shrinks(rows, [rows EXCEPT ![pk].row = gone])
    BY <1>0, <2>2, ShrinksPut
  <2>4. Unique(rows')
    BY <2>1, <2>2, <2>3, ShrinksUnique
  <2> QED BY <1>0, <2>1, <2>4 DEF StillNone
<1>13. ASSUME NEW w \in Workers, SendAlert(w) PROVE Unique(rows') /\ StillNone'
  BY <1>1, <1>13, SendAlertIs
<1>14. ASSUME NEW w \in Workers, CommitSave(w) PROVE Unique(rows') /\ StillNone'
  <2>1. PICK table :
          \/ rows' = SyncedRows(table, rows, req[w].copy.to)
          \/ \E g \in Groups : rows' = SyncedRows(table, SyncedRows(table, rows, req[w].copy.to), g)
    BY <1>14, CommitSaveIs
  <2>2. req[w].pc = "commit" /\ req'[w].pc = "idle"
    BY <1>14, CommitSaveIs
  <2>3. PICK to \in Groups : to = req[w].copy.to
    BY <2>2 DEF Typed, Working, ReferralRow
  <2>4. PICK T : T = SyncedRows(table, rows, to)
    OBVIOUS
  <2>5. T \in Seq(Row) /\ Unique(T)
    BY <1>0, <2>3, <2>4, SyncGrows, UniqueSync
  <2>6. Unique(rows')
    BY <2>1, <2>3, <2>4, <2>5, UniqueSync
  <2> QED BY <1>0, <2>2, <2>6 DEF StillNone
<1>15. ASSUME NEW w \in Workers, CommitDelete(w) PROVE Unique(rows') /\ StillNone'
  <2>1. PICK table : rows' = SyncedRows(table, rows, req[w].copy.to)
    BY <1>15, CommitDeleteIs
  <2>2. req[w].pc = "commit" /\ req'[w].pc = "idle"
    BY <1>15, CommitDeleteIs
  <2>3. req[w].copy.to \in Groups
    BY <2>2 DEF Typed, Working, ReferralRow
  <2>4. Unique(rows')
    BY <1>0, <2>1, <2>3, UniqueSync
  <2> QED BY <1>0, <2>2, <2>4 DEF StillNone
<1>16. ASSUME NEW w \in Workers, Crash(w) PROVE Unique(rows') /\ StillNone'
  BY <1>1, <1>16, CrashIs
<1>17. ASSUME Shrinks(rows, rows'), req' = req PROVE Unique(rows') /\ StillNone'
  BY <1>17, ShrinksUnique DEF StillNone
<1>18. ASSUME NEW pk \in DOMAIN rows, NEW more \in AdminGrants, AdminWidenRow(pk, more)
       PROVE  Unique(rows') /\ StillNone'
  <2>1. /\ req' = req /\ rows[pk].row \in AccessRow
        /\ \E row \in AccessRow : rows' = [rows EXCEPT ![pk].row = row]
    BY <1>18, WidenIs
  <2>2. rows[pk].row # NoRow
    BY <2>1, RowsAssumption
  <2>3. Shrinks(rows, rows')
    <3>1. PICK row \in AccessRow : rows' = [rows EXCEPT ![pk].row = row]
      BY <2>1
    <3>2. Shrinks(rows, [rows EXCEPT ![pk].row = row])
      BY <1>0, <2>2, ShrinksPut
    <3> QED BY <3>1, <3>2
  <2> QED BY <1>17, <2>1, <2>3
<1>19. CASE UNCHANGED allVars
  BY <1>17, <1>19 DEF allVars, tables, Shrinks
<1> QED BY <1>2, <1>3, <1>4, <1>5, <1>6, <1>7, <1>8, <1>9, <1>10, <1>11, <1>12, <1>13, <1>14,
           <1>15, <1>16, <1>18, <1>19 DEF RequestsNext, Load, Continue

(* One process at a time never leaves a group two live rows, for every     *)
(* number of groups and referrals and every grant an administrator adds    *)
(* in between.                                                             *)
THEOREM OneRowWhenSerial ==
  ASSUME OneWorker PROVE SerialSpec => []OneRowPerGroup
<1>1. SerialInit => Typed /\ Unique(rows) /\ StillNone
  BY TypedInit, OneRowInit DEF SerialInit
<1>2. Typed /\ (Unique(rows) /\ StillNone) /\ [SerialNext]_<<allVars, before>>
        => Typed' /\ (Unique(rows) /\ StillNone)'
  BY TypedNext, OneRowNext DEF SerialNext
<1>3. Unique(rows) => OneRowPerGroup
  BY DEF Unique, OneRowPerGroup, Live
<1> QED BY <1>1, <1>2, <1>3, PTL DEF SerialSpec

-----------------------------------------------------------------------------
(* The refinement: one process at a time does what Referrals says.         *)

(* A group's live row, as the refinement mapping picks it.                 *)
RowFor(T, g) ==
  LET mine == {pk \in DOMAIN T : T[pk].group = g /\ T[pk].row # NoRow}
  IN  IF mine = {} THEN NoRow ELSE T[CHOOSE pk \in mine : TRUE].row

LEMMA RowForLive ==
  ASSUME NEW T, Unique(T), NEW pk \in DOMAIN T, T[pk].row # NoRow
  PROVE  RowFor(T, T[pk].group) = T[pk].row
<1> DEFINE mine == {i \in DOMAIN T : T[i].group = T[pk].group /\ T[i].row # NoRow}
<1>1. mine = {pk}
  BY DEF Unique
<1>2. RowFor(T, T[pk].group) = IF mine = {} THEN NoRow ELSE T[CHOOSE i \in mine : TRUE].row
  BY DEF RowFor
<1> HIDE DEF mine
<1> QED BY <1>1, <1>2

LEMMA RowForNone ==
  ASSUME NEW T, NEW g, NoneLive(T, g)
  PROVE  RowFor(T, g) = NoRow
BY DEF RowFor, NoneLive

(* It is the one row there is, or none is there.                           *)
LEMMA RowForIs ==
  ASSUME NEW T \in Seq(Row), NEW g, Unique(T)
  PROVE  /\ RowFor(T, g) \in AccessRow \cup {NoRow}
         /\ \/ RowFor(T, g) = NoRow /\ NoneLive(T, g)
            \/ \E pk \in DOMAIN T :
                 T[pk].group = g /\ T[pk].row # NoRow /\ RowFor(T, g) = T[pk].row
<1>1. CASE NoneLive(T, g)
  BY <1>1, RowForNone
<1>2. CASE ~NoneLive(T, g)
  <2>1. PICK pk \in DOMAIN T : T[pk].group = g /\ T[pk].row # NoRow
    BY <1>2 DEF NoneLive
  <2>2. RowFor(T, g) = T[pk].row
    BY <2>1, RowForLive
  <2> QED BY <2>1, <2>2, RowType
<1> QED BY <1>1, <1>2

LEMMA RowForPut ==
  ASSUME NEW T \in Seq(Row), Unique(T), NEW pk \in DOMAIN T, T[pk].row # NoRow,
         NEW row \in AccessRow \cup {NoRow}, NEW g
  PROVE  RowFor([T EXCEPT ![pk].row = row], g) = IF g = T[pk].group THEN row ELSE RowFor(T, g)
<1> DEFINE N == [T EXCEPT ![pk].row = row]
<1>0. N \in Seq(Row)
  BY PutRow
<1>1. /\ DOMAIN N = DOMAIN T
      /\ \A i \in DOMAIN T : N[i].group = T[i].group /\ N[i].row = IF i = pk THEN row ELSE T[i].row
  BY PutRow
<1> HIDE DEF N
<1>2. /\ N \in Seq(Row) /\ DOMAIN N = DOMAIN T
      /\ \A i \in DOMAIN T : N[i].group = T[i].group /\ N[i].row = IF i = pk THEN row ELSE T[i].row
  BY <1>0, <1>1
<1>3. Unique(N)
  BY <1>2 DEF Unique
<1>4. ASSUME NoneLive(N, g)
      PROVE  RowFor(N, g) = IF g = T[pk].group THEN row ELSE RowFor(T, g)
  <2>1. RowFor(N, g) = NoRow
    BY <1>4, RowForNone
  <2>2. CASE g = T[pk].group
    BY <1>2, <1>4, <2>1, <2>2 DEF NoneLive
  <2>3. CASE g # T[pk].group
    <3>1. NoneLive(T, g)
      BY <1>2, <1>4, <2>3 DEF NoneLive
    <3> QED BY <2>1, <2>3, <3>1, RowForNone
  <2> QED BY <2>2, <2>3
<1>5. ASSUME NEW i \in DOMAIN N, N[i].group = g, N[i].row # NoRow
      PROVE  RowFor(N, g) = IF g = T[pk].group THEN row ELSE RowFor(T, g)
  <2>1. RowFor(N, g) = N[i].row
    BY <1>3, <1>5, RowForLive
  <2>2. CASE g = T[pk].group
    <3>1. T[i].row # NoRow /\ T[i].group = T[pk].group
      BY <1>2, <1>5, <2>2
    <3>2. i = pk
      BY <1>2, <3>1 DEF Unique
    <3> QED BY <1>2, <2>1, <2>2, <3>2
  <2>3. CASE g # T[pk].group
    <3>1. T[i].row = N[i].row /\ T[i].group = g /\ i \in DOMAIN T
      BY <1>2, <1>5, <2>3
    <3>2. RowFor(T, g) = T[i].row
      BY <1>5, <3>1, RowForLive
    <3> QED BY <2>1, <2>3, <3>1, <3>2
  <2> QED BY <2>2, <2>3
<1>6. RowFor(N, g) = IF g = T[pk].group THEN row ELSE RowFor(T, g)
  BY <1>4, <1>5 DEF NoneLive
<1> QED BY <1>6 DEF N

LEMMA RowForAdd ==
  ASSUME NEW T \in Seq(Row), Unique(T), NEW to \in Groups, NEW row \in AccessRow,
         NoneLive(T, to), NEW g
  PROVE  RowFor(Append(T, [group |-> to, row |-> row]), g) = IF g = to THEN row ELSE RowFor(T, g)
<1>1. PICK new \in Row : new = [group |-> to, row |-> row]
  BY DEF Row
<1>2. PICK N : N = Append(T, new)
  OBVIOUS
<1>3. PICK last : last = Len(T) + 1
  OBVIOUS
<1>4. /\ DOMAIN N = DOMAIN T \cup {last} /\ last \notin DOMAIN T
      /\ N[last] = new /\ \A i \in DOMAIN T : N[i] = T[i]
  BY <1>2, <1>3, AddRow
<1>5. Unique(N)
  BY <1>1, <1>2, UniqueAdd
<1>6. new.group = to /\ new.row = row /\ row # NoRow
  BY <1>1, RowsAssumption
<1>7. CASE g = to
  <2>1. RowFor(N, N[last].group) = N[last].row
    BY <1>4, <1>5, <1>6, RowForLive
  <2> QED BY <1>1, <1>2, <1>4, <1>6, <1>7, <2>1
<1>8. CASE g # to
  <2>1. CASE NoneLive(T, g)
    <3>1. NoneLive(N, g)
      BY <1>4, <1>6, <1>8, <2>1 DEF NoneLive
    <3> QED BY <1>1, <1>2, <1>8, <2>1, <3>1, RowForNone
  <2>2. ASSUME NEW i \in DOMAIN T, T[i].group = g, T[i].row # NoRow
        PROVE  RowFor(N, g) = RowFor(T, g)
    <3>1. i \in DOMAIN N /\ N[i] = T[i]
      BY <1>4
    <3>2. RowFor(T, g) = T[i].row
      BY <2>2, RowForLive
    <3>3. RowFor(N, g) = N[i].row
      BY <1>5, <2>2, <3>1, RowForLive
    <3> QED BY <3>1, <3>2, <3>3
  <2> QED BY <1>1, <1>2, <1>8, <2>1, <2>2 DEF NoneLive
<1> QED BY <1>7, <1>8

(* The rows after one synchronisation: the group's own row is the synced   *)
(* one, and no other is touched.                                           *)
LEMMA RowForSync ==
  ASSUME NEW T \in Seq(Row), Unique(T), NEW table, NEW to \in Groups, NEW g
  PROVE  RowFor(SyncedRows(table, T, to), g) =
           IF g = to THEN Synced(RowFor(T, to), HasReferral(table, to), HasOpenReferral(table, to))
           ELSE RowFor(T, g)
<1>1. PICK pk : pk = FirstRow(T, to)
  OBVIOUS
<1>2. PICK new : new = Synced(RowOf(T, pk), HasReferral(table, to), HasOpenReferral(table, to))
  OBVIOUS
<1>3. RowOf(T, pk) \in AccessRow \cup {NoRow}
      /\ RowOf(T, pk) = RowFor(T, to)
  <2>1. CASE pk = 0
    <3>1. NoneLive(T, to)
      BY <1>1, <2>1, FirstRowIs DEF NoneLive
    <3> QED BY <2>1, <3>1, RowForNone DEF RowOf
  <2>2. CASE pk # 0
    <3>1. pk \in DOMAIN T /\ T[pk].group = to /\ T[pk].row # NoRow
      BY <1>1, <2>2, FirstRowIs
    <3> QED BY <2>2, <3>1, RowForLive, RowType DEF RowOf
  <2> QED BY <2>1, <2>2
<1>4. new \in AccessRow \cup {NoRow}
  BY <1>2, <1>3, SyncedRow, FlagsBoolean, OpenReferralIsReferral
<1>5. SyncedRows(table, T, to) =
        IF pk # 0 THEN [T EXCEPT ![pk].row = new]
        ELSE IF new = NoRow THEN T ELSE Append(T, [group |-> to, row |-> new])
  BY <1>1, <1>2 DEF SyncedRows
<1>6. RowFor(SyncedRows(table, T, to), g) = IF g = to THEN new ELSE RowFor(T, g)
  <2>1. CASE pk # 0
    <3>1. pk \in DOMAIN T /\ T[pk].group = to /\ T[pk].row # NoRow
      BY <1>1, <2>1, FirstRowIs
    <3>2. RowFor([T EXCEPT ![pk].row = new], g) = IF g = to THEN new ELSE RowFor(T, g)
      BY <1>4, <3>1, RowForPut
    <3> QED BY <1>5, <2>1, <3>2
  <2>2. CASE pk = 0
    <3>1. NoneLive(T, to)
      BY <1>1, <2>2, FirstRowIs DEF NoneLive
    <3>2. CASE new = NoRow
      BY <1>5, <2>2, <3>1, <3>2, RowForNone
    <3>3. CASE new # NoRow
      BY <1>4, <1>5, <2>2, <3>1, <3>3, RowForAdd
    <3> QED BY <3>2, <3>3
  <2> QED BY <2>1, <2>2
<1> QED BY <1>2, <1>3, <1>6

(* Writing can_edit and its mark back over the row read writes all the     *)
(* synchronisation changed.                                                *)
LEMMA WrittenBack ==
  ASSUME NEW row \in AccessRow, NEW open \in BOOLEAN
  PROVE  Written(row, Aligned(row, open)) = Aligned(row, open)
<1>1. CASE open
  BY <1>1, RowsAssumption DEF Written, Aligned, Raise, AccessRow
<1>2. CASE ~open
  BY <1>2, RowsAssumption DEF Written, Aligned, Lower, AccessRow
<1> QED BY <1>1, <1>2

(* A synchronisation gives and takes nothing that was given.               *)
LEMMA GivenStays ==
  ASSUME NEW row \in AccessRow \cup {NoRow}, NEW has \in BOOLEAN, NEW open \in BOOLEAN, open => has
  PROVE  Given(Synced(row, has, open)) = Given(row)
<1>1. CASE row = NoRow
  BY <1>1, RowsAssumption DEF Given, Synced, NewRow
<1>2. CASE row # NoRow /\ open
  <2>1. row \in AccessRow /\ Synced(row, has, open) = Raise(row)
    BY <1>2 DEF Synced, Aligned
  <2>2. Raise(row) \in AccessRow /\ Raise(row).origin = row.origin
        /\ Raise(row).caps \ Raise(row).raised = row.caps \ row.raised
    BY <2>1, RowsAssumption DEF Raise, AccessRow
  <2> QED BY <1>2, <2>1, <2>2, RowsAssumption DEF Given
<1>3. CASE row # NoRow /\ ~open
  <2>1. row \in AccessRow
        /\ \/ Synced(row, has, open) = NoRow /\ row.origin = "referral"
           \/ Synced(row, has, open) = Lower(row)
    BY <1>3 DEF Synced, Aligned
  <2>2. Lower(row) \in AccessRow /\ Lower(row).origin = row.origin
        /\ Lower(row).caps \ Lower(row).raised = row.caps \ row.raised
    <3>1. row.raised = {} \/ row.raised = {"edit"}
      BY <2>1 DEF AccessRow
    <3>2. CASE row.raised = {}
      BY <2>1, <3>2 DEF Lower
    <3>3. CASE row.raised = {"edit"}
      <4>1. PICK new : new = [row EXCEPT !.caps = @ \ {"edit"}, !.raised = {}]
        OBVIOUS
      <4>2. /\ new.caps = row.caps \ {"edit"} /\ new.raised = {} /\ new.origin = row.origin
            /\ new \in AccessRow
        BY <2>1, <4>1 DEF AccessRow
      <4>3. Lower(row) = new
        BY <3>3, <4>1 DEF Lower
      <4> QED BY <3>3, <4>2, <4>3
    <3> QED BY <3>1, <3>2, <3>3
  <2> QED BY <1>3, <2>1, <2>2, RowsAssumption DEF Given
<1> QED BY <1>1, <1>2, <1>3

LEMMA SameGrants ==
  /\ \A table, g : Atomic!HasReferral(table, g) = HasReferral(table, g)
  /\ \A table, g : Atomic!HasOpenReferral(table, g) = HasOpenReferral(table, g)
  /\ \A row, has, open : Atomic!Synced(row, has, open) = Synced(row, has, open)
  /\ \A old, row : Atomic!EventsOf(old, row) = EventsOf(old, row)
<1>1. \A table, g : Atomic!HasReferral(table, g) = HasReferral(table, g)
  BY DEF Atomic!HasReferral, HasReferral
<1>2. \A table, g : Atomic!HasOpenReferral(table, g) = HasOpenReferral(table, g)
  BY DEF Atomic!HasOpenReferral, HasOpenReferral
<1>3. \A row, open : Atomic!Aligned(row, open) = Aligned(row, open)
  BY DEF Atomic!Aligned, Aligned, Atomic!Raise, Raise, Atomic!Lower, Lower
<1>4. \A row, has, open : Atomic!Synced(row, has, open) = Synced(row, has, open)
  BY <1>3 DEF Atomic!Synced, Synced, Atomic!NewRow, NewRow, Atomic!GrantsOnlyView, GrantsOnlyView
<1>5. \A old, row : Atomic!EventsOf(old, row) = EventsOf(old, row)
  BY DEF Atomic!EventsOf, EventsOf, Atomic!Lifecycle, Lifecycle
<1> QED BY <1>1, <1>2, <1>4, <1>5

-----------------------------------------------------------------------------
(* A save, as what is shown of the tables before and after it.             *)
LEMMA ShownSave ==
  ASSUME NEW r \in Ids, NEW row \in ReferralRow, NEW old, NEW table,
         old = Shown.referral[r], table = [Shown.referral EXCEPT ![r] = row],
         Shown'.referral = table,
         Shown'.events = Shown.events \cup (EventsOf(old, row) \cap Registered),
         \A g \in Groups : ShownRow(g) \in AccessRow \cup {NoRow},
         \A g \in Groups : ShownRow(g)' =
           IF g = row.to \/ (old # NoReferral /\ g = old.to)
           THEN Synced(ShownRow(g), HasReferral(table, g), HasOpenReferral(table, g))
           ELSE ShownRow(g)
  PROVE  /\ Atomic!Save(r, row)
         /\ UNCHANGED [g \in Groups |-> Given(ShownRow(g))]
<1>1. Atomic!SavedGroups(r, row) = {row.to} \cup (IF old = NoReferral THEN {} ELSE {old.to})
  BY DEF Atomic!SavedGroups
<1>2. PICK S : S = Atomic!SavedGroups(r, row)
  OBVIOUS
<1>3. \A g : g \in S <=> g = row.to \/ (old # NoReferral /\ g = old.to)
  BY <1>1, <1>2
<1>4. \A g \in Groups : ShownRow(g)' =
        IF g \in S
        THEN Atomic!Synced(ShownRow(g), Atomic!HasReferral(table, g), Atomic!HasOpenReferral(table, g))
        ELSE ShownRow(g)
  BY <1>3, SameGrants
<1>5. Atomic!SyncedTable(table, S) = [g \in Groups |-> ShownRow(g)']
  BY <1>4 DEF Atomic!SyncedTable
<1>6. Atomic!Synchronise(table, S)
  BY <1>5 DEF Atomic!Synchronise
<1>7. Atomic!Emit(Atomic!EventsOf(old, row))
  BY SameGrants DEF Atomic!Emit
<1>8. Atomic!Save(r, row)
  BY <1>2, <1>6, <1>7 DEF Atomic!Save
<1>9. \A g \in Groups : Given(ShownRow(g)') = Given(ShownRow(g))
  BY GivenStays, FlagsBoolean, OpenReferralIsReferral
<1> QED BY <1>8, <1>9

-----------------------------------------------------------------------------
(* What the one request under way knows of the tables, statement by        *)
(* statement.                                                              *)

Writing == {"event", "has", "open", "row", "grant", "drop", "alert"}

Opens(old, copy, op) == old = NoReferral /\ op = "created" /\ copy.status = "open"

Closes(old, copy, op) ==
  /\ op \in Lifecycle /\ old # NoReferral /\ old.status = "open"
  /\ copy = [old EXCEPT !.status = op]

(* Before its first write: the row it loaded is still the one there is.    *)
Loaded(w) ==
  /\ \A r \in Ids : r \notin used => referral[r] = NoReferral
  /\ req[w].pc \in Working => req[w].id \in used
  /\ \A r \in Ids : r \in DOMAIN req[w].batch =>
       /\ referral[r] = req[w].batch[r] /\ referral[r] # NoReferral /\ referral[r].status = "open"
       /\ req[w].pc \in Working => r # req[w].id
  /\ req[w].pc = "insert" => referral[req[w].id] = NoReferral /\ req[w].prev = NoReferral
  /\ req[w].pc \in {"previous", "write"} => Closes(referral[req[w].id], req[w].copy, req[w].op)
  /\ req[w].pc = "write" => req[w].prev = referral[req[w].id]
  /\ req[w].pc = "commit" => /\ referral[req[w].id] # NoReferral
                             /\ req[w].op = "saved" => /\ req[w].copy \in AdminRows
                                                       /\ req[w].copy # referral[req[w].id]
                             /\ req[w].op = "deleted" => req[w].copy = referral[req[w].id]

(* After it: the row and nothing else was written.                         *)
Saved(w) == req[w].pc \in Writing =>
  /\ before.referral \in [Ids -> ReferralRow \cup {NoReferral}]
  /\ before.rows \in Seq(Row) /\ Unique(before.rows)
  /\ \/ Opens(before.referral[req[w].id], req[w].copy, req[w].op)
     \/ Closes(before.referral[req[w].id], req[w].copy, req[w].op)
  /\ referral = [before.referral EXCEPT ![req[w].id] = req[w].copy]
  /\ alerts = before.alerts

Reports(w) ==
  /\ req[w].pc = "event" => req[w].prev = before.referral[req[w].id] /\ events = before.events
  /\ req[w].pc \in Writing \ {"event"} =>
       events = before.events \cup (EventsOf(before.referral[req[w].id], req[w].copy) \cap Registered)

(* The synchronisation under way: what it read is so, and what it wrote is *)
(* the row of its group alone.                                             *)
Target(w) == Synced(RowFor(before.rows, Group(w)), HasReferral(referral, Group(w)),
                    HasOpenReferral(referral, Group(w)))

Read(w) ==
  /\ req[w].pc \in {"open", "row", "grant", "drop"} => (req[w].has <=> HasReferral(referral, Group(w)))
  /\ req[w].pc \in {"row", "grant", "drop"} => (req[w].open <=> HasOpenReferral(referral, Group(w)))
  /\ req[w].pc \in {"event", "has", "open", "row", "grant"} => rows = before.rows
  /\ req[w].pc = "grant" => /\ req[w].seen = RowFor(rows, Group(w))
                            /\ req[w].seen # NoRow => /\ req[w].pk \in DOMAIN rows
                                                      /\ rows[req[w].pk].row = req[w].seen
                                                      /\ rows[req[w].pk].group = Group(w)
  /\ req[w].pc = "drop" => /\ req[w].pk \in DOMAIN rows
                           /\ rows[req[w].pk].row # NoRow
                           /\ rows[req[w].pk].group = Group(w)
                           /\ Target(w) = NoRow
                           /\ \A g \in Groups : g # Group(w) => RowFor(rows, g) = RowFor(before.rows, g)
  /\ req[w].pc = "alert" => \A g \in Groups :
       RowFor(rows, g) = IF g = Group(w) THEN Target(w) ELSE RowFor(before.rows, g)

InCourse == \A w \in Workers : Loaded(w) /\ Saved(w) /\ Reports(w) /\ Read(w)

LEMMA CourseInit == RequestsInit => InCourse
<1> SUFFICES ASSUME RequestsInit, NEW w \in Workers
             PROVE  Loaded(w) /\ Saved(w) /\ Reports(w) /\ Read(w)
  BY DEF InCourse
<1>1. req[w].pc = "idle" /\ req[w].batch = <<>> /\ \A r \in Ids : referral[r] = NoReferral
  BY IdleIs DEF RequestsInit
<1>2. DOMAIN <<>> = {}
  OBVIOUS
<1> QED BY <1>1, <1>2 DEF Loaded, Saved, Reports, Read, Writing, Working

(* A statement that ends before anything is written.                       *)
LEMMA CourseBefore ==
  ASSUME NEW w \in Workers, Loaded(w)', req'[w].pc \notin Writing
  PROVE  Loaded(w)' /\ Saved(w)' /\ Reports(w)' /\ Read(w)'
BY DEF Saved, Reports, Read, Writing

LEMMA CourseLoads ==
  ASSUME Typed, NEW w \in Workers, Loaded(w),
         \/ \E r \in Ids : LoadOne(w, r) \/ TakeExpired(w, r)
         \/ \E R \in SUBSET Ids : SelectExpired(w, R)
         \/ ReadPrevious(w)
  PROVE  Loaded(w)' /\ Saved(w)' /\ Reports(w)' /\ Read(w)'
<1>0. DOMAIN <<>> = {}
  OBVIOUS
<1>1. ASSUME NEW r \in Ids, NEW g \in Groups, LoadRefer(w, r, g)
      PROVE  Loaded(w)' /\ req'[w].pc \notin Writing
  <2>1. /\ UNCHANGED referral /\ r \notin used /\ used' = used \cup {r}
        /\ req'[w].pc = "insert" /\ req'[w].id = r /\ req'[w].prev = NoReferral
        /\ req'[w].batch = <<>>
    BY <1>1, LoadReferIs
  <2>2. \A i \in Ids : i \notin used => referral[i] = NoReferral
    BY DEF Loaded
  <2> QED BY <1>0, <2>1, <2>2 DEF Loaded, Writing
<1>2. ASSUME NEW r \in Ids, NEW pc \in {"previous", "commit"},
             NEW op \in {"saved", "deleted"} \cup Lifecycle, NEW copy \in ReferralRow,
             Begin(w, pc, op, r, copy), referral[r] # NoReferral,
             pc = "previous" => Closes(referral[r], copy, op),
             pc = "commit" /\ op = "saved" => copy \in AdminRows /\ copy # referral[r],
             pc = "commit" /\ op = "deleted" => copy = referral[r]
      PROVE  Loaded(w)' /\ req'[w].pc \notin Writing
  <2>1. /\ UNCHANGED <<referral, used>> /\ req'[w].pc = pc /\ req'[w].op = op
        /\ req'[w].id = r /\ req'[w].copy = copy /\ req'[w].batch = <<>>
    BY <1>2, BeginIs DEF Aside
  <2>2. \A i \in Ids : i \notin used => referral[i] = NoReferral
    BY DEF Loaded
  <2>3. r \in used
    BY <1>2, <2>2
  <2> QED BY <1>0, <1>2, <2>1, <2>2, <2>3 DEF Loaded, Writing
<1>3. ASSUME NEW r \in Ids, LoadOne(w, r) PROVE Loaded(w)' /\ req'[w].pc \notin Writing
  <2>1. ASSUME NEW status \in {"responded", "recalled"}, LoadClose(w, r, status)
        PROVE  Loaded(w)' /\ req'[w].pc \notin Writing
    <3>1. PICK copy : copy = [referral[r] EXCEPT !.status = status]
      OBVIOUS
    <3>2. copy \in ReferralRow /\ referral[r] # NoReferral /\ Closes(referral[r], copy, status)
      BY <2>1, <3>1 DEF LoadClose, Typed, ReferralRow, Closes
    <3>3. Begin(w, "previous", status, r, copy)
      BY <2>1, <3>1 DEF LoadClose
    <3> QED BY <1>2, <3>2, <3>3
  <2>2. ASSUME NEW row \in AdminRows, LoadAdminSave(w, r, row)
        PROVE  Loaded(w)' /\ req'[w].pc \notin Writing
    <3>1. /\ row \in ReferralRow /\ referral[r] # NoReferral /\ row # referral[r]
          /\ Begin(w, "commit", "saved", r, row)
      BY <2>2, RowsAssumption DEF LoadAdminSave
    <3> QED BY <1>2, <3>1
  <2>3. ASSUME LoadDelete(w, r) PROVE Loaded(w)' /\ req'[w].pc \notin Writing
    <3>1. /\ referral[r] \in ReferralRow /\ referral[r] # NoReferral
          /\ Begin(w, "commit", "deleted", r, referral[r])
      BY <2>3 DEF LoadDelete, Typed
    <3> QED BY <1>2, <3>1
  <2> QED BY <1>1, <1>3, <2>1, <2>2, <2>3 DEF LoadOne
<1>4. ASSUME NEW R \in SUBSET Ids, SelectExpired(w, R)
      PROVE  Loaded(w)' /\ req'[w].pc \notin Writing
  <2>1. /\ UNCHANGED <<referral, used>> /\ req'[w].pc = "batch" /\ DOMAIN req'[w].batch = R
        /\ \A r \in R : /\ referral[r] # NoReferral /\ referral[r].status = "open"
                        /\ req'[w].batch[r] = referral[r]
    BY <1>4, SelectExpiredIs DEF Aside
  <2> QED BY <2>1 DEF Loaded, Working, Writing
<1>5. ASSUME NEW r \in Ids, TakeExpired(w, r) PROVE Loaded(w)' /\ req'[w].pc \notin Writing
  <2>1. /\ UNCHANGED <<referral, used>> /\ req'[w].pc = "previous" /\ req'[w].op = "expired"
        /\ req'[w].id = r /\ r \in DOMAIN req[w].batch
        /\ DOMAIN req'[w].batch \subseteq DOMAIN req[w].batch /\ r \notin DOMAIN req'[w].batch
        /\ \A i \in DOMAIN req'[w].batch : req'[w].batch[i] = req[w].batch[i]
    BY <1>5, TakeExpiredIs DEF Aside
  <2>2. req'[w].copy = [req[w].batch[r] EXCEPT !.status = "expired"]
    BY <1>5, TakeExpiredIs
  <2>3. /\ referral[r] = req[w].batch[r] /\ referral[r] # NoReferral /\ referral[r].status = "open"
        /\ \A i \in Ids : i \notin used => referral[i] = NoReferral
    BY <2>1 DEF Loaded
  <2>4. Closes(referral[r], req'[w].copy, "expired")
    BY <2>2, <2>3 DEF Closes
  <2>5. \A i \in Ids : i \in DOMAIN req'[w].batch =>
          /\ referral[i] = req'[w].batch[i] /\ referral[i] # NoReferral /\ referral[i].status = "open"
          /\ i # r
    BY <2>1 DEF Loaded
  <2>6. r \in used
    BY <2>3
  <2> QED BY <2>1, <2>3, <2>4, <2>5, <2>6 DEF Loaded, Writing
<1>6. ASSUME ReadPrevious(w) PROVE Loaded(w)' /\ req'[w].pc \notin Writing
  <2>1. /\ Same(w) /\ UNCHANGED <<referral, used>> /\ req[w].pc = "previous"
        /\ req'[w].pc = "write" /\ req'[w].prev = referral[req[w].id]
    BY <1>6, ReadPreviousIs DEF Aside
  <2> QED BY <2>1 DEF Loaded, Same, Working, Writing
<1>7. Loaded(w)' /\ req'[w].pc \notin Writing
  BY <1>3, <1>4, <1>5, <1>6
<1> QED BY <1>7, CourseBefore

LEMMA CourseWrites ==
  ASSUME Typed, NEW w \in Workers, Loaded(w), Unique(rows), Insert(w) \/ Write(w), before' = Tables
  PROVE  Loaded(w)' /\ Saved(w)' /\ Reports(w)' /\ Read(w)'
<1>1. /\ Same(w) /\ UNCHANGED <<used, rows, events, alerts>> /\ req[w].pc \in {"insert", "write"}
      /\ req'[w].pc = "event" /\ req'[w].prev = req[w].prev
      /\ referral' = [referral EXCEPT ![req[w].id] = req[w].copy]
  BY WriteIs
<1>2a. PICK copy, op : copy = req[w].copy /\ op = req[w].op
  OBVIOUS
<1>2. PICK r \in Ids : r = req[w].id /\ copy = req[w].copy /\ op = req[w].op
  BY <1>1, <1>2a DEF Typed, Working
<1>3. req'[w].id = r /\ req'[w].copy = copy /\ req'[w].op = op /\ req'[w].batch = req[w].batch
  BY <1>1, <1>2 DEF Same
<1>4. /\ referral' = [referral EXCEPT ![r] = copy] /\ req[w].prev = referral[r] /\ r \in used
      /\ Opens(referral[r], copy, op) \/ Closes(referral[r], copy, op)
  BY <1>1, <1>2 DEF Loaded, Typed, Working, Opens
<1>5. \A i \in Ids : i # r => referral'[i] = referral[i]
  BY <1>4 DEF Typed
<1>6. /\ before'.referral = referral /\ before'.rows = rows /\ before'.events = events
      /\ before'.alerts = alerts
  BY DEF Tables
<1>7. Loaded(w)'
  <2>1. \A i \in Ids : i \in DOMAIN req[w].batch =>
          /\ referral'[i] = req[w].batch[i] /\ referral'[i] # NoReferral /\ referral'[i].status = "open"
          /\ i # r
    BY <1>1, <1>2, <1>5 DEF Loaded, Working
  <2>2. \A i \in Ids : i \notin used => referral'[i] = NoReferral
    BY <1>4, <1>5 DEF Loaded
  <2> QED BY <1>1, <1>3, <1>4, <2>1, <2>2 DEF Loaded
<1>8. Saved(w)'
  BY <1>1, <1>3, <1>4, <1>6 DEF Saved, Typed
<1>9. Reports(w)'
  BY <1>1, <1>3, <1>4, <1>6 DEF Reports, Writing
<1>10. Read(w)'
  BY <1>1, <1>6 DEF Read
<1> QED BY <1>7, <1>8, <1>9, <1>10

(* A statement after the first write that writes no referral.              *)
LEMMA CourseOn ==
  ASSUME NEW w \in Workers, Loaded(w), Saved(w), Same(w), UNCHANGED <<referral, used, alerts, before>>,
         req[w].pc \in Writing, req'[w].pc \in Writing
  PROVE  Loaded(w)' /\ Saved(w)'
<1>1. req'[w].id = req[w].id /\ req'[w].copy = req[w].copy /\ req'[w].op = req[w].op
      /\ req'[w].batch = req[w].batch
  BY DEF Same
<1>2. Loaded(w)'
  BY <1>1 DEF Loaded, Writing, Working
<1>3. Saved(w)'
  BY <1>1 DEF Saved
<1> QED BY <1>2, <1>3

LEMMA CourseEmits ==
  ASSUME Typed, NEW w \in Workers, Loaded(w), Saved(w), Reports(w), Read(w), EmitEvent(w),
         before' = before
  PROVE  Loaded(w)' /\ Saved(w)' /\ Reports(w)' /\ Read(w)'
<1>1. /\ Same(w) /\ UNCHANGED <<referral, used, rows, alerts>> /\ req[w].pc = "event"
      /\ req'[w].pc = "has" /\ events' = events \cup (Reported(req[w]) \cap Registered)
  BY EmitEventIs
<1>2. Loaded(w)' /\ Saved(w)'
  BY <1>1, CourseOn DEF Writing
<1>3. PICK old, copy : old = before.referral[req[w].id] /\ copy = req[w].copy
  OBVIOUS
<1>4. /\ req[w].prev = old /\ events = before.events
      /\ Opens(old, copy, req[w].op) \/ Closes(old, copy, req[w].op)
  BY <1>1, <1>3 DEF Saved, Reports, Writing
<1>5. Reported(req[w]) = EventsOf(old, copy)
  BY <1>3, <1>4 DEF Reported, Opens, Closes
<1>6. Reports(w)'
  BY <1>1, <1>3, <1>4, <1>5 DEF Reports, Same
<1>7. Read(w)'
  BY <1>1 DEF Read
<1> QED BY <1>2, <1>6, <1>7

LEMMA CourseReads ==
  ASSUME Typed, NEW w \in Workers, Loaded(w), Saved(w), Reports(w), Read(w), Unique(rows),
         ReadHas(w) \/ ReadOpen(w) \/ ReadRow(w), before' = before
  PROVE  Loaded(w)' /\ Saved(w)' /\ Reports(w)' /\ Read(w)'
<1>1. /\ Same(w) /\ Aside /\ req[w].pc \in {"has", "open", "row"}
      /\ req'[w].pc \in {"open", "row", "grant"}
  <2>1. CASE ReadHas(w) \/ ReadOpen(w)
    BY <2>1, ReadFlagIs
  <2>2. CASE ReadRow(w)
    BY <2>2, ReadRowIs
  <2> QED BY <2>1, <2>2
<1>2. Loaded(w)' /\ Saved(w)'
  BY <1>1, CourseOn DEF Writing, Aside
<1>3. Reports(w)'
  BY <1>1 DEF Reports, Same, Aside, Writing
<1>4. Group(w)' = Group(w) /\ referral' = referral /\ rows' = rows /\ rows = before.rows
  BY <1>1 DEF Group, Same, Aside, Read
<1>5. req[w] \in Job /\ req \in [Workers -> Job]
  BY DEF Typed
<1>6. ASSUME ReadHas(w) PROVE Read(w)'
  <2>1. PICK has \in BOOLEAN : has = HasReferral(referral, Group(w))
    BY FlagsBoolean
  <2> DEFINE job == [req[w] EXCEPT !.pc = "open", !.has = has]
  <2>2. job.pc = "open" /\ job.has = has
    BY <1>5 DEF Job
  <2>3. req' = [req EXCEPT ![w] = job]
    BY <1>6, <2>1 DEF ReadHas, Become
  <2> HIDE DEF job
  <2>4. req'[w].pc = "open" /\ req'[w].has = has
    BY <1>5, <2>2, <2>3
  <2>5. req'[w].has <=> HasReferral(referral, Group(w))
    BY <2>1, <2>4, Zenon
  <2> QED BY <1>4, <2>4, <2>5 DEF Read
<1>7. ASSUME ReadOpen(w) PROVE Read(w)'
  <2>1. PICK open \in BOOLEAN : open = HasOpenReferral(referral, Group(w))
    BY FlagsBoolean
  <2> DEFINE job == [req[w] EXCEPT !.pc = "row", !.open = open]
  <2>2. job.pc = "row" /\ job.open = open /\ job.has = req[w].has
    BY <1>5 DEF Job
  <2>3. req' = [req EXCEPT ![w] = job] /\ req[w].pc = "open"
    BY <1>7, <2>1 DEF ReadOpen, Become, At
  <2> HIDE DEF job
  <2>4. req'[w].pc = "row" /\ req'[w].open = open /\ req'[w].has = req[w].has
    BY <1>5, <2>2, <2>3
  <2>5. req'[w].open <=> HasOpenReferral(referral, Group(w))
    BY <2>1, <2>4, Zenon
  <2>6. req[w].has <=> HasReferral(referral, Group(w))
    BY <2>3 DEF Read
  <2> QED BY <1>4, <2>4, <2>5, <2>6 DEF Read
<1>8. ASSUME ReadRow(w) PROVE Read(w)'
  <2>1. PICK pk, seen : pk = FirstRow(rows, Group(w)) /\ seen = RowOf(rows, pk)
    OBVIOUS
  <2> DEFINE job == [req[w] EXCEPT !.pc = "grant", !.pk = pk, !.seen = seen]
  <2>2. /\ job.pc = "grant" /\ job.pk = pk /\ job.seen = seen /\ job.has = req[w].has
        /\ job.open = req[w].open
    BY <1>5 DEF Job
  <2>3. req' = [req EXCEPT ![w] = job] /\ req[w].pc = "row"
    BY <1>8, <2>1 DEF ReadRow, Become, At
  <2> HIDE DEF job
  <2>4. /\ req'[w].pc = "grant" /\ req'[w].pk = pk /\ req'[w].seen = seen
        /\ req'[w].has = req[w].has /\ req'[w].open = req[w].open
    BY <1>5, <2>2, <2>3
  <2>5. \/ pk = 0 /\ seen = NoRow /\ NoneLive(rows, Group(w))
        \/ pk \in DOMAIN rows /\ rows[pk].group = Group(w) /\ seen = rows[pk].row /\ seen # NoRow
    BY <2>1, FirstRowIs DEF RowOf, NoneLive, Typed
  <2>6. seen = RowFor(rows, Group(w))
    BY <2>5, RowForLive, RowForNone
  <2>7. /\ req[w].has <=> HasReferral(referral, Group(w))
        /\ req[w].open <=> HasOpenReferral(referral, Group(w))
    BY <2>3 DEF Read
  <2> QED BY <1>4, <2>4, <2>5, <2>6, <2>7 DEF Read
<1> QED BY <1>2, <1>3, <1>6, <1>7, <1>8

(* The statement after which only the alert is to come.                    *)
LEMMA CourseSynced ==
  ASSUME NEW w \in Workers, Loaded(w), Saved(w), Reports(w), Same(w),
         UNCHANGED <<referral, used, events, alerts, before>>,
         req[w].pc \in {"grant", "drop"}, req'[w].pc = "alert",
         \A g \in Groups :
           RowFor(rows', g) = IF g = Group(w) THEN Target(w) ELSE RowFor(before.rows, g)
  PROVE  Loaded(w)' /\ Saved(w)' /\ Reports(w)' /\ Read(w)'
<1>1. Loaded(w)' /\ Saved(w)'
  BY CourseOn DEF Writing
<1>2. Reports(w)'
  BY DEF Reports, Same, Writing
<1>3. Group(w)' = Group(w)
  BY DEF Group, Same
<1>4. Target(w)' = Target(w)
  BY <1>3 DEF Target
<1>5. Read(w)'
  BY <1>3, <1>4 DEF Read
<1> QED BY <1>1, <1>2, <1>5

LEMMA CourseCreates ==
  ASSUME Typed, NEW w \in Workers, Loaded(w), Saved(w), Reports(w), Read(w), Unique(rows),
         CreateRow(w), before' = before
  PROVE  Loaded(w)' /\ Saved(w)' /\ Reports(w)' /\ Read(w)'
<1>1. /\ Same(w) /\ UNCHANGED <<referral, used, events, alerts>>
      /\ req[w].pc = "grant" /\ req'[w].pc = "alert" /\ req[w].seen = NoRow
  BY CreateRowIs
<1>2. PICK has \in BOOLEAN, open \in BOOLEAN : has = req[w].has /\ open = req[w].open
  BY DEF Typed, Job
<1>3. PICK to \in Groups : to = Group(w)
  BY <1>1 DEF Group, Typed, Working, ReferralRow
<1>4. /\ rows = before.rows /\ RowFor(rows, to) = NoRow
      /\ (has <=> HasReferral(referral, to)) /\ (open <=> HasOpenReferral(referral, to))
  BY <1>1, <1>2, <1>3 DEF Read
<1>5. Target(w) = IF has THEN NewRow(open) ELSE NoRow
  <2>1. has = HasReferral(referral, to) /\ open = HasOpenReferral(referral, to)
    BY <1>4, FlagsBoolean
  <2> QED BY <1>3, <1>4, <2>1 DEF Target, Synced
<1>6. NoneLive(rows, to)
  BY <1>4, RowForIs DEF Typed
<1>7. rows' = IF has THEN Append(rows, [group |-> to, row |-> NewRow(open)]) ELSE rows
  BY <1>2, <1>3 DEF CreateRow
<1>8. NewRow(open) \in AccessRow
  BY RowsAssumption DEF NewRow, AccessRow
<1>9. \A g \in Groups : RowFor(rows', g) = IF g = to THEN Target(w) ELSE RowFor(rows, g)
  <2>1. CASE has
    BY <1>5, <1>6, <1>7, <1>8, <2>1, RowForAdd DEF Typed
  <2>2. CASE ~has
    BY <1>4, <1>5, <1>7, <2>2
  <2> QED BY <2>1, <2>2
<1> QED BY <1>1, <1>3, <1>4, <1>9, CourseSynced

LEMMA CourseUpdates ==
  ASSUME Typed, NEW w \in Workers, Loaded(w), Saved(w), Reports(w), Read(w), Unique(rows),
         UpdateRow(w), before' = before
  PROVE  Loaded(w)' /\ Saved(w)' /\ Reports(w)' /\ Read(w)'
<1>1. /\ UNCHANGED <<referral, used, events, alerts>> /\ req[w].pc = "grant" /\ req[w].seen # NoRow
  BY UpdateRowIs
<1>2. PICK has \in BOOLEAN, open \in BOOLEAN : has = req[w].has /\ open = req[w].open
  BY DEF Typed, Job
<1>3a. PICK pk : pk = req[w].pk
  OBVIOUS
<1>3. PICK to \in Groups, seen \in AccessRow : to = Group(w) /\ seen = req[w].seen /\ pk = req[w].pk
  BY <1>1, <1>3a DEF Group, Typed, Working, ReferralRow, Job
<1>4. /\ rows = before.rows /\ RowFor(rows, to) = seen /\ pk \in DOMAIN rows
      /\ rows[pk].row = seen /\ rows[pk].group = to /\ rows[pk].row # NoRow
      /\ (has <=> HasReferral(referral, to)) /\ (open <=> HasOpenReferral(referral, to))
  BY <1>1, <1>2, <1>3 DEF Read
<1>5. PICK aligned \in AccessRow : aligned = Aligned(seen, open)
  BY AlignedIs
<1>6. aligned # NoRow /\ aligned.origin = seen.origin /\ Written(seen, aligned) = aligned
  BY <1>5, AlignedIs, WrittenBack, RowsAssumption
<1>7. PICK gone \in BOOLEAN : gone <=> ~has /\ seen.origin = "referral" /\ GrantsOnlyView(aligned)
  OBVIOUS
<1>8. Target(w) = IF gone THEN NoRow ELSE aligned
  <2>1. has = HasReferral(referral, to) /\ open = HasOpenReferral(referral, to)
    BY <1>4, FlagsBoolean
  <2> QED BY <1>1, <1>3, <1>4, <1>5, <1>7, <2>1 DEF Target, Synced
<1>9. rows' = IF aligned # seen THEN [rows EXCEPT ![pk].row = aligned] ELSE rows
  <2>1. rows' = IF aligned # seen
                THEN [rows EXCEPT ![pk].row = Written(rows[pk].row, aligned)] ELSE rows
    BY <1>2, <1>3, <1>4, <1>5 DEF UpdateRow, Live
  <2> QED BY <1>4, <1>6, <2>1
<1>10. /\ pk \in DOMAIN rows' /\ rows'[pk].row = aligned /\ rows'[pk].group = to
       /\ \A g \in Groups : RowFor(rows', g) = IF g = to THEN aligned ELSE RowFor(rows, g)
  <2>1. CASE aligned # seen
    <3> DEFINE N == [rows EXCEPT ![pk].row = aligned]
    <3>1. pk \in DOMAIN N /\ N[pk].row = aligned /\ N[pk].group = to
      BY <1>4, PutRow DEF Typed
    <3>2. \A g \in Groups : RowFor(N, g) = IF g = to THEN aligned ELSE RowFor(rows, g)
      BY <1>4, RowForPut DEF Typed
    <3> QED BY <1>9, <2>1, <3>1, <3>2
  <2>2. CASE aligned = seen
    BY <1>4, <1>9, <2>2
  <2> QED BY <2>1, <2>2
<1>11. Become(w, IF gone THEN [req[w] EXCEPT !.pc = "drop"] ELSE InStepNow(req[w]))
  BY <1>2, <1>3, <1>4, <1>5, <1>7 DEF UpdateRow, Live
<1>12. CASE ~gone
  <2>1. Same(w) /\ req'[w].pc = "alert"
    <3>1. PICK next : next = InStepNow(req[w])
      OBVIOUS
    <3>2. next.pc = "alert" /\ next.id = req[w].id /\ next.copy = req[w].copy
          /\ next.op = req[w].op /\ next.batch = req[w].batch
      BY <3>1, InStepNowIs DEF Typed
    <3>3. req' = [req EXCEPT ![w] = next]
      BY <1>11, <1>12, <3>1 DEF Become
    <3> QED BY <3>2, <3>3 DEF Typed, Same
  <2>2. \A g \in Groups :
          RowFor(rows', g) = IF g = Group(w) THEN Target(w) ELSE RowFor(before.rows, g)
    BY <1>3, <1>4, <1>8, <1>10, <1>12
  <2> QED BY <1>1, <2>1, <2>2, CourseSynced
<1>13. CASE gone
  <2> DEFINE drop == [req[w] EXCEPT !.pc = "drop"]
  <2>1. /\ drop.pc = "drop" /\ drop.id = req[w].id /\ drop.copy = req[w].copy
        /\ drop.op = req[w].op /\ drop.batch = req[w].batch /\ drop.pk = pk
        /\ drop.has = req[w].has /\ drop.open = req[w].open
    BY <1>3 DEF Job, Typed
  <2>2. req' = [req EXCEPT ![w] = drop]
    BY <1>11, <1>13 DEF Become
  <2> HIDE DEF drop
  <2>3. /\ Same(w) /\ req'[w].pc = "drop" /\ req'[w].pk = pk /\ req'[w].has = req[w].has
        /\ req'[w].open = req[w].open
    BY <2>1, <2>2 DEF Typed, Same
  <2>4. Loaded(w)' /\ Saved(w)'
    BY <1>1, <2>3, CourseOn DEF Writing
  <2>5. Reports(w)'
    BY <1>1, <2>3 DEF Reports, Same, Writing
  <2>6. Group(w)' = to
    BY <1>3, <2>3 DEF Group, Same
  <2>7. Target(w)' = NoRow
    BY <1>1, <1>3, <1>8, <1>13, <2>6 DEF Target
  <2>8. \A g \in Groups : g # to => RowFor(rows', g) = RowFor(before.rows, g)
    BY <1>4, <1>10
  <2>9. /\ req[w].has <=> HasReferral(referral, to)
        /\ req[w].open <=> HasOpenReferral(referral, to)
    BY <1>1, <1>3 DEF Read
  <2>10. Read(w)'
    BY <1>1, <1>6, <1>10, <2>3, <2>6, <2>7, <2>8, <2>9 DEF Read
  <2> QED BY <2>4, <2>5, <2>10
<1> QED BY <1>12, <1>13

LEMMA CourseDrops ==
  ASSUME Typed, NEW w \in Workers, Loaded(w), Saved(w), Reports(w), Read(w), Unique(rows),
         DropRow(w), before' = before
  PROVE  Loaded(w)' /\ Saved(w)' /\ Reports(w)' /\ Read(w)'
<1>1. /\ Same(w) /\ UNCHANGED <<referral, used, events, alerts>>
      /\ req[w].pc = "drop" /\ req'[w].pc = "alert"
      /\ rows' = [rows EXCEPT ![req[w].pk].row = NoRow]
  BY DropRowIs
<1>2. PICK pk \in DOMAIN rows, gone \in AccessRow \cup {NoRow} : pk = req[w].pk /\ gone = NoRow
  BY <1>1 DEF Read
<1>3. /\ rows[pk].row # NoRow /\ rows[pk].group = Group(w) /\ Target(w) = NoRow
      /\ \A g \in Groups : g # Group(w) => RowFor(rows, g) = RowFor(before.rows, g)
  BY <1>1, <1>2 DEF Read
<1>4. \A g \in Groups :
        RowFor([rows EXCEPT ![pk].row = gone], g) = IF g = Group(w) THEN gone ELSE RowFor(rows, g)
  <2>1. rows \in Seq(Row) /\ Unique(rows) /\ rows[pk].row # NoRow
    BY <1>3 DEF Typed
  <2>2. \A g : RowFor([rows EXCEPT ![pk].row = gone], g)
               = IF g = rows[pk].group THEN gone ELSE RowFor(rows, g)
    BY <2>1, RowForPut
  <2> QED BY <1>3, <2>2
<1>5. \A g \in Groups :
        RowFor(rows', g) = IF g = Group(w) THEN Target(w) ELSE RowFor(before.rows, g)
  BY <1>1, <1>2, <1>3, <1>4
<1> QED BY <1>1, <1>5, CourseSynced

LEMMA CourseEnds ==
  ASSUME Typed, NEW w \in Workers, Loaded(w), SendAlert(w) \/ CommitSave(w) \/ CommitDelete(w)
  PROVE  Loaded(w)' /\ Saved(w)' /\ Reports(w)' /\ Read(w)'
<1>1. CASE SendAlert(w)
  <2>1. /\ UNCHANGED <<referral, used>> /\ req'[w].pc \in {"idle", "batch"}
        /\ req'[w].batch = req[w].batch
    <3>1. /\ UNCHANGED <<referral, used>> /\ req'[w].pc \in {"idle", "batch"}
      BY <1>1, SendAlertIs
    <3> DEFINE on == [Idle EXCEPT !.pc = "batch", !.batch = req[w].batch]
    <3>2. on.batch = req[w].batch /\ Idle.batch = <<>>
      BY IdleIs DEF Job
    <3>3. PICK job : job = (IF req[w].batch = <<>> THEN Idle ELSE on)
      OBVIOUS
    <3>4. req' = [req EXCEPT ![w] = job]
      BY <1>1, <3>3 DEF SendAlert, Become
    <3> HIDE DEF on
    <3>5. job.batch = req[w].batch
      BY <3>2, <3>3
    <3> QED BY <3>1, <3>4, <3>5 DEF Typed
  <2>2. Loaded(w)'
    BY <2>1 DEF Loaded, Working
  <2> QED BY <2>1, <2>2, CourseBefore DEF Writing
<1>2. ASSUME NEW row, referral' = [referral EXCEPT ![req[w].id] = row], UNCHANGED used,
             req[w].pc = "commit", req'[w].pc = "idle", req'[w].batch = <<>>
      PROVE  Loaded(w)' /\ Saved(w)' /\ Reports(w)' /\ Read(w)'
  <2>0. DOMAIN <<>> = {}
    OBVIOUS
  <2>1. req[w].id \in used /\ req[w].id \in Ids
    BY <1>2 DEF Loaded, Typed, Working
  <2>2. \A i \in Ids : i \notin used => referral'[i] = NoReferral
    BY <1>2, <2>1 DEF Loaded, Typed
  <2>3. Loaded(w)'
    BY <1>2, <2>0, <2>2 DEF Loaded, Working
  <2> QED BY <1>2, <2>3, CourseBefore DEF Writing
<1>3. CASE CommitSave(w)
  <2>1. /\ referral' = [referral EXCEPT ![req[w].id] = req[w].copy] /\ UNCHANGED used
        /\ req[w].pc = "commit" /\ req'[w].pc = "idle" /\ req'[w].batch = <<>>
    BY <1>3, CommitSaveIs
  <2> QED BY <1>2, <2>1
<1>4. CASE CommitDelete(w)
  <2>1. /\ referral' = [referral EXCEPT ![req[w].id] = NoReferral] /\ UNCHANGED used
        /\ req[w].pc = "commit" /\ req'[w].pc = "idle" /\ req'[w].batch = <<>>
    BY <1>4, CommitDeleteIs
  <2> QED BY <1>2, <2>1
<1> QED BY <1>1, <1>3, <1>4

-----------------------------------------------------------------------------
(* One process, never killed, and nobody ticking boxes in between.         *)
Alone == OneWorker /\ AdminGrants = {} /\ MaxCrashes = 0

LEMMA AloneSteps ==
  ASSUME Alone, Bounded, SerialNext
  PROVE  \E w \in Workers : /\ Workers = {w} /\ (Load(w) \/ Continue(w))
                            /\ before' = IF req[w].pc \in Writing THEN before ELSE Tables
<1>1. PICK w \in Workers : Workers = {w}
  BY DEF Alone, OneWorker
<1>2. UnderWay <=> req[w].pc \in Writing
  BY <1>1 DEF UnderWay, Writing
<1>3. ~(crashes < MaxCrashes)
  BY DEF Alone, Bounded
<1>4. Load(w) \/ Continue(w)
  BY <1>1, <1>3 DEF SerialNext, RequestsNext, Alone, Crash
<1> QED BY <1>1, <1>2, <1>4 DEF SerialNext

LEMMA CourseNext ==
  ASSUME Alone
  PROVE  Typed /\ Bounded /\ Unique(rows) /\ InCourse /\ [SerialNext]_<<allVars, before>> => InCourse'
<1> SUFFICES ASSUME Typed, Bounded, Unique(rows), InCourse, [SerialNext]_<<allVars, before>>
             PROVE  InCourse'
  OBVIOUS
<1>1. CASE UNCHANGED <<allVars, before>>
  <2>1. UNCHANGED <<referral, rows, events, alerts, used, req, before>>
    BY <1>1 DEF allVars, tables
  <2> SUFFICES ASSUME NEW w \in Workers PROVE Loaded(w)' /\ Saved(w)' /\ Reports(w)' /\ Read(w)'
    BY DEF InCourse
  <2>2. Loaded(w) /\ Saved(w) /\ Reports(w) /\ Read(w)
    BY DEF InCourse
  <2>3. Group(w)' = Group(w)
    BY <2>1 DEF Group
  <2>4. Target(w)' = Target(w)
    BY <2>1, <2>3 DEF Target
  <2>5. Loaded(w)'
    BY <2>1, <2>2 DEF Loaded
  <2>6. Saved(w)' /\ Reports(w)'
    BY <2>1, <2>2 DEF Saved, Reports
  <2>7. Read(w)'
    BY <2>1, <2>2, <2>3, <2>4 DEF Read
  <2> QED BY <2>5, <2>6, <2>7
<1>2. CASE SerialNext
  <2>1. PICK w \in Workers :
          /\ Workers = {w} /\ (Load(w) \/ Continue(w))
          /\ before' = IF req[w].pc \in Writing THEN before ELSE Tables
    BY <1>2, AloneSteps
  <2>2. Loaded(w) /\ Saved(w) /\ Reports(w) /\ Read(w)
    BY DEF InCourse
  <2> DEFINE Kept == Loaded(w)' /\ Saved(w)' /\ Reports(w)' /\ Read(w)'
  <2>3. ASSUME \/ \E r \in Ids : LoadOne(w, r) \/ TakeExpired(w, r)
               \/ \E R \in SUBSET Ids : SelectExpired(w, R)
               \/ ReadPrevious(w)
        PROVE  Kept
    BY <2>2, <2>3, CourseLoads
  <2>4. ASSUME Insert(w) \/ Write(w) PROVE Kept
    <3>1. before' = Tables
      BY <2>1, <2>4 DEF Insert, Write, At, Writing
    <3> QED BY <2>2, <2>4, <3>1, CourseWrites
  <2>5. ASSUME EmitEvent(w) PROVE Kept
    <3>1. before' = before
      BY <2>1, <2>5 DEF EmitEvent, At, Writing
    <3> QED BY <2>2, <2>5, <3>1, CourseEmits
  <2>6. ASSUME ReadHas(w) \/ ReadOpen(w) \/ ReadRow(w) PROVE Kept
    <3>1. before' = before
      BY <2>1, <2>6 DEF ReadHas, ReadOpen, ReadRow, At, Writing
    <3> QED BY <2>2, <2>6, <3>1, CourseReads
  <2>7. ASSUME CreateRow(w) PROVE Kept
    <3>1. before' = before
      BY <2>1, <2>7 DEF CreateRow, At, Writing
    <3> QED BY <2>2, <2>7, <3>1, CourseCreates
  <2>8. ASSUME UpdateRow(w) PROVE Kept
    <3>1. before' = before
      BY <2>1, <2>8 DEF UpdateRow, At, Writing
    <3> QED BY <2>2, <2>8, <3>1, CourseUpdates
  <2>9. ASSUME DropRow(w) PROVE Kept
    <3>1. before' = before
      BY <2>1, <2>9 DEF DropRow, At, Writing
    <3> QED BY <2>2, <2>9, <3>1, CourseDrops
  <2>10. ASSUME SendAlert(w) \/ CommitSave(w) \/ CommitDelete(w) PROVE Kept
    BY <2>2, <2>10, CourseEnds
  <2>11. Kept
    BY <2>1, <2>3, <2>4, <2>5, <2>6, <2>7, <2>8, <2>9, <2>10 DEF Load, Continue
  <2> QED BY <2>1, <2>11 DEF InCourse
<1> QED BY <1>1, <1>2

-----------------------------------------------------------------------------
(* What is shown while a request is under way, and between two.            *)
LEMMA ShownIs ==
  ASSUME NEW w, Workers = {w}
  PROVE  /\ Shown = IF req[w].pc \in Writing THEN before ELSE Tables
         /\ Shown' = IF req'[w].pc \in Writing THEN before' ELSE Tables'
BY DEF Shown, UnderWay, Writing

LEMMA ShownRowIs ==
  ASSUME NEW g
  PROVE  ShownRow(g) = RowFor(Shown.rows, g) /\ ShownRow(g)' = RowFor(Shown'.rows, g)
BY DEF ShownRow, RowFor

LEMMA Stutters ==
  ASSUME Shown' = Shown
  PROVE  UNCHANGED Atomic!vars
<1>1. \A g : ShownRow(g)' = ShownRow(g)
  BY ShownRowIs
<1>2. \A g : Given(ShownRow(g))' = Given(ShownRow(g))
  BY <1>1 DEF Given
<1> QED BY <1>1, <1>2 DEF Atomic!vars

(* The alert is the last thing a referral or an answer to one does, and it *)
(* shows all the request wrote.                                            *)
LEMMA AlertShows ==
  ASSUME Typed, NEW w \in Workers, Workers = {w}, Saved(w), Reports(w), Read(w), SendAlert(w)
  PROVE  \E r \in Ids : \/ \E g \in Groups : Atomic!Refer(r, g)
                        \/ Atomic!Respond(r) \/ Atomic!Recall(r) \/ Atomic!MarkExpired(r)
<1>1. /\ UNCHANGED <<referral, rows, events>> /\ req[w].pc = "alert" /\ req'[w].pc \in {"idle", "batch"}
  BY SendAlertIs
<1>2. alerts' = alerts \cup ({req[w].op} \cap Kinds)
  BY DEF SendAlert
<1>3. Shown = before /\ Shown' = Tables'
  BY <1>1, ShownIs DEF Writing
<1>4a. PICK op : op = req[w].op
  OBVIOUS
<1>4. PICK r \in Ids, row \in ReferralRow : r = req[w].id /\ row = req[w].copy /\ op = req[w].op
  BY <1>1, <1>4a DEF Typed, Working
<1>5. PICK old : old = before.referral[r]
  OBVIOUS
<1>6. /\ before.referral \in [Ids -> ReferralRow \cup {NoReferral}]
      /\ before.rows \in Seq(Row) /\ Unique(before.rows)
      /\ Opens(old, row, op) \/ Closes(old, row, op)
      /\ referral = [before.referral EXCEPT ![r] = row]
      /\ alerts = before.alerts
      /\ events = before.events \cup (EventsOf(old, row) \cap Registered)
  BY <1>1, <1>4, <1>5 DEF Saved, Reports, Writing
<1>7. PICK table : table = [before.referral EXCEPT ![r] = row]
  OBVIOUS
<1>8. /\ Shown'.referral = table
      /\ Shown'.events = Shown.events \cup (EventsOf(old, row) \cap Registered)
      /\ Shown'.alerts = Shown.alerts \cup {op}
      /\ Shown'.rows = rows
  BY <1>1, <1>2, <1>3, <1>4, <1>6, <1>7 DEF Tables, Opens, Closes
<1>9. \A g \in Groups : RowFor(rows, g) =
        IF g = row.to
        THEN Synced(RowFor(before.rows, g), HasReferral(table, g), HasOpenReferral(table, g))
        ELSE RowFor(before.rows, g)
  BY <1>1, <1>4, <1>6, <1>7 DEF Read, Target, Group
<1>10. \A g \in Groups : ShownRow(g) = RowFor(before.rows, g) /\ ShownRow(g)' = RowFor(rows, g)
  BY <1>3, <1>8, ShownRowIs
<1>11. \A g \in Groups : ShownRow(g) \in AccessRow \cup {NoRow}
  BY <1>6, <1>10, RowForIs
<1>12. old # NoReferral => old.to = row.to
  BY <1>5, <1>6 DEF Opens, Closes, ReferralRow
<1>13. Atomic!Save(r, row) /\ UNCHANGED [g \in Groups |-> Given(ShownRow(g))]
  BY <1>3, <1>5, <1>7, <1>8, <1>9, <1>10, <1>11, <1>12, ShownSave
<1>14. CASE Opens(old, row, op)
  <2>1. row.to \in Groups /\ row = [to |-> row.to, status |-> "open"]
    BY <1>14 DEF Opens, ReferralRow
  <2>2. Shown.referral[r] = NoReferral /\ Atomic!Alert("created")
    BY <1>3, <1>5, <1>8, <1>14 DEF Opens, Atomic!Alert
  <2>3. Atomic!Refer(r, row.to)
    BY <1>13, <2>1, <2>2 DEF Atomic!Refer
  <2> QED BY <2>1, <2>3
<1>15. CASE Closes(old, row, op)
  <2>1. Atomic!IsOpen(r) /\ row = [Shown.referral[r] EXCEPT !.status = op] /\ Atomic!Alert(op)
    BY <1>3, <1>5, <1>8, <1>15 DEF Closes, Atomic!IsOpen, Atomic!Alert
  <2>2. Atomic!Close(r, op)
    BY <1>13, <2>1 DEF Atomic!Close
  <2>3. op \in Lifecycle
    BY <1>15 DEF Closes
  <2> QED BY <2>2, <2>3 DEF Atomic!Respond, Atomic!Recall, Atomic!MarkExpired
<1> QED BY <1>6, <1>14, <1>15

LEMMA CommitSaveShows ==
  ASSUME Typed, Unique(rows), NEW w \in Workers, Workers = {w}, Loaded(w), CommitSave(w)
  PROVE  \E r \in Ids : \E row \in AdminRows : Atomic!AdminSave(r, row)
<1>1. /\ UNCHANGED alerts /\ req[w].pc = "commit" /\ req'[w].pc = "idle" /\ req[w].op = "saved"
      /\ referral' = [referral EXCEPT ![req[w].id] = req[w].copy]
      /\ events' = events \cup (Reported([req[w] EXCEPT !.prev = referral[req[w].id]]) \cap Registered)
  BY CommitSaveIs
<1>2. Shown = Tables /\ Shown' = Tables'
  BY <1>1, ShownIs DEF Writing
<1>3. PICK r \in Ids, row \in ReferralRow : r = req[w].id /\ row = req[w].copy
  BY <1>1 DEF Typed, Working
<1>4. PICK old : old = referral[r]
  OBVIOUS
<1>5. old \in ReferralRow /\ old # NoReferral /\ row \in AdminRows /\ row # old
  BY <1>1, <1>3, <1>4 DEF Loaded, Typed
<1>6. PICK table : table = [referral EXCEPT ![r] = row]
  OBVIOUS
<1>7. PICK T : T = SyncedRows(table, rows, row.to)
  OBVIOUS
<1>8. rows' = IF old.to = row.to THEN T ELSE SyncedRows(table, T, old.to)
  BY <1>3, <1>4, <1>5, <1>6, <1>7 DEF CommitSave
<1>9. row.to \in Groups /\ old.to \in Groups
  BY <1>5 DEF ReferralRow
<1>10. T \in Seq(Row) /\ Unique(T) /\ rows \in Seq(Row)
  BY <1>7, <1>9, SyncGrows, UniqueSync DEF Typed
<1>11. \A g : RowFor(T, g) =
         IF g = row.to
         THEN Synced(RowFor(rows, g), HasReferral(table, g), HasOpenReferral(table, g))
         ELSE RowFor(rows, g)
  BY <1>7, <1>9, <1>10, RowForSync
<1>12. \A g : RowFor(SyncedRows(table, T, old.to), g) =
         IF g = old.to
         THEN Synced(RowFor(T, g), HasReferral(table, g), HasOpenReferral(table, g))
         ELSE RowFor(T, g)
  BY <1>9, <1>10, RowForSync
<1>13. \A g : RowFor(rows', g) =
         IF g = row.to \/ g = old.to
         THEN Synced(RowFor(rows, g), HasReferral(table, g), HasOpenReferral(table, g))
         ELSE RowFor(rows, g)
  <2>1. CASE old.to = row.to
    BY <1>8, <1>11, <2>1
  <2>2. CASE old.to # row.to
    BY <1>8, <1>11, <1>12, <2>2
  <2> QED BY <2>1, <2>2
<1>14. Reported([req[w] EXCEPT !.prev = referral[req[w].id]]) = EventsOf(old, row)
  <2>1. PICK job : job = [req[w] EXCEPT !.prev = old]
    OBVIOUS
  <2>2. job.prev = old /\ job.copy = row /\ job.op = "saved"
    BY <1>1, <1>3, <2>1 DEF Typed, Job
  <2> QED BY <1>3, <1>4, <1>5, <2>1, <2>2 DEF Reported
<1>15. /\ Shown.referral = referral /\ Shown.rows = rows /\ Shown.events = events
       /\ Shown.alerts = alerts /\ Shown'.referral = table /\ Shown'.rows = rows'
       /\ Shown'.events = events' /\ Shown'.alerts = alerts
  BY <1>1, <1>2, <1>3, <1>6 DEF Tables
<1>16. \A g : ShownRow(g) = RowFor(rows, g) /\ ShownRow(g)' = RowFor(rows', g)
  BY <1>15, ShownRowIs
<1>17. \A g \in Groups : ShownRow(g) \in AccessRow \cup {NoRow}
  BY <1>10, <1>16, RowForIs
<1>18. Atomic!Save(r, row) /\ UNCHANGED [g \in Groups |-> Given(ShownRow(g))]
  <2>1. old = Shown.referral[r] /\ table = [Shown.referral EXCEPT ![r] = row]
    BY <1>4, <1>6, <1>15
  <2>2. Shown'.events = Shown.events \cup (EventsOf(old, row) \cap Registered)
    BY <1>1, <1>14, <1>15
  <2>3. \A g \in Groups : ShownRow(g)' =
          IF g = row.to \/ (old # NoReferral /\ g = old.to)
          THEN Synced(ShownRow(g), HasReferral(table, g), HasOpenReferral(table, g))
          ELSE ShownRow(g)
    BY <1>5, <1>13, <1>16
  <2>4. Shown'.referral = table
    BY <1>15
  <2> QED BY <1>17, <2>1, <2>2, <2>3, <2>4, ShownSave
<1>19. Atomic!AdminSave(r, row)
  BY <1>4, <1>5, <1>15, <1>18 DEF Atomic!AdminSave
<1> QED BY <1>5, <1>19

LEMMA CommitDeleteShows ==
  ASSUME Typed, Unique(rows), NEW w \in Workers, Workers = {w}, Loaded(w), CommitDelete(w)
  PROVE  \E r \in Ids : Atomic!Delete(r)
<1>1. /\ UNCHANGED <<events, alerts>> /\ req[w].pc = "commit" /\ req'[w].pc = "idle"
      /\ referral' = [referral EXCEPT ![req[w].id] = NoReferral]
  BY CommitDeleteIs
<1>2. Shown = Tables /\ Shown' = Tables'
  BY <1>1, ShownIs DEF Writing
<1>3. PICK r \in Ids, old \in ReferralRow : r = req[w].id /\ old = req[w].copy
  BY <1>1 DEF Typed, Working
<1>4. referral[r] = old /\ referral[r] # NoReferral
  BY <1>1, <1>3 DEF Loaded, CommitDelete
<1>5. PICK table : table = [referral EXCEPT ![r] = NoReferral]
  OBVIOUS
<1>6. rows' = SyncedRows(table, rows, old.to)
  BY <1>3, <1>5 DEF CommitDelete
<1>7. old.to \in Groups /\ rows \in Seq(Row)
  BY DEF ReferralRow, Typed
<1>8. \A g : RowFor(rows', g) =
        IF g = old.to
        THEN Synced(RowFor(rows, g), HasReferral(table, g), HasOpenReferral(table, g))
        ELSE RowFor(rows, g)
  BY <1>6, <1>7, RowForSync
<1>9. /\ Shown.referral = referral /\ Shown.rows = rows /\ Shown.events = events
      /\ Shown.alerts = alerts /\ Shown'.referral = table /\ Shown'.rows = rows'
      /\ Shown'.events = events /\ Shown'.alerts = alerts
  BY <1>1, <1>2, <1>3, <1>5 DEF Tables
<1>10. \A g : ShownRow(g) = RowFor(rows, g) /\ ShownRow(g)' = RowFor(rows', g)
  BY <1>9, ShownRowIs
<1>11. \A g : ShownRow(g)' =
         IF g = old.to
         THEN Synced(ShownRow(g), HasReferral(table, g), HasOpenReferral(table, g))
         ELSE ShownRow(g)
  BY <1>8, <1>10
<1>12. Atomic!Synchronise(table, {old.to})
  <2>1. \A g \in Groups : ShownRow(g)' =
          IF g \in {old.to}
          THEN Atomic!Synced(ShownRow(g), Atomic!HasReferral(table, g), Atomic!HasOpenReferral(table, g))
          ELSE ShownRow(g)
    BY <1>11, SameGrants
  <2>2. Atomic!SyncedTable(table, {old.to}) = [g \in Groups |-> ShownRow(g)']
    BY <2>1 DEF Atomic!SyncedTable
  <2> QED BY <1>9, <2>2 DEF Atomic!Synchronise
<1>13. UNCHANGED [g \in Groups |-> Given(ShownRow(g))]
  <2>1. \A g \in Groups : ShownRow(g) \in AccessRow \cup {NoRow}
    BY <1>7, <1>10, RowForIs
  <2>2. \A g \in Groups : Given(ShownRow(g)') = Given(ShownRow(g))
    BY <1>11, <2>1, GivenStays, FlagsBoolean, OpenReferralIsReferral
  <2> QED BY <2>2
<1>14. Atomic!Delete(r)
  BY <1>4, <1>5, <1>9, <1>12, <1>13 DEF Atomic!Delete
<1> QED BY <1>14

LEMMA StepsShow ==
  ASSUME Alone
  PROVE  Typed /\ Bounded /\ Unique(rows) /\ InCourse /\ [SerialNext]_<<allVars, before>>
           => [Atomic!Next]_Atomic!vars
<1> SUFFICES ASSUME Typed, Bounded, Unique(rows), InCourse, [SerialNext]_<<allVars, before>>
             PROVE  [Atomic!Next]_Atomic!vars
  OBVIOUS
<1>1. CASE UNCHANGED <<allVars, before>>
  <2>1. UNCHANGED <<referral, rows, events, alerts, req, before>>
    BY <1>1 DEF allVars, tables
  <2>2. PICK w \in Workers : Workers = {w}
    BY DEF Alone, OneWorker
  <2>3. Shown' = Shown
    BY <2>1, <2>2, ShownIs DEF Tables
  <2> QED BY <2>3, Stutters
<1>2. CASE SerialNext
  <2>1. PICK w \in Workers :
          /\ Workers = {w} /\ (Load(w) \/ Continue(w))
          /\ before' = IF req[w].pc \in Writing THEN before ELSE Tables
    BY <1>2, AloneSteps
  <2>2. Loaded(w) /\ Saved(w) /\ Reports(w) /\ Read(w)
    BY DEF InCourse
(* Nothing is written before the first row.                                *)
  <2>3. ASSUME UNCHANGED <<referral, rows, events, alerts>>, req[w].pc \notin Writing, req'[w].pc \notin Writing
        PROVE  UNCHANGED Atomic!vars
    <3>1. Shown' = Shown
      BY <2>1, <2>3, ShownIs DEF Tables
    <3> QED BY <3>1, Stutters
(* What is written after it is not shown until the alert.                  *)
  <2>4. ASSUME req'[w].pc \in Writing PROVE UNCHANGED Atomic!vars
    <3>1. Shown' = Shown
      BY <2>1, <2>4, ShownIs
    <3> QED BY <3>1, Stutters
  <2>5. ASSUME NEW r \in Ids, LoadOne(w, r) PROVE UNCHANGED Atomic!vars
    <3>1. /\ UNCHANGED <<referral, rows, events, alerts>> /\ req[w].pc = "idle"
      BY <2>5 DEF LoadOne, LoadRefer, LoadClose, LoadAdminSave, LoadDelete, Begin, At, tables
    <3>2. req'[w].pc \in {"insert", "previous", "commit"}
      <4>1. ASSUME NEW g \in Groups, LoadRefer(w, r, g) PROVE req'[w].pc = "insert"
        BY <4>1, LoadReferIs
      <4>2. ASSUME NEW pc, NEW op, NEW copy, Begin(w, pc, op, r, copy) PROVE req'[w].pc = pc
        <5> DEFINE job == [Idle EXCEPT !.pc = pc, !.op = op, !.id = r, !.copy = copy]
        <5>1. job.pc = pc
          BY IdleIs DEF Job
        <5>2. req' = [req EXCEPT ![w] = job]
          BY <4>2 DEF Begin, Become, Request
        <5> HIDE DEF job
        <5> QED BY <5>1, <5>2 DEF Typed
      <4> QED BY <2>5, <4>1, <4>2 DEF LoadOne, LoadClose, LoadAdminSave, LoadDelete
    <3> QED BY <2>3, <3>1, <3>2 DEF Writing
  <2>6. ASSUME NEW R \in SUBSET Ids, SelectExpired(w, R) PROVE UNCHANGED Atomic!vars
    BY <2>3, <2>6, SelectExpiredIs DEF Aside, Writing
  <2>7. ASSUME NEW r \in Ids, TakeExpired(w, r) PROVE UNCHANGED Atomic!vars
    BY <2>3, <2>7, TakeExpiredIs DEF Aside, Writing
  <2>8. ASSUME ReadPrevious(w) PROVE UNCHANGED Atomic!vars
    BY <2>3, <2>8, ReadPreviousIs DEF Aside, Writing
  <2>9. ASSUME Insert(w) \/ Write(w) PROVE UNCHANGED Atomic!vars
    <3>1. req'[w].pc \in Writing
      BY <2>9, WriteIs DEF Writing
    <3> QED BY <2>4, <3>1
  <2>10. ASSUME EmitEvent(w) PROVE UNCHANGED Atomic!vars
    BY <2>4, <2>10, EmitEventIs DEF Writing
  <2>11. ASSUME ReadHas(w) \/ ReadOpen(w) PROVE UNCHANGED Atomic!vars
    BY <2>4, <2>11, ReadFlagIs DEF Writing
  <2>12. ASSUME ReadRow(w) PROVE UNCHANGED Atomic!vars
    BY <2>4, <2>12, ReadRowIs DEF Writing
  <2>13. ASSUME CreateRow(w) PROVE UNCHANGED Atomic!vars
    BY <2>4, <2>13, CreateRowIs DEF Writing
(* The row it saves is still there: nobody else removes it.                *)
  <2>14. ASSUME UpdateRow(w) PROVE UNCHANGED Atomic!vars
    <3>1. req[w].pc = "grant" /\ req[w].seen # NoRow
      BY <2>14, UpdateRowIs
    <3>2. Live(req[w].pk)
      BY <2>2, <3>1 DEF Read, Live
    <3>3. \/ Become(w, [req[w] EXCEPT !.pc = "drop"])
          \/ Become(w, InStepNow(req[w]))
      BY <2>14, <3>2 DEF UpdateRow
    <3>4. /\ [req[w] EXCEPT !.pc = "drop"].pc = "drop"
          /\ InStepNow(req[w]).pc = "alert"
      BY InStepNowIs DEF Typed, Job
    <3>5. req'[w].pc \in {"drop", "alert"}
      BY <3>3, <3>4 DEF Become, Typed
    <3> QED BY <2>4, <3>5 DEF Writing
  <2>15. ASSUME DropRow(w) PROVE UNCHANGED Atomic!vars
    BY <2>4, <2>15, DropRowIs DEF Writing
  <2>16. ASSUME SendAlert(w) PROVE Atomic!Next
    BY <2>1, <2>2, <2>16, AlertShows DEF Atomic!Next, Atomic!ReferralStep
  <2>17. ASSUME CommitSave(w) PROVE Atomic!Next
    BY <2>1, <2>2, <2>17, CommitSaveShows DEF Atomic!Next, Atomic!ReferralStep
  <2>18. ASSUME CommitDelete(w) PROVE Atomic!Next
    BY <2>1, <2>2, <2>18, CommitDeleteShows DEF Atomic!Next, Atomic!ReferralStep
  <2> QED BY <2>1, <2>5, <2>6, <2>7, <2>8, <2>9, <2>10, <2>11, <2>12, <2>13, <2>14, <2>15, <2>16,
             <2>17, <2>18 DEF Load, Continue
<1> QED BY <1>1, <1>2

LEMMA StartsShown ==
  ASSUME Alone
  PROVE  SerialInit => Atomic!Init
<1> SUFFICES ASSUME SerialInit PROVE Atomic!Init
  OBVIOUS
<1>1. PICK w \in Workers : Workers = {w}
  BY DEF Alone, OneWorker
<1>2. /\ RequestsInit /\ Typed /\ Unique(rows)
  BY TypedInit, OneRowInit, Alone DEF SerialInit, Alone
<1>3. req[w].pc = "idle"
  BY <1>2, IdleIs DEF RequestsInit
<1>4. Shown = Tables
  BY <1>1, <1>3, ShownIs DEF Writing
<1>5. /\ Shown.referral = [r \in Ids |-> NoReferral] /\ Shown.events = {} /\ Shown.alerts = {}
      /\ Shown.rows = rows
  BY <1>2, <1>4 DEF Tables, RequestsInit
<1>6. \A pk \in DOMAIN rows : \E caps \in GrantCaps : rows[pk].row = OrganicRow(caps)
  BY <1>2 DEF RequestsInit
<1>7. \A g \in Groups : ShownRow(g) \in {NoRow} \cup {OrganicRow(caps) : caps \in GrantCaps}
  <2> SUFFICES ASSUME NEW g \in Groups, ShownRow(g) # NoRow
               PROVE  \E caps \in GrantCaps : ShownRow(g) = OrganicRow(caps)
    OBVIOUS
  <2>1. ShownRow(g) = RowFor(rows, g)
    BY <1>5, ShownRowIs
  <2>2. rows \in Seq(Row)
    BY <1>2 DEF Typed
  <2>3. PICK pk \in DOMAIN rows : RowFor(rows, g) = rows[pk].row
    BY <1>2, <2>1, <2>2, RowForIs
  <2> QED BY <1>6, <2>1, <2>3
<1>8. \A g \in Groups : Given(ShownRow(g)) = IF ShownRow(g) = NoRow THEN {} ELSE ShownRow(g).caps
  <2>1. \A caps : /\ OrganicRow(caps).caps = caps /\ OrganicRow(caps).raised = {}
                  /\ OrganicRow(caps).origin = "organic"
    BY DEF OrganicRow
  <2> QED BY <1>7, <2>1 DEF Given
<1> QED BY <1>5, <1>7, <1>8 DEF Atomic!Init, Atomic!OrganicRow, OrganicRow

(* One process at a time, never killed and with no box ticked in between,  *)
(* does to the tables what the one-step description of each operation      *)
(* says: it is that description that Referrals proves things about.        *)
THEOREM RequestsImplementReferrals ==
  ASSUME Alone PROVE SerialSpec => ImplementsReferrals
<1> DEFINE Inv == Typed /\ Bounded /\ Unique(rows) /\ StillNone /\ InCourse
<1>0. OneWorker
  BY DEF Alone
<1>1. SerialInit => Inv /\ Atomic!Init
  BY TypedInit, BoundedInit, OneRowInit, CourseInit, StartsShown DEF SerialInit
<1>2. Inv /\ [SerialNext]_<<allVars, before>> => Inv' /\ [Atomic!Next]_Atomic!vars
  <2> SUFFICES ASSUME Inv, [SerialNext]_<<allVars, before>>
               PROVE  Inv' /\ [Atomic!Next]_Atomic!vars
    OBVIOUS
  <2>1. [RequestsNext]_allVars
    BY DEF SerialNext
  <2>2. Typed' /\ Bounded' /\ (Unique(rows) /\ StillNone)'
    BY <1>0, <2>1, TypedNext, BoundedNext, OneRowNext
  <2>3. InCourse' /\ [Atomic!Next]_Atomic!vars
    BY CourseNext, StepsShow
  <2> QED BY <2>2, <2>3
<1> HIDE DEF Inv
<1> QED BY <1>1, <1>2, PTL DEF SerialSpec, ImplementsReferrals, Atomic!Spec

=============================================================================
