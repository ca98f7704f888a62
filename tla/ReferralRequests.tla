-------------------------- MODULE ReferralRequests --------------------------
(***************************************************************************)
(* The referral handlers as they run: several processes (web workers and   *)
(* the check_referral_deadlines job) on one record, each SQL statement a   *)
(* transaction of its own (the project sets no ATOMIC_REQUESTS and takes   *)
(* no lock), so a row is read into memory, checked, and written later.     *)
(* Django's admin does run in a transaction: what its forms do is read in  *)
(* one step and committed in another.                                      *)
(*                                                                         *)
(* `referral`, `rows` and `events` are tables; a row of `rows` keeps its   *)
(* primary key, its place in the sequence, and there may be two of one     *)
(* group since no constraint forbids it.  `used` are the keys taken for a  *)
(* referral, each once.  `req` is the memory of each process.  The record  *)
(* stays in a state that allows referrals.                                 *)
(***************************************************************************)
EXTENDS ReferralGrants, Naturals, Sequences

CONSTANTS Workers,
          MaxRows,    \* bound on the access rows ever inserted
          AdminGrants, \* capability sets an administrator adds to a row
          Deletes,    \* whether an administrator deletes referrals
          MaxCrashes  \* bound on the processes that die between two statements

ASSUME RequestsAssumption == /\ {MaxRows, MaxCrashes} \subseteq Nat
                             /\ AdminGrants \subseteq SUBSET Capabilities
                             /\ Deletes \in BOOLEAN

VARIABLES used, rows, req,
          excused,  \* history: referrals deleted, or whose save died before
                    \* its event
          crashes   \* history: how many processes died

tables == <<referral, used, rows, events, alerts>>
history == <<excused, crashes>>
allVars == <<tables, req, history>>

Idle == [pc |-> "idle", op |-> "none", id |-> NoReferral, copy |-> NoReferral,
         prev |-> NoReferral, batch |-> <<>>,
         has |-> FALSE, open |-> FALSE, pk |-> 0, seen |-> NoRow]

At(w, pc) == req[w].pc = pc

(* The request of w goes on with the record that `to` describes.           *)
Become(w, to) == req' = [req EXCEPT ![w] = to]

Live(pk) == rows[pk].row # NoRow

RowOf(table, pk) == IF pk = 0 THEN NoRow ELSE table[pk].row

(* filter(group).first(), which orders by primary key; 0 when none.        *)
FirstRow(table, g) ==
  LET mine == {pk \in DOMAIN table : table[pk].group = g /\ table[pk].row # NoRow}
  IN  IF mine = {} THEN 0 ELSE CHOOSE pk \in mine : \A other \in mine : pk <= other

-----------------------------------------------------------------------------
(* What each handler reads and checks before it writes *)

Request(pc, op, id, copy) == [Idle EXCEPT !.pc = pc, !.op = op, !.id = id, !.copy = copy]

Begin(w, pc, op, id, copy) ==
  /\ At(w, "idle")
  /\ Become(w, Request(pc, op, id, copy))
  /\ UNCHANGED <<tables, history>>

LoadRefer(w, r, g) ==
  /\ At(w, "idle")
  /\ r \notin used
  /\ used' = used \cup {r}
  /\ Become(w, Request("insert", "created", r, [to |-> g, status |-> "open"]))
  /\ UNCHANGED <<referral, rows, events, alerts, history>>

LoadClose(w, r, status) ==
  /\ referral[r] # NoReferral
  /\ referral[r].status = "open"
  /\ Begin(w, "previous", status, r, [referral[r] EXCEPT !.status = status])

LoadAdminSave(w, r, row) ==
  /\ referral[r] # NoReferral
  /\ row # referral[r]
  /\ Begin(w, "commit", "saved", r, row)

LoadDelete(w, r) ==
  /\ Deletes
  /\ referral[r] # NoReferral
  /\ Begin(w, "commit", "deleted", r, referral[r])

(* The job reads every open referral once; those past their due date are   *)
(* expired one after the other from that copy.                             *)
SelectExpired(w, R) ==
  /\ At(w, "idle")
  /\ R # {}
  /\ \A r \in R : referral[r] # NoReferral /\ referral[r].status = "open"
  /\ Become(w, [Idle EXCEPT !.pc = "batch", !.batch = [r \in R |-> referral[r]]])
  /\ UNCHANGED <<tables, history>>

TakeExpired(w, r) ==
  /\ At(w, "batch")
  /\ r \in DOMAIN req[w].batch
  /\ LET batch == req[w].batch IN
     Become(w, [Idle EXCEPT !.pc = "previous", !.op = "expired", !.id = r,
                            !.copy = [batch[r] EXCEPT !.status = "expired"],
                            !.batch = [i \in DOMAIN batch \ {r} |-> batch[i]]])
  /\ UNCHANGED <<tables, history>>

-----------------------------------------------------------------------------
(* WorkflowReferral.save and delete *)

Insert(w) ==
  /\ At(w, "insert")
  /\ referral' = [referral EXCEPT ![req[w].id] = req[w].copy]
  /\ Become(w, [req[w] EXCEPT !.pc = "event"])
  /\ UNCHANGED <<used, rows, events, alerts, history>>

ReadPrevious(w) ==
  /\ At(w, "previous")
  /\ Become(w, [req[w] EXCEPT !.pc = "write", !.prev = referral[req[w].id]])
  /\ UNCHANGED <<tables, history>>

(* Every column of the row in memory; Model.save inserts the row again     *)
(* when the UPDATE finds none.                                             *)
Write(w) ==
  /\ At(w, "write")
  /\ referral' = [referral EXCEPT ![req[w].id] = req[w].copy]
  /\ Become(w, [req[w] EXCEPT !.pc = "event"])
  /\ UNCHANGED <<used, rows, events, alerts, history>>

(* A row found deleted when it was read again has no status to compare.    *)
Reported(request) ==
  IF request.op # "created" /\ request.prev = NoReferral
  THEN {}
  ELSE EventsOf(request.prev, request.copy)

EmitEvent(w) ==
  /\ At(w, "event")
  /\ events' = events \cup (Reported(req[w]) \cap Registered)
  /\ Become(w, [req[w] EXCEPT !.pc = "has", !.prev = NoReferral])
  /\ UNCHANGED <<referral, used, rows, alerts, history>>

-----------------------------------------------------------------------------
(* sync_referral_access for the group of the request's referral *)

Group(w) == req[w].copy.to

ReadHas(w) ==
  /\ At(w, "has")
  /\ Become(w, [req[w] EXCEPT !.pc = "open", !.has = HasReferral(referral, Group(w))])
  /\ UNCHANGED <<tables, history>>

ReadOpen(w) ==
  /\ At(w, "open")
  /\ Become(w, [req[w] EXCEPT !.pc = "row", !.open = HasOpenReferral(referral, Group(w))])
  /\ UNCHANGED <<tables, history>>

(* Mutation: the row is looked for among those with edit only. *)
ReadRowLost(w) ==
  /\ At(w, "row")
  /\ LET pk == FirstRow(rows, Group(w))
         row == RowOf(rows, pk)
         hit == row # NoRow /\ "edit" \in row.caps
     IN Become(w, [req[w] EXCEPT !.pc = "grant", !.pk = IF hit THEN pk ELSE 0,
                                 !.seen = IF hit THEN row ELSE NoRow])
  /\ UNCHANGED <<tables, history>>

ReadRow(w) ==
  /\ At(w, "row")
  /\ LET pk == FirstRow(rows, Group(w)) IN
     Become(w, [req[w] EXCEPT !.pc = "grant", !.pk = pk, !.seen = RowOf(rows, pk)])
  /\ UNCHANGED <<tables, history>>

InStepNow(request) ==
  [request EXCEPT !.pc = "alert", !.has = FALSE, !.open = FALSE, !.pk = 0, !.seen = NoRow]

CreateRow(w) ==
  /\ At(w, "grant")
  /\ req[w].seen = NoRow
  /\ IF req[w].has
     THEN /\ Len(rows) < MaxRows
          /\ rows' = Append(rows, [group |-> Group(w), row |-> NewRow(req[w].open)])
     ELSE UNCHANGED rows
  /\ Become(w, InStepNow(req[w]))
  /\ UNCHANGED <<referral, used, events, alerts, history>>

(* save(update_fields=changed) writes can_edit and its mark and leaves the *)
(* other columns as they are by now.                                       *)
(* Mutation: the whole row read earlier is written back. *)
WrittenWhole(current, aligned) == aligned

Written(current, aligned) ==
  [current EXCEPT !.raised = aligned.raised,
                  !.caps = (@ \ {"edit"}) \cup (aligned.caps \cap {"edit"})]

(* On a row that is gone the save raises and the request ends.             *)
UpdateRow(w) ==
  LET seen == req[w].seen
      aligned == Aligned(seen, req[w].open)
      pk == req[w].pk
      saves == aligned # seen
  IN
  /\ At(w, "grant")
  /\ seen # NoRow
  /\ rows' = IF saves /\ Live(pk) THEN [rows EXCEPT ![pk].row = Written(@, aligned)] ELSE rows
  /\ Become(w, IF saves /\ ~Live(pk) THEN Idle
               ELSE IF ~req[w].has /\ seen.origin = "referral" /\ GrantsOnlyView(aligned)
               THEN [req[w] EXCEPT !.pc = "drop"]
               ELSE InStepNow(req[w]))
  /\ UNCHANGED <<referral, used, events, alerts, history>>

DropRow(w) ==
  /\ At(w, "drop")
  /\ rows' = [rows EXCEPT ![req[w].pk].row = NoRow]
  /\ Become(w, InStepNow(req[w]))
  /\ UNCHANGED <<referral, used, events, alerts, history>>

(* The lifecycle methods alert last; the job goes on with its batch.       *)
SendAlert(w) ==
  /\ At(w, "alert")
  /\ alerts' = alerts \cup ({req[w].op} \cap Kinds)
  /\ Become(w, IF req[w].batch = <<>> THEN Idle
               ELSE [Idle EXCEPT !.pc = "batch", !.batch = req[w].batch])
  /\ UNCHANGED <<referral, used, rows, events, history>>

-----------------------------------------------------------------------------
(* The admin's transactions *)

SyncedRows(table, inserted, g) ==
  LET pk == FirstRow(inserted, g)
      synced == Synced(RowOf(inserted, pk), HasReferral(table, g), HasOpenReferral(table, g))
  IN  IF pk # 0 THEN [inserted EXCEPT ![pk].row = synced]
      ELSE IF synced = NoRow THEN inserted
      ELSE Append(inserted, [group |-> g, row |-> synced])

(* Mutation: a reassignment leaves the group it moved from alone. *)
CommitSaveNewGroup(w) ==
  LET r == req[w].id
      row == req[w].copy
      table == [referral EXCEPT ![r] = row]
  IN
  /\ At(w, "commit")
  /\ req[w].op = "saved"
  /\ referral' = table
  /\ events' = events \cup (Reported([req[w] EXCEPT !.prev = referral[r]]) \cap Registered)
  /\ rows' = SyncedRows(table, rows, row.to)
  /\ Len(rows') <= MaxRows
  /\ Become(w, Idle)
  /\ UNCHANGED <<used, alerts, history>>

(* The whole of WorkflowReferral.save on the row typed in.                 *)
CommitSave(w) ==
  LET r == req[w].id
      row == req[w].copy
      prev == referral[r]
      table == [referral EXCEPT ![r] = row]
      synced == SyncedRows(table, rows, row.to)
  IN
  /\ At(w, "commit")
  /\ req[w].op = "saved"
  /\ referral' = table
  /\ events' = events \cup (Reported([req[w] EXCEPT !.prev = prev]) \cap Registered)
  /\ rows' = IF prev = NoReferral \/ prev.to = row.to THEN synced
             ELSE SyncedRows(table, synced, prev.to)
  /\ Len(rows') <= MaxRows
  /\ Become(w, Idle)
  /\ UNCHANGED <<used, alerts, history>>

CommitDelete(w) ==
  LET table == [referral EXCEPT ![req[w].id] = NoReferral] IN
  /\ At(w, "commit")
  /\ req[w].op = "deleted"
  /\ referral' = table
  /\ rows' = SyncedRows(table, rows, req[w].copy.to)
  /\ Len(rows') <= MaxRows
  /\ Become(w, Idle)
  /\ excused' = excused \cup {req[w].id}
  /\ UNCHANGED <<used, events, alerts, crashes>>

(* An administrator ticks further boxes of a row.                          *)
AdminWidenRow(pk, more) ==
  /\ Live(pk)
  /\ ~(more \subseteq rows[pk].row.caps)
  /\ rows' = [rows EXCEPT ![pk].row.caps = @ \cup more]
  /\ UNCHANGED <<referral, used, events, alerts, req, history>>

(* The process is killed: what it wrote stays, the rest never happens.     *)
Crash(w) == /\ crashes < MaxCrashes
            /\ crashes' = crashes + 1
            /\ ~At(w, "idle")
            /\ Become(w, Idle)
            /\ excused' = excused \cup (IF At(w, "event") THEN {req[w].id} ELSE {})
            /\ UNCHANGED tables

-----------------------------------------------------------------------------
(* The record has just been created, with the rows of its type's groups.   *)
RequestsInit ==
  /\ referral = [r \in Ids |-> NoReferral]
  /\ used = {}
  /\ \E n \in 0..MaxRows : \E of \in [1..n -> Groups], caps \in [1..n -> GrantCaps] :
       /\ \A i, j \in 1..n : of[i] = of[j] => i = j
       /\ rows = [pk \in 1..n |-> [group |-> of[pk], row |-> OrganicRow(caps[pk])]]
  /\ events = {}
  /\ alerts = {}
  /\ req = [w \in Workers |-> Idle]
  /\ excused = {}
  /\ crashes = 0

LoadOne(w, r) ==
  \/ \E g \in Groups : LoadRefer(w, r, g)
  \/ \E status \in {"responded", "recalled"} : LoadClose(w, r, status)
  \/ \E row \in AdminRows : LoadAdminSave(w, r, row)
  \/ LoadDelete(w, r)

Load(w) == \/ \E r \in Ids : LoadOne(w, r)
           \/ \E R \in SUBSET Ids : SelectExpired(w, R)

Continue(w) ==
  \/ \E r \in Ids : TakeExpired(w, r)
  \/ Insert(w) \/ ReadPrevious(w) \/ Write(w) \/ EmitEvent(w)
  \/ ReadHas(w) \/ ReadOpen(w) \/ ReadRow(w) \/ CreateRow(w) \/ UpdateRow(w) \/ DropRow(w)
  \/ SendAlert(w)
  \/ CommitSave(w) \/ CommitDelete(w)

RequestsNext == \/ \E w \in Workers : Load(w) \/ Continue(w) \/ Crash(w)
        \/ \E pk \in DOMAIN rows, more \in AdminGrants : AdminWidenRow(pk, more)

RequestsSpec == RequestsInit /\ [][RequestsNext]_allVars

-----------------------------------------------------------------------------
Row == [group : Groups, row : AccessRow \cup {NoRow}]

RequestsTypeOK == /\ referral \in [Ids -> ReferralRow \cup {NoReferral}]
          /\ used \subseteq Ids
          /\ rows \in Seq(Row) /\ Len(rows) <= MaxRows
          /\ events \subseteq Registered
          /\ alerts \subseteq Kinds
          /\ excused \subseteq Ids
          /\ crashes \in 0..MaxCrashes
          /\ \A w \in Workers : req[w].copy \in ReferralRow \cup {NoReferral}

(* Whatever the interleaving of the handlers, and wherever a process dies, *)
(* a row the type or an administrator made is never removed and never      *)
(* loses a capability it was given (sync_referral_access reads a row in    *)
(* one statement and writes or deletes it in a later one).                 *)
OrganicNeverNarrowed ==
  [][\A pk \in DOMAIN rows : Live(pk) /\ rows[pk].row.origin = "organic" =>
        /\ Live(pk)'
        /\ rows[pk].row.caps \ rows'[pk].row.caps \subseteq rows[pk].row.raised]_allVars

(* A referral that is answered, withdrawn or expired has that event on the *)
(* timeline as soon as no save of it is still to emit: two saves racing    *)
(* each other never both leave the event to the other.  A save that died   *)
(* before its event, and a referral an answer inserted again after it was  *)
(* deleted, are the exceptions.                                            *)
TimelineComplete ==
  \A r \in Ids : referral[r] # NoReferral /\ referral[r].status \in Lifecycle \cap Registered =>
    \/ r \in excused
    \/ referral[r].status \in events
    \/ \E w \in Workers : At(w, "event") /\ req[w].id = r

(* "Every referral action lands on the instance's append-only              *)
(* WorkflowEvent trail" (docs/Data Model.md): the same without exceptions. *)
EveryActionReported ==
  \A r \in Ids : referral[r] # NoReferral /\ referral[r].status \in Lifecycle \cap Registered =>
    \/ referral[r].status \in events
    \/ \E w \in Workers : At(w, "event") /\ req[w].id = r

(* With every request ended, an open referral's group may edit, and no     *)
(* group keeps edit a referral raised once none is open ("keeps that grant *)
(* in step", docs/Data Model.md).                                          *)
GrantsInStepAtRest ==
  (\A w \in Workers : At(w, "idle")) =>
    \A g \in Groups :
      /\ HasOpenReferral(referral, g) =>
           FirstRow(rows, g) # 0 /\ "edit" \in rows[FirstRow(rows, g)].row.caps
      /\ \A pk \in DOMAIN rows : rows[pk].group = g /\ Live(pk) /\ rows[pk].row.raised # {} =>
           HasOpenReferral(referral, g)

=============================================================================
