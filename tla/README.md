# PWMS: specification, model checking and proofs

PWMS is a Django application in which the committees of a parliament work on
legislative records: delegation reports, international resolutions and
agreements, bills, meetings. A record follows a *workflow type* (a state machine
that is data), is *referred* to other committees, is nested under other records,
and tells its stakeholders by alert and email what happens to it.

Everything runs against one PostgreSQL database, from several kinds of process:
web workers (views, forms, the Django admin), management commands run by cron
(`check_referral_deadlines`, `sync_type_group_access`,
`send_scheduled_report_shares`) and the queue worker `manage.py process_tasks`
with four threads. The project sets no `ATOMIC_REQUESTS`, takes no
`select_for_update`, and opens a transaction in a handful of places only, so
almost every SQL statement is a transaction of its own and any other process may
come between two statements of a handler. That is the subject of these modules:
what each operation promises as a whole, and what of it survives when its
statements are interleaved, or cut short.

All paths below are under `src/src/pwms/`.

## Inventory

| Component | State | Operations | What makes it correct | Modelled |
| --- | --- | --- | --- | --- |
| Referral access (`models/workflows.py`) | `WorkflowReferral`, `WorkflowGroupAccess`, `WorkflowEvent` | refer, respond, recall, expire, reassign, delete; `sync_referral_access`; type and admin grants; `sync_type_group_access` | the grant of a group is what its own row gives plus what open referrals add; nothing a group was given by others is ever taken; each change is on the timeline | `ReferralGrants`, `Referrals`, `ReferralRequests`, `SerialReferrals` |
| Workflow state machine (`models/workflows.py`, `views.py`, `forms.py`) | `current_state`, `TransitionLog`, `WorkflowEvent` | `perform_transition`, `record_event`, `refer`, the edit form | moves follow edges, with their evidence, while their conditions hold; the log tells the path | `StateMachine`, `TransitionRequests`, `SerialRequests` |
| Notification delivery (`notifications/dispatch.py`, `tasks.py`) | `Notification` rows, queued tasks | `alert`, `queue_email`, `deliver_email`, retries | a pending row has a task; the status tells the outcome; every queued mail is settled | `Delivery` |
| Workflow hierarchy (`models/workflows.py`) | `WorkflowRelationship` | `set_parent_workflow`, `add_sub_workflow`, detach, admin links, deleting a record | the links form a forest and join records that exist | `Hierarchy`, `HierarchyRequests`, `SerialHierarchy` |
| Referral deadline job (`check_referral_deadlines.py`) | `WorkflowReferral.status`, `due_date`, `deadline_notified_at`; the batch in memory | two reminder tiers, the stamp, expiry | what is expired was due; one thing per referral and run; a reminder repeats only for a lost stamp; what is overdue settles | `Deadlines` (and the expiry in `ReferralRequests`) |
| Permission resolution (`services/permissions.py`, `can()`) | reads roles, access rows, state permissions | `resolve`, `require` | view is inherited, other rights are not; referral grants confer no transition | no, planned |
| Attachments (`services/attachments.py`) | `Attachment`, `AttachmentVersion`, the file in SharePoint | link, upload, refresh, detach, synchronise versions | the newest mirrored version alone is current; no row comes, goes or comes back untold | `Attachments` |
| Meetings (`models/meetings.py`, `services/meetings_io.py`, `views.py`) | `host_group`, `minutes_status`, `MeetingAttendance`, events | regenerate, form, import, invite, remove, respond, record, minutes | the generated part follows the hosting group and nobody else is touched; what stands is logged | `MeetingRegister` |
| Report sharing (`reporting/sharing.py`, `models/reports.py`) | `ReportShare`: `next_send_at`, `expires_at`, `revoked_at` | share, revoke, delete, scheduled delivery by two drains | once an interval, none revived, what is due settles | `ScheduledShares` |
| Reference numbers (`models/workflows.py`) | `reference_number` | number a new report or agreement | unique and increasing within a year | no, planned |
| Bill versions (`models/workflows.py`) | `BillVersion.is_current` | save a version | at most one current | no, planned |
| External REST API (`api/`) | tokens, quotas | issue, refresh, throttle | a revoked token opens nothing | no, planned last |
| Membership sync (`membership/`) | users, groups | import from Oracle HR views | outside the repository's own logic | no |
| Search, history, progress, reports | none | read only | no state | no |
| Authentication, middleware | none of its own | LDAP, Django sessions | in libraries | no |

`src/old`, and the commands `check_delegation_expirations`,
`update_event_statuses`, `notify_deadlines` and `fix_missing_group_access`, refer
to models that no longer exist and are left out.

**How they interact.** A transition asks the referrals (`no_open_referrals`), the
children (`all_children_closed`), the timeline (required events) and the record
(`field_set`), and afterwards alerts. A referral asks the state whether it may be
raised, records events that transitions wait for, changes the access rows that
permissions read, and alerts. The deadline job and the admin act on the same
referrals without the views. A meeting takes its register from a group whose
members a synchronisation changes, and its log is the timeline attachments write
to as well. Two drains share the table of report shares and nothing else. An alert is the start of a mail's life in the queue.
A child's state and a parent's guard meet only through the links of the
hierarchy.

**What is hard.** Values read by one statement and used by a later one (the
referral's open status, the state, the edge, the cached parent link, the batch of
the deadline job and of a drain, the hosting group a form compares with, the row a
revision refreshes); several writes of one operation in no transaction, cut by a
crash; a queue and a row that each count attempts; operations of administrators
that go round the domain methods; recursion over links that others change.
`PROJECT.json` lists these hazards one by one, each at its line.

## Modules

### Referrals and access

* **`ReferralGrants`** holds the rows, the tables every description of the
  handlers has in common (`referral`, `events`, `alerts`) and the pure function
  `Synced(row, hasReferral, hasOpen)`: what `sync_referral_access` makes of one
  access row.
* **`Referrals`** gives each operation as one step over those tables, `access` (a
  row or none per group) and `allowed` (whether the state takes referrals). `Save` is `WorkflowReferral.save` with its
  event and both synchronisations (the group's, and the one it was moved from);
  the actions are the domain methods, the admin's form and deletions, the type's
  and the administrator's grants. `conferred` (what others gave) and `disturbed`
  (groups whose rows were written behind the synchronisation's back) are history.
* **`ReferralRequests`** has the same handlers statement by statement: `req[w]` is
  the memory of process `w`, `pc` the next statement. Loading, the read of the
  previous status, the save, the event, the three reads and the write of
  `sync_referral_access`, and the alert are steps; the admin's forms, which do run
  in a transaction, read in one step and commit in another. No constraint makes
  access rows unique per group, so `rows` is a sequence in key order.
* **`SerialReferrals`** runs one process and maps the statements back:
  `ImplementsReferrals` is `Referrals!Spec` under a mapping that shows the tables
  as they were until the request under way is done.
* **`Referrals_proofs`** holds the proofs about all of them.

### State machine

* **`StateMachine`** is one record of a type given by constants (`States`,
  `Edges`, `From`, `To`, `Required`, `Conditions`, `NeedsComment`,
  `AllowsReferrals`). `PerformTransition` is the whole method with its guards,
  log entry and alert. `open` and `unclosed` are what the conditions count: the
  record's open referrals and its unfinished children. Forms that write
  `current_state` (the create form and types that do not protect it, the admin)
  are in under `FormsMoveState`, the admin's referral pages under `AdminRefers`.
  Referrals are here only as far as guards ask about them; their own rules are
  in `Referrals`.
* **`TransitionRequests`** extends it: a transition request loads the record,
  queries events, referrals and children one after the other, saves the state,
  writes the log, alerts; a referral request asks the state and inserts later; an
  edit form loads and saves every column.
* **`SerialRequests`** lets one request run at a time and shows that it implements
  `StateMachine` (a transition under way is shown once its alert is out).
* **`StateMachine_proofs`** holds the proofs.

### Delivery

**`Delivery`** has, per mail, `stage` (how far `_record` has come), `row`,
`task` and `mailed` (what the server took). A worker's steps are the statements of
`deliver_email`: read the row if pending, send, then mark it sent, failed, or keep
it pending and raise. The queue (`django-background-tasks`, not in the repository)
is modelled from how the code relies on it: a task is claimed by one worker,
removed when it returns, put back when it raises until `MAX_ATTEMPTS` are spent,
and offered again when the lock of a dead worker has grown old. `MaxFaults` bounds
deaths of workers and replies lost after the server accepted a mail; failures the
server reports need no bound.

**`Delivery_proofs`** holds the proofs.

### Hierarchy

* **`Hierarchy`**: `parent[c]` is the record that the row of child `c` names.
  `Chain(p)` is what the walk of `_creates_cycle` meets, stated without recursion
  as the records in every set that holds `p` and is closed under "parent of".
  Deleting a record leaves the rows that name it, as in the code, which has only
  generic foreign keys here.
* **`HierarchyRequests`**: the walk one link at a time, the delete of the cached
  link, the second walk that `save` makes, the insert under the unique constraint.
* **`SerialHierarchy`**: one request at a time, beside the operations that have no
  form (`add_sub_workflow`, removals, the admin's change form), implements
  `Hierarchy`.
* **`Hierarchy_proofs`** holds the proofs.

### Deadlines

**`Deadlines`** is `check_referral_deadlines` over the table of referrals with a
`clock`. `StartJob` is the one query and the three lists made from it, with copies
of the rows; `WarnFirst`, `Stamp`, `WarnFinal`, `Expire` and `EndJob` are the
statements of the three loops, each on one row. `Stamp` names its column and
raises on a row that is gone, which ends the run; `Expire` saves every column of
the copy, and so does `Commit`, the save of a request (an answer, or the admin's
form with another due date) that loaded the row earlier. `reminded`, `unstamped`
and `handled` are history: reminders sent, stamps lost, what the run under way has
done to each referral. A due date is a number of clock units in which both windows
are whole; a referral without one is one beyond the horizon.

**`Deadlines_proofs`** holds the proofs.

### Meetings

**`MeetingRegister`** is one meeting: `meeting` (host, minutes status), `members` of
each group, `place` (the row of each account, which the unique constraint makes
one), the request each `worker` has in memory, the `events` on its log. A rebuild
is three steps, as in `regenerate_attendance`: `ReadGenerated` before the
transaction, `ReadMembers` (members and register) inside it, `Rebuild` as it
commits or is rolled back by the constraint; the form saves first and rebuilds
when the group differs from the one it loaded, the import does both in one
transaction and holds the meeting's row (`Locked`). `excused` (accounts that
joined, left or were removed since the last rebuild began) and `upset` (that
rebuild failed or was overtaken) are history.

**`MeetingRegister_proofs`** holds the proofs.

### Attachments

**`Attachments`** is one SharePoint document and one record. `reported` are the
versions SharePoint has, `attachment` the row, `mirror` and `current` the version
rows and those flagged. Uploading, looking for the row, storing or refreshing,
and the event are steps of their own, as are the fetch of the versions, each
`update_or_create`, the clearing and the setting of the flag. The constraint
refuses a second row; saving a row that was deleted inserts it again; a version
row of an attachment that is gone breaks the foreign key.

**`Attachments_proofs`** holds the proofs.

### Report shares

**`ScheduledShares`** has the rows (`next`, `expires`, `revoked`) and, for each
drain, its batch: the query with the drain's own clock (`Start`), then for each
share, oldest first, `Send` and `Book`. Booking names its columns, counts the
interval from the drain's clock, and raises on a deleted share, which drops the
rest of the batch.

**`ScheduledShares_proofs`** holds the proofs.

`MC*` modules give the constants for TLC; `Deadlines` and `ScheduledShares` need
none. Operators marked "Mutant" or "Mutation"
in a module are the code with one plausible mistake: with the operator they stand
for replaced by them the property named for it in `PROJECT.json` must fail.

## Runs

Passing runs:

| Run | Question |
| --- | --- |
| `referral_grants` | Do any operations on two referrals of two groups leave a grant out of step, take what others gave, or touch what no referral raised? |
| `referral_serial` | Do a handler's statements add up to its one step, and is there one row per group? |
| `referral_races` | Which promises survive every interleaving of two processes and a death between any two statements: an organic grant is never narrowed or removed, and two saves of one referral never both leave its event to the other. |
| `transition_serial` | Is a request, a statement at a time, the guarded step of `StateMachine`; is the log the path walked, did each move have its events, are sealed states free of open referrals? |
| `transition_races` | With two workers dying anywhere: moves still have their evidence, and nobody is told of an unlogged move. |
| `delivery` | Pending rows of finished requests are queued, statuses true and final, duplicates only by a fault, every queued mail settled. |
| `hierarchy_serial` | Do whole operations, with a form's statements among them, keep a forest, and do the statements amount to one step of `Hierarchy`? |
| `hierarchy_forms` | Do racing forms on types that do not nest both ways keep a forest, and does no form replace a link it did not show? |
| `deadlines` | With referrals answered, moved, reopened, deleted and orphaned while the job works its batch off, and the job killed: is what stands as expired past its due date, does a run do one thing to a referral, does a first reminder repeat only for a lost stamp, and does every overdue referral settle? |
| `meeting_register` | With rebuilds, the form, imports and the panel interleaved: does the register follow the host unless a rebuild failed or was overtaken, is nobody touched who was not generated, does what stands as recorded have its event? |
| `attachments` | With uploads, detachings and synchronisations interleaved: does a synchronisation nothing crossed leave the newest version alone current, is every row's coming, going and coming back told? |
| `report_shares` | With two drains of old copies: does a second mail in an interval take an overlap or a death, is no revoked or expired share revived, does what is due settle whatever happens to the rest of its batch? |

Deadlock is not checked in runs whose requests or counters are bounded, where the
model stops when they are used up, or where the system rests with nothing to do.

### Claims the code does not keep

The modules also state claims that the repository makes of the program and TLC
refutes. Their configurations are kept beside the modules
(`tlc -config <cfg> <module>`) but are not among the runs. Most have the same
cause, a value read by one statement and used by a later one. A configuration
with several claims refutes each by itself; TLC stops at the first it meets. Those
with a quoted promise and an effect that lasts are findings in `PROJECT.json`.

| Claim, and who makes it | Configuration, module | What the code does |
| --- | --- | --- |
| `OpenReferralGrantsView`: "the group may view and edit the record" (`docs/Functional Design.md:189`) | `MCReferralsView.cfg`, `MCReferrals` | `sync_referral_access` (`models/workflows.py:652`) raises edit on an existing row, never view |
| `OrganicGrantKept`: a closing referral "never narrows the type's policy" (`docs/Functional Design.md:272`) | `MCReferralsPolicy.cfg`, `MCReferrals` | `reconcile_primary_row` (`sync_type_group_access.py:83`) confers edit and leaves the mark of the referral that raised it, so the closing takes it |
| `AnsweredLeftAlone`: "an answered or recalled one is left alone" (`docs/Management Commands.md:291`) | `DeadlinesClaims.cfg`, `Deadlines` | the deadline job expires from the batch it read (`check_referral_deadlines.py:70`) |
| `DeletedStaysDeleted`: deleting a referral drops it (`models/workflows.py:1861`) | `DeadlinesClaims.cfg`, `Deadlines` | `mark_expired` and `respond` save the whole row, which inserts it again |
| `EveryActionReported`: "every referral action lands on the ... trail" (`docs/Data Model.md:557`) | `MCReferralCrash.cfg`, `MCReferralRequests` | a death between save and event |
| `GrantsInStepAtRest`: "The same `save()` keeps that grant in step" (`docs/Data Model.md:564`) | `MCReferralStep.cfg`, `MCReferralRequests` | of two handlers on one group the one that read first may write last (`models/workflows.py:631`) |
| `AppendOnly`: "Read-only view of the append-only domain event log" (`admin.py:955`) | `MCTransitionClaims.cfg`, `MCTransitionRequests` | the admin page does not forbid deleting |
| `MovesAlongEdges`: "a hand-crafted request cannot name an edge the record has already passed. perform_transition() re-checks the same thing" (`views.py:2037`) | `MCTransitionClaims.cfg`, `MCTransitionRequests` | the edge is compared with the loaded state, so two transitions from one state both go through (`models/workflows.py:440`) |
| `EditsLeaveState`: "state changes must go through the transition machine" (`forms.py:77`) | `MCTransitionClaims.cfg`, `MCTransitionRequests` | the form's `save()` writes the state it loaded over a transition made meanwhile |
| `MovesSettled`: conditions "block perform_transition() until satisfied" (`models/workflows.py:1369`) | `MCTransitionClaims.cfg`, `MCTransitionRequests` | they are queried before the save, in no transaction with it |
| `ReferredWhereAllowed`: "gated by State.allows_referrals" (`docs/Functional Design.md:165`) | `MCTransitionClaims.cfg`, `MCTransitionRequests` | the state asked is the loaded one |
| `LogTellsStateAtRest`: "a complete history" (`docs/Functional Design.md:349`), with crashes | `MCTransitionCrash.cfg`, `MCTransitionRequests` | the state and the log entry are saved apart |
| `SendNeverLost`: "a crash after COMMIT cannot lose the send" (`docs/Functional Design.md:391`) | `DeliveryClaims.cfg`, `Delivery` | row and task are committed apart when the caller has no transaction (`notifications/dispatch.py:331`) |
| `SentOnce`: "nothing is sent twice" (`docs/Management Commands.md:580`) | `DeliveryClaims.cfg`, `Delivery` | the row is pending until after the server took the mail |
| `LinksJoinRecords`: "Child instances of any concrete workflow type" (`models/workflows.py:732`) | `MCHierarchyClaims.cfg`, `MCHierarchy` | link rows outlive the records they name, and `_all_children_closed` then meets `None` |
| `AddedIsChild`: "re-parenting it if needed" (`models/workflows.py:826`) | `MCHierarchyClaims.cfg`, `MCHierarchy` | `add_sub_workflow` never changes the parent of an existing link |
| `Acyclic`: "the links form a tree" (`models/workflows.py:1942`), for requests on types that nest freely | `MCHierarchyFormsClaims.cfg`, `MCHierarchyRequests` | each walks up before the other writes |
| `RefusedKeepsLink`: "an invalid request never destroys existing hierarchy" (`models/workflows.py:795`) | `MCHierarchyFormsClaims.cfg`, `MCHierarchyRequests` | the old link is gone when `save` refuses the new one |
| `RegisterFollowsHost`: the register is generated "whenever the hosting group changes" (`docs/Data Model.md:466`) | `MCMeetingRegisterClaims.cfg`, `MCMeetingRegister` | `MeetingAdmin` (`admin.py:1255`) rebuilds nothing; a form compares with the group it loaded (`views.py:3886`) |
| `ApprovedStays`: minutes leave "approved" only as their status is set (`views.py:4038`) | `MCMeetingRegisterClaims.cfg`, `MCMeetingRegister` | the meeting form saves the minutes status it loaded |
| `OneCurrent`: "exactly one is normally flagged" (`docs/Data Model.md:892`) | `MCAttachmentsClaims.cfg`, `MCAttachments` | the flag is cleared and set by two statements, and set by what the row in memory says (`services/attachments.py:523`) |
| `UploadNeverRefused`: "re-uploading a revision refreshes the attachment in place instead of failing" (`docs/Functional Design.md:412`) | `MCAttachmentsClaims.cfg`, `MCAttachments` | two uploads both find no attachment (`services/attachments.py:351`) |
| `RevokedNotSent`: revoking "takes it out of the queue immediately" (`docs/Management Commands.md:321`) | `ScheduledSharesClaims.cfg`, `ScheduledShares` | a batch is read once and mailed without looking again |
| `BatchGoesOn`: "one undeliverable share must not stall the rest of the batch" (`reporting/sharing.py:206`) | `ScheduledSharesClaims.cfg`, `ScheduledShares` | booking a deleted share raises outside the `try` |

`MCHierarchy.cfg` checks the whole-operation module by itself, on a larger instance
than the run that maps statements to it. Every module states its types; where a run leaves them out, adding `TypeOK` (or
`RequestsTypeOK`) to the configuration checks them.

### Bounds, and why they are enough

* *Referrals*: two groups and two referrals are the least with which a reassignment,
  two referrals of one group, and an answer to one while the other is open occur; a
  third is another of these. The statement-level runs have one group, since
  handlers on different groups share no row but the timeline, and two processes;
  `referral_races` has one referral, which an administrator reopens and deletes, so
  that the save of every handler meets every other's, and one death. `MaxRows`
  bounds access rows ever inserted: two allow both processes to make one.
* *State machine*: the type has a return edge (so states repeat), an edge with
  required events and all conditions, a sealed end and one that takes referrals.
  `MaxLog` is long enough to go round and come to the end. The race runs keep two
  workers and one referral and child; no violation needs more.
* *Delivery*: `MAX_ATTEMPTS = 3` is the value in `settings.py`; two mails and two
  threads let a fault on one meet work on the other.
* *Hierarchy*: four records make rings of every length up to four and links beside
  them, in `MCHierarchy.cfg`; the runs have three records beside a form, or two
  reports and two resolutions under two forms, each of which runs once.

* *Deadlines*: two referrals make a batch in which one can spoil the run of the
  other. The due dates 1 and 3 against windows of 2 and 1 and a clock up to 3 put a
  referral before, in each of, and behind both windows, and let a moved deadline
  cross them. Two edits by people are a request beside one other change, one kill
  ends a run anywhere. Somebody hears of every referral or nobody of any.
* *Meetings*: two groups and two accounts allow a member of neither, one or both;
  three requests of two workers are two rebuilds and what comes between them, or a
  form beside an import and a recorded attendance. One change of membership or one
  death of a worker falls between any two steps of theirs.
* *Attachments*: three workers and five requests let two synchronisations overlap
  beside an upload and a detaching; three versions are an old, a flagged and a new one.
* *Report shares*: an interval of two and a clock up to four let a share fall due
  twice; one share expires after its first repeat.

### Fairness

*Delivery.* `EmailSettles`, in the run `delivery`, needs `Delivery!Fairness`. A request that is not
killed goes on, a thread that claimed a task executes its code (weak fairness on
`Deliver`), the lock of a dead worker ages (weak fairness on `LockExpires`), and a
task on offer is taken some time: a task put back by a retry is scheduled later
than those waiting, so it is offered again and again, and strong fairness on
`TakeTask` says that a running worker gets to it. Nothing is assumed about the
mail server: it may refuse every attempt. The run lets requests be killed and
claims only that a *queued* mail is settled; one cut off before it was queued is
what `SendNeverLost` in `DeliveryClaims.cfg` shows.

*Deadlines.* `OverdueSettles` needs `WF_vars(JobStep)`: cron starts the job again
and again, and a run that is not killed goes on. Kills are bounded, so some run
comes to its end; the runs a vanished row cuts short are bounded by the edits.

*Report shares.* `DueSettles` needs weak fairness on each drain's `Step`, for the
same reasons: the background task repeats (`tasks.py:69`), cron runs the command.
Nothing is assumed of people, the clock, or the mail server.

## Proofs

TLAPS proves, for all values of the constants that satisfy the named assumptions:

* **Referrals** (`Referrals_proofs`). `TypeInvariant`; `GrantsStayInStep`
  (`GrantsInStep`); `OrganicGrantsStay` (`OrganicGrantKept`, under the assumption
  that nobody confers edit on a row while a referral is marked as having raised
  it, without which `MCReferralsPolicy.cfg` refutes it);
  `ReferralStepsMoveOnlyTheirOwn` (the action property); and `SyncIdempotent`, that
  synchronising twice is synchronising once. The work is in lemmas about `Synced`
  for one row: a saved or deleted referral synchronises every group whose
  referrals it changes, so a group outside that set keeps both its row and its
  `HasReferral`/`HasOpenReferral`. The invariants need the type invariant, and
  `OrganicGrantKept` needs that what others gave is never among what a referral
  raised.

  Of the statements, for any number of processes that die anywhere:
  `RequestsTypeInvariant`; `TimelineToldOnce` (`TimelineComplete`), by
  `TimelineInv`: the status that stands is on the timeline, or a save that read
  another status is about to put it there (`Told`), a save about to write read
  another status or writes one already told (`Backed`), and a referral that was
  loaded is there or was deleted (`Present`); `OrganicRowsSpared`
  (`OrganicNeverNarrowed`), by `Fit`: of the row a process is about to write, its
  memory has the origin right, and whether edit was given. This one assumes that no
  administrator ticks *edit* on a row meanwhile; other boxes may be ticked at any
  time. For one process (`OneWorker`): `OneRowWhenSerial` (`OneRowPerGroup`).

  `RequestsImplementReferrals` (`ImplementsReferrals`): one process, not killed and
  with no box ticked in between (`Alone`), implements `Referrals`. `InCourse` says
  what a request knows between two statements: before its first write, that the row
  it loaded still stands (`Loaded`); after it, that the tables are those of `before`
  with its row (`Saved`), its event (`Reports`) and, once it has written it, its
  group's access row (`Read`). Every statement but the last is a stutter; the alert,
  and the admin's commits, are the one step. `RowFor` is the access row the mapping
  shows of a group, and the lemmas about it say what one synchronisation of the
  sequence of rows makes of it. Two processes or a death between two statements
  leave tables that no sequence of whole operations leaves; boxes are ruled out
  because the mapping shows nobody else's grants.
* **State machine** (`StateMachine_proofs`). `TypeInvariant`; `MovesAreBacked`
  (events only leave the timeline into `erased`); `LogIsThePath` where no form
  writes the state, by a lemma about appending to a path; `SealedStatesSettled`
  where the admin adds no referrals: sealed states are entered only with none open
  and do not take new ones.

  Of the statements: `RequestsTypeInvariant`; `RacingMovesAreBacked` and `AlertedMovesAreLogged`, for any
  number of workers dying anywhere, by `RaceInv` (past its query of the timeline a
  request's events are there or were deleted, at its alert its move is logged). With
  one request at a time, however many workers: `LogIsThePathAtRest` by `PathInv` (the
  log leads to the state, or to the start of the edge being logged),
  `SealedStatesSettledByRequests` by `SerialInv` (what the request has asked still
  holds), both under the assumptions above, and `RequestsImplementStateMachine`
  (`ImplementsStateMachine`) without any.
* **Hierarchy** (`Hierarchy_proofs`). `TypeInvariant`; `AlwaysForest` (`Acyclic`
  for any number of records and any types). A ring is a nonempty set in which each
  record's parent lies. If a checked link from `c` to `p` closed a ring `S`, the
  check provides a set `T`, closed upwards, with `p` and without `c`, and `S \cap T`
  would have been a ring before. Stating descent by closed sets keeps the argument
  free of induction.

  Of the statements, for any number of requests: `AcceptedLinksStay`
  (`AcceptedStays`); `RacesKeepForest` (`Acyclic`) under `TypesNest`, that no set of
  records may be nested in a ring by their types, which holds of the shipped types
  and without which `MCHierarchyFormsClaims.cfg` refutes it. One request at a time:
  `RequestsTypeInvariant`, `RequestsImplementHierarchy` (`ImplementsHierarchy`) and
  `RefusedAloneKeepsLink`.
  The invariant of the walk is that whatever is closed and holds the parent asked
  for holds every record met so far, so that a walk that ends without the child has
  found a closed set without it, and the second walk, made after the old link is
  gone, finds the same. There is at least one record (`HierarchyAssumption`).
* **Delivery** (`Delivery_proofs`). `TypeInvariant`; `NoneForgotten`
  (`PendingIsQueued`); `OutcomeIsTrue` (`StatusTellsOutcome`); `SettledStays`
  (`SettledForGood`); `CopiesArePaid` (`DuplicatesNeedFault`). All rest on one
  invariant: a worker under way holds the lock of its task (`Held`), a pending row
  has counted no fewer attempts than the queue and has some left (`MailInv`), and
  what a worker knows of its row is so (`WorkInv`). For the copies, `CopyInv` says
  that the first is free as long as the row is pending. `MAX_ATTEMPTS` is any
  positive number, the same for the row and the queue.
* **Meetings** (`MeetingRegister_proofs`). `TypeInvariant`; `WhatStandsIsLogged`
  (`StandingIsLogged`), by `LogInv`: the minutes a form loaded have their event too,
  since it writes them back; `RegisterIsInStep` (`FollowsHost`), by `KeyInv` (a key a
  rebuild has read is of a generated row or of none, as keys are not given out
  again) and `HostInv` (while a rebuild runs that nothing upset it runs alone, for
  the group that hosts, and remembers what is so of every account not excused);
  `OthersAreUntouched` (`InviteesUntouched`).
* **Attachments** (`Attachments_proofs`). `TypeInvariant`; `NewestIsFlagged`
  (`CurrentIsNewest`), by `SyncInv`: an uncrossed synchronisation is alone, its row
  stands, and its memory of the newest version and its flag is right;
  `TrailIsComplete` (`TrailComplete`): what a worker owes is written or dies with
  it. There is at least one version (`BoundAssumption`); that a nonempty set of
  versions has a greatest is a lemma here.
* **Report shares** (`ScheduledShares_proofs`). `TypeInvariant`;
  `MailedOncePerInterval` (`OncePerInterval`), by `AllSpaced`: of a share that was
  never in two drains nor in one that died, whatever was sent is an interval before
  the next sending, before the clock of the drain that holds it (`Ripe`), or is what
  it is about to book (`Fresh`); `OnlyActiveIsSent` (`SentWhileActive`), by
  `WasActive`: what a drain holds was neither revoked nor expired when it began. The
  interval is any positive number.
* **Deadlines** (`Deadlines_proofs`). `TypeInvariant`; `ExpiredIsDue`
  (`ExpiredWasDue`); `OncePerRun` (`HandledOncePerRun`); `RemindedOnce`
  (`FirstReminderOnce`). None is inductive as it stands: all turn on what the run
  under way has in memory. `Copied` says that its lists name copies of rows that
  were there, `DueInv` that the copies to be expired were due when they were read,
  `HandledInv` that the three lists are disjoint and what they hold is unhandled,
  `StampInv` that a reminder sent is stamped, about to be stamped, or counted as
  lost. `StepsShrink` is the lemma they share: after the query that starts a run
  its lists only get shorter and its copies stay what they were. `DeadlineAssumption`
  asks that dates are numbers; how the two windows compare is not used.

Each proof module has one step per action; a temporal theorem ends in a PTL step
from the initial condition and the step lemma.

**Model-checked only.** The liveness properties (`EmailSettles`, `OverdueSettles`,
`DueSettles`), which need fairness. Every safety property of the runs, the three
refinements included, is a theorem; those that assume more than their run's
module does say so above. The `No...` constants, such as `NoRow`, are assumed to
be none of the values they stand beside. The claims the code does not keep have
counterexamples, not proofs. What a recursive definition computes for every input
is out of the prover's reach, and no module declares one.

## Not modelled, and abstractions

Titles, texts and audiences are left out; an alert is its kind, an event its type.
Times are numbers of a clock where deadlines and schedules turn on them. Who *may*
call an operation (permissions) is left out: every operation may be called.
Uniqueness of access rows is not assumed anywhere. Deleting whole records, with
what the database cascades, appears only in the hierarchy and, as a record that is
gone, in `Deadlines`. The death of the whole queue process is the death of its
threads one by one.

*Meetings*: a guest is an account that is in no group; rows edited in the admin's
inline, `register_generated_at`, agenda texts and the summary mail are left out.
*Attachments*: browsing and mirroring of sites and folders, alerts, and the
cascade from a deleted site. *Report shares*: the public page and its access
counter, shares that do not repeat, the first mail; calendar months are intervals.
*Permissions, reference numbers, bill versions, the partner API*: planned. *Search,
history, progress, reports*: read only. *Membership sync, authentication*: protocols
of other systems, seen here as members that change.

## Plan

1. Proofs of what the refinements carry down: `GrantsInStep` of the statements of
   one process, read off `Referrals` through the mapping, and `OrganicNeverNarrowed`
   where edit is ticked only on rows that no open referral has raised.
2. A composition of `StateMachine` and `Referrals`, in which guards read the
   referrals and the timeline themselves: a sealed state keeps no grant raised.
3. `Permissions`: `resolve` and `can` as operators over roles, access rows, state
   permissions and ancestors, against a reference definition; with `Hierarchy`,
   that view alone is inherited.
4. `BillVersions` and `ReferenceNumbers`, in one run. Reference numbers: order of
   the texts against order of the numbers, beyond 9999.
5. The partner API's tokens.
