---------------------------- MODULE Attachments ----------------------------
(***************************************************************************)
(* One SharePoint document and its place on one record                     *)
(* (services/attachments.py): requests link it, upload revisions of it,    *)
(* detach it, and mirror its version history, each a few statements and    *)
(* calls to SharePoint in no common transaction.                           *)
(*                                                                         *)
(* SharePoint numbers the versions of a file in the order they are saved;  *)
(* the same folder and file name is the same item.  The unique constraint  *)
(* allows the record one row for the item; `pk` tells a row from the one   *)
(* that replaced it.                                                       *)
(***************************************************************************)
EXTENDS Integers, FiniteSetsExt

CONSTANTS Workers, NoRow,
          MaxVersions,   \* bound on the versions of the file
          MaxRequests,   \* bound on the requests that are made
          MaxFaults      \* bound on workers killed and replies of SharePoint lost

ASSUME BoundAssumption == MaxVersions \in Nat \ {0} /\ {MaxRequests, MaxFaults} \subseteq Nat

Versions == 1..MaxVersions

Row == [pk : Nat \ {0}, held : Versions]

ASSUME NoRowAssumption == NoRow \notin Row

VARIABLES reported,   \* the versions SharePoint has of the file
          attachment, \* the row; `held` is the version its metadata is from
          issued,     \* rows there ever were
          mirror,     \* the version rows of the attachment
          current,    \* those that are flagged as current
          worker, events, requests, faults,
          lost,       \* history: events that died with a worker
          crossed     \* history: the last synchronisation was crossed or cut short

local == <<attachment, issued>>
versions == <<mirror, current>>
history == <<lost, crossed>>
vars == <<reported, local, versions, worker, events, requests, faults, history>>

Idle == [pc |-> "idle"]

(* A synchronisation: versions still to mirror, the newest, and whether    *)
(* the copy of its row in memory is flagged.                               *)
Sync(pc, pk, todo, newest, flagged) ==
  [pc |-> pc, pk |-> pk, todo |-> todo, newest |-> newest, flagged |-> flagged]

Latest == IF reported = {} THEN 0 ELSE Max(reported)

Attached(pk) == attachment # NoRow /\ attachment.pk = pk

Syncing(w) == worker[w].pc \in {"mirror", "clear", "set"}

Alone(w) == \A v \in Workers \ {w} : ~Syncing(v)

Goes(w, job) == worker' = [worker EXCEPT ![w] = job]

End(w) == Goes(w, Idle)

(* The request has an event to write.                                      *)
Owe(w, kind, pk) == Goes(w, [pc |-> "event", fact |-> <<kind, pk>>])

Begin(w, request) == /\ worker[w].pc = "idle"
                     /\ requests < MaxRequests
                     /\ requests' = requests + 1
                     /\ Goes(w, request)
                     /\ UNCHANGED faults

-----------------------------------------------------------------------------
(* SharePoint *)

(* Somebody saves the file there, or old versions are trimmed.             *)
RemoteSave == /\ Latest < MaxVersions
              /\ Latest > 0
              /\ reported' = reported \cup {Latest + 1}
              /\ UNCHANGED <<local, versions, worker, events, requests, faults, history>>

RemoteTrim == /\ Cardinality(reported) > 1
              /\ reported' = reported \ {Min(reported)}
              /\ UNCHANGED <<local, versions, worker, events, requests, faults, history>>

-----------------------------------------------------------------------------
(* Attaching *)

Upload(w) == /\ Latest < MaxVersions
             /\ reported' = reported \cup {Latest + 1}
             /\ Begin(w, [pc |-> "find", uploaded |-> TRUE, version |-> Latest + 1])
             /\ UNCHANGED <<local, versions, events, history>>

(* An error after the upload is told as a failed request, like one before. *)
UploadLost(w) == /\ worker[w].pc = "find"
                 /\ faults < MaxFaults
                 /\ faults' = faults + 1
                 /\ End(w)
                 /\ UNCHANGED <<reported, local, versions, events, requests, history>>

Link(w) == /\ Latest > 0
           /\ Begin(w, [pc |-> "store", uploaded |-> FALSE, version |-> Latest])
           /\ UNCHANGED <<reported, local, versions, events, history>>

(* An item that is attached already is refreshed.                          *)
Find(w) == /\ worker[w].pc = "find"
           /\ Goes(w, IF attachment = NoRow THEN [worker[w] EXCEPT !.pc = "store"]
                      ELSE [pc |-> "refresh", pk |-> attachment.pk, version |-> worker[w].version])
           /\ UNCHANGED <<reported, local, versions, events, requests, faults, history>>

(* The constraint refuses a second row: "already attached".                *)
Store(w) ==
  /\ worker[w].pc = "store"
  /\ IF attachment = NoRow
     THEN /\ attachment' = [pk |-> issued + 1, held |-> worker[w].version]
          /\ issued' = issued + 1
          /\ Owe(w, "attached", issued + 1)
     ELSE End(w) /\ UNCHANGED local
  /\ UNCHANGED <<reported, versions, events, requests, faults, history>>

(* Mutation: a row that was put back counts as attached anew.              *)
RefreshAnew(w) ==
  LET pk == worker[w].pk IN
  /\ worker[w].pc = "refresh"
  /\ IF attachment = NoRow \/ Attached(pk)
     THEN /\ attachment' = [pk |-> pk, held |-> worker[w].version]
          /\ Owe(w, IF attachment = NoRow THEN "attached" ELSE "version", pk)
     ELSE End(w) /\ UNCHANGED attachment
  /\ UNCHANGED <<reported, issued, versions, events, requests, faults, history>>

(* The whole row is saved, and inserted again if it was deleted; when the  *)
(* item has another row by then, the constraint fails the request.         *)
Refresh(w) ==
  LET pk == worker[w].pk IN
  /\ worker[w].pc = "refresh"
  /\ IF attachment = NoRow \/ Attached(pk)
     THEN /\ attachment' = [pk |-> pk, held |-> worker[w].version]
          /\ Owe(w, "version", pk)
     ELSE End(w) /\ UNCHANGED attachment
  /\ UNCHANGED <<reported, issued, versions, events, requests, faults, history>>

LoadDetach(w) == /\ attachment # NoRow
                 /\ Begin(w, [pc |-> "detach", pk |-> attachment.pk])
                 /\ UNCHANGED <<reported, local, versions, events, history>>

(* Mutation: a row that is gone already is not reported.                   *)
DetachQuietly(w) ==
  LET pk == worker[w].pk IN
  /\ worker[w].pc = "detach"
  /\ IF Attached(pk)
     THEN attachment' = NoRow /\ mirror' = {} /\ current' = {} /\ End(w)
     ELSE UNCHANGED <<attachment, versions>> /\ Owe(w, "detached", pk)
  /\ crossed' = \E v \in Workers : Syncing(v)
  /\ UNCHANGED <<reported, issued, events, requests, faults, lost>>

(* Mutation: the version rows stay.                                        *)
DetachKeepsVersions(w) ==
  LET pk == worker[w].pk IN
  /\ worker[w].pc = "detach"
  /\ attachment' = IF Attached(pk) THEN NoRow ELSE attachment
  /\ Owe(w, "detached", pk)
  /\ UNCHANGED <<reported, issued, versions, events, requests, faults, history>>

(* The version rows go with the row, the file stays.                       *)
Detach(w) ==
  LET pk == worker[w].pk IN
  /\ worker[w].pc = "detach"
  /\ IF Attached(pk) THEN attachment' = NoRow /\ mirror' = {} /\ current' = {}
                     ELSE UNCHANGED <<attachment, versions>>
  /\ Owe(w, "detached", pk)
  /\ crossed' = IF Attached(pk) THEN \E v \in Workers : Syncing(v) ELSE crossed
  /\ UNCHANGED <<reported, issued, events, requests, faults, lost>>

Record(w) == /\ worker[w].pc = "event"
             /\ events' = events \cup {worker[w].fact}
             /\ End(w)
             /\ UNCHANGED <<reported, local, versions, requests, faults, history>>

-----------------------------------------------------------------------------
(* The version history panel *)

Fetch(w) == /\ attachment # NoRow
            /\ Begin(w, Sync("mirror", attachment.pk, reported, Latest, FALSE))
            /\ crossed' = ~Alone(w)
            /\ UNCHANGED <<reported, local, versions, events, lost>>

(* One update_or_create, newest first; the flag is as the row has it now.  *)
(* A version of a row that is gone breaks the foreign key.                 *)
Upsert(w) ==
  LET job == worker[w]
      v == Max(job.todo)
  IN
  /\ job.pc = "mirror"
  /\ IF Attached(job.pk)
     THEN /\ mirror' = mirror \cup {v}
          /\ Goes(w, Sync(IF job.todo = {v} THEN "clear" ELSE "mirror", job.pk, job.todo \ {v},
                          job.newest, IF v = job.newest THEN v \in current ELSE job.flagged))
          /\ UNCHANGED crossed
     ELSE End(w) /\ crossed' = TRUE /\ UNCHANGED mirror
  /\ UNCHANGED <<reported, local, current, events, requests, faults, lost>>

(* Mutation: the versions flagged before stay flagged.                     *)
ClearNothing(w) == /\ worker[w].pc = "clear"
                   /\ Goes(w, [worker[w] EXCEPT !.pc = "set"])
                   /\ UNCHANGED <<reported, local, versions, events, requests, faults, history>>

Clear(w) == /\ worker[w].pc = "clear"
            /\ current' = IF Attached(worker[w].pk) THEN current \cap {worker[w].newest} ELSE current
            /\ Goes(w, [worker[w] EXCEPT !.pc = "set"])
            /\ UNCHANGED <<reported, local, mirror, events, requests, faults, history>>

(* The flag is set unless the copy in memory has it.                       *)
SetCurrent(w) ==
  /\ worker[w].pc = "set"
  /\ current' = IF ~worker[w].flagged /\ Attached(worker[w].pk)
                THEN current \cup ({worker[w].newest} \cap mirror) ELSE current
  /\ End(w)
  /\ crossed' = (crossed \/ ~Alone(w))
  /\ UNCHANGED <<reported, local, mirror, events, requests, faults, lost>>

-----------------------------------------------------------------------------
Die(w) == /\ worker[w].pc # "idle"
          /\ faults < MaxFaults
          /\ faults' = faults + 1
          /\ End(w)
          /\ lost' = IF worker[w].pc = "event" THEN lost \cup {worker[w].fact} ELSE lost
          /\ crossed' = (crossed \/ Syncing(w))
          /\ UNCHANGED <<reported, local, versions, events, requests>>

(* The file may be there before the record knows of it.                    *)
Init == /\ reported \in {{}, {1}}
        /\ attachment = NoRow
        /\ issued = 0
        /\ mirror = {} /\ current = {}
        /\ worker = [w \in Workers |-> Idle]
        /\ events = {}
        /\ requests = 0 /\ faults = 0
        /\ lost = {} /\ crossed = FALSE

Next == \/ RemoteSave \/ RemoteTrim
        \/ \E w \in Workers :
             \/ Upload(w) \/ UploadLost(w) \/ Link(w) \/ Find(w) \/ Store(w) \/ Refresh(w)
             \/ LoadDetach(w) \/ Detach(w) \/ Record(w)
             \/ Fetch(w) \/ Upsert(w) \/ Clear(w) \/ SetCurrent(w) \/ Die(w)

Spec == Init /\ [][Next]_vars

-----------------------------------------------------------------------------
Facts == {"attached", "version", "detached"} \X (1..issued)

Owed == {worker[w].fact : w \in {v \in Workers : worker[v].pc = "event"}}

TypeOK == /\ reported \subseteq Versions
          /\ attachment \in Row \cup {NoRow}
          /\ issued \in Nat
          /\ attachment # NoRow => attachment.pk \in 1..issued /\ attachment.held <= Latest
          /\ current \subseteq mirror /\ mirror \subseteq Versions
          /\ attachment = NoRow => mirror = {}
          /\ \A w \in Workers :
               worker[w].pc \in {"refresh", "detach", "mirror"} => worker[w].pk \in 1..issued
          /\ events \cup Owed \cup lost \subseteq Facts
          /\ requests \in 0..MaxRequests /\ faults \in 0..MaxFaults
          /\ crossed \in BOOLEAN

Synced == \A w \in Workers : ~Syncing(w)

(* "The newest mirrored version; exactly one is normally flagged"          *)
(* (docs/Data Model.md, on is_current): so it is after a synchronisation   *)
(* that no other and no detaching crossed and that was not cut short,      *)
(* whatever was saved in SharePoint, uploaded or refreshed meanwhile.      *)
CurrentIsNewest ==
  Synced /\ ~crossed => current = IF mirror = {} THEN {} ELSE {Max(mirror)}

Told(fact) == fact \in events \cup Owed \cup lost

(* Attaching, detaching and revising are on the record's trail             *)
(* (docs/SharePoint Sync.md, The document audit trail): a row that ever    *)
(* was has its attaching told, one that is gone its detaching, and one     *)
(* that stands after its detaching was told, put back by a revision that   *)
(* had loaded it, has that revision told; told is what is written, what a  *)
(* worker is about to write, and what died with one.                       *)
TrailComplete ==
  \A pk \in 1..issued :
    /\ Told(<<"attached", pk>>)
    /\ Attached(pk) \/ Told(<<"detached", pk>>)
    /\ Attached(pk) /\ <<"detached", pk>> \in events \cup Owed => Told(<<"version", pk>>)

(* "Re-uploading a revision refreshes the attachment in place instead of   *)
(* failing" (docs/Functional Design.md, 7).                                *)
UploadNeverRefused ==
  [][\A w \in Workers : worker[w].pc = "store" /\ worker[w].uploaded /\ faults' = faults
       => worker'[w].pc # "idle"]_vars

(* Exactly one version is flagged whenever nobody is synchronising.        *)
OneCurrent == Synced /\ mirror # {} /\ faults = 0 => Cardinality(current) = 1

=============================================================================
