-------------------------- MODULE MeetingRegister --------------------------
(***************************************************************************)
(* The attendance register of one meeting (models/meetings.py), kept by    *)
(* requests that run beside each other: the meeting form and the import    *)
(* change the hosting group and rebuild the generated part, the register   *)
(* panel invites, removes and records, and the minutes move along.         *)
(*                                                                         *)
(* The unique constraint allows an account one row, so `place` maps it to  *)
(* that row; `pk` tells a row from the one that replaced it.  A guest is   *)
(* an account that is in no group.                                         *)
(***************************************************************************)
EXTENDS Naturals, FiniteSets

CONSTANTS Users, Groups,
          NoGroup,      \* no hosting group
          NoPlace,      \* not on the register
          Workers,      \* web workers
          MaxRequests,  \* bound on the requests that are made
          MaxChanges    \* bound on memberships that change, on host edits in the
                        \* admin and on workers killed, taken together

ASSUME CountAssumption == NoGroup \notin Groups /\ {MaxRequests, MaxChanges} \subseteq Nat

Marks == {"present", "absent"}

MinutesStatuses == {"draft", "filed", "approved"}

Place == [pk : Nat \ {0}, source : {"host_group", "invitee"}, rsvp : BOOLEAN,
          mark : Marks \cup {"not_recorded"}]

ASSUME PlaceAssumption == NoPlace \notin Place

VARIABLES meeting,   \* hosting group and minutes status
          members,   \* active members of each group
          place, issued,  \* rows of each account; how many it was ever given
          worker,    \* the request each worker has in memory
          events,    \* what the meeting's log says of attendance and minutes
          requests, changes,
          lost,      \* history: facts whose event died with a worker
          excused,   \* history: accounts moved in or out since the last rebuild began
          upset      \* history: that rebuild failed or was overtaken

counters == <<requests, changes>>
history == <<lost, excused, upset>>
register == <<place, issued>>
vars == <<meeting, members, register, worker, events, counters, history>>

Idle == [pc |-> "idle"]

(* A call of regenerate_attendance, and what it has read so far.           *)
Rebuilds(g, imports) == [pc |-> "rebuild", newHost |-> g, imports |-> imports,
                         generated |-> {}, members |-> {}, joiners |-> {}]

(* A request that owes the meeting's log an event, and what it will say.   *)
Owes(fact) == [pc |-> "event", fact |-> fact]

MinutesAre(status) == <<"minutes", status>>

MembersOf(g) == IF g = NoGroup THEN {} ELSE members[g]

OnRegister == {u \in Users : place[u] # NoPlace}

Generated == {u \in OnRegister : place[u].source = "host_group"}

(* Mutation: the key of a deleted row is given out again.                  *)
NewPlaceReused(u, source) == [pk |-> IF issued[u] = 0 THEN 1 ELSE issued[u], source |-> source,
                              rsvp |-> FALSE, mark |-> "not_recorded"]

NewPlace(u, source) == [pk |-> issued[u] + 1, source |-> source, rsvp |-> FALSE,
                        mark |-> "not_recorded"]

(* The row a request loaded is still there.                                *)
Standing(u, pk) == place[u] # NoPlace /\ place[u].pk = pk

-----------------------------------------------------------------------------
(* The life of a request *)

Goes(w, job) == worker' = [worker EXCEPT ![w] = job]

Begin(w, request) == /\ worker[w].pc = "idle"
                     /\ requests < MaxRequests
                     /\ requests' = requests + 1
                     /\ Goes(w, request)
                     /\ UNCHANGED changes

End(w) == Goes(w, Idle)

Rebuilding(w) == worker[w].pc \in {"rebuild", "read", "write"}

Alone(w) == \A v \in Workers \ {w} : ~Rebuilding(v)

(* An import writes the meeting first and commits last: it holds the row.  *)
Locked == \E v \in Workers : Rebuilding(v) /\ worker[v].imports

Upset(sure) == upset' = (upset \/ sure)

-----------------------------------------------------------------------------
(* Rebuilding the generated part *)

(* The button: refused on a meeting without a hosting group.               *)
Regenerate(w) == /\ meeting.host # NoGroup
                 /\ Begin(w, Rebuilds(meeting.host, FALSE))
                 /\ UNCHANGED <<meeting, members, register, events, history>>

(* The form is filled with every column of the meeting as loaded.          *)
LoadForm(w, g) ==
  /\ Begin(w, [pc |-> "save", host |-> meeting.host, newHost |-> g, minutes |-> meeting.minutes])
  /\ UNCHANGED <<meeting, members, register, events, history>>

(* Mutation: the group is compared after it was saved.                     *)
SaveFormFirst(w) ==
  LET form == worker[w] IN
  /\ form.pc = "save"
  /\ ~Locked
  /\ meeting' = [host |-> form.newHost, minutes |-> form.minutes]
  /\ End(w)
  /\ Upset(form.newHost # meeting.host /\ (form.newHost = form.host \/ ~Alone(w)))
  /\ UNCHANGED <<members, register, events, counters, lost, excused>>

(* It rebuilds when the group differs from the one loaded, which need not  *)
(* be the one it replaces.                                                 *)
SaveForm(w) ==
  LET form == worker[w] IN
  /\ form.pc = "save"
  /\ ~Locked
  /\ meeting' = [host |-> form.newHost, minutes |-> form.minutes]
  /\ Goes(w, IF form.newHost # form.host THEN Rebuilds(form.newHost, FALSE) ELSE Idle)
  /\ Upset(form.newHost # meeting.host /\ (form.newHost = form.host \/ ~Alone(w)))
  /\ UNCHANGED <<members, register, events, counters, lost, excused>>

(* One row of an import file, in one transaction.  Whether the meeting was *)
(* loaded just before its update makes no difference to what it writes.    *)
Import(w, g) == /\ g # meeting.host
                /\ ~Locked
                /\ Begin(w, Rebuilds(g, TRUE))
                /\ UNCHANGED <<meeting, members, register, events, history>>

(* Which rows are generated is read before the transaction.                *)
ReadGenerated(w) ==
  LET job == worker[w]
      inStep == Alone(w) /\ (job.imports \/ job.newHost = meeting.host)
  IN
  /\ job.pc = "rebuild"
  /\ Goes(w, [pc |-> "read", newHost |-> job.newHost, imports |-> job.imports,
              generated |-> {<<u, place[u].pk>> : u \in Generated},
              members |-> {}, joiners |-> {}])
  /\ excused' = IF inStep THEN {} ELSE excused
  /\ upset' = (~inStep \/ (upset /\ ~Alone(w)))
  /\ UNCHANGED <<meeting, members, register, events, counters, lost>>

(* Without a hosting group nothing is read, and nobody is a member.        *)
ReadMembers(w) ==
  LET job == worker[w]
      now == MembersOf(job.newHost)
  IN
  /\ job.pc = "read"
  /\ Goes(w, [pc |-> "write", newHost |-> job.newHost, imports |-> job.imports,
              generated |-> job.generated, members |-> now, joiners |-> now \ OnRegister])
  /\ UNCHANGED <<meeting, members, register, events, counters, history>>

(* Mutation: the rows are deleted by account, not by key.                  *)
LeaversByUser(w) == {u \in OnRegister : \E g \in worker[w].generated : g[1] = u}
                      \ worker[w].members

Leavers(w) == {u \in OnRegister : <<u, place[u].pk>> \in worker[w].generated}
                \ worker[w].members

(* Rows are made for the members who had none and the generated rows of    *)
(* others are deleted by key.  A member who was put on the register since  *)
(* it was read breaks the constraint: all of it is rolled back, and the    *)
(* request fails.                                                          *)
Rebuild(w) ==
  LET job == worker[w]
      refused == job.joiners \cap OnRegister # {}
  IN
  /\ job.pc = "write"
  /\ IF refused THEN UNCHANGED <<register, meeting>>
     ELSE /\ place' = [u \in Users |-> IF u \in job.joiners THEN NewPlace(u, "host_group")
                                       ELSE IF u \in Leavers(w) THEN NoPlace ELSE place[u]]
          /\ issued' = [u \in Users |-> issued[u] + (IF u \in job.joiners THEN 1 ELSE 0)]
          /\ meeting' = IF job.imports THEN [meeting EXCEPT !.host = job.newHost] ELSE meeting
  /\ End(w)
  /\ Upset(refused \/ ~Alone(w))
  /\ UNCHANGED <<members, events, counters, lost, excused>>

-----------------------------------------------------------------------------
(* The register panel *)

(* The form asks whether the person is on the register already.            *)
CheckInvitee(w, u) == /\ u \notin OnRegister
                      /\ Begin(w, [pc |-> "invite", user |-> u])
                      /\ UNCHANGED <<meeting, members, register, events, history>>

Invite(w) ==
  LET u == worker[w].user IN
  /\ worker[w].pc = "invite"
  /\ IF u \in OnRegister THEN UNCHANGED register
     ELSE /\ place' = [place EXCEPT ![u] = NewPlace(u, "invitee")]
          /\ issued' = [issued EXCEPT ![u] = @ + 1]
  /\ End(w)
  /\ UNCHANGED <<meeting, members, events, counters, history>>

Remove(u) == /\ u \in OnRegister
             /\ requests < MaxRequests
             /\ requests' = requests + 1
             /\ place' = [place EXCEPT ![u] = NoPlace]
             /\ excused' = excused \cup {u}
             /\ UNCHANGED <<meeting, members, issued, worker, events, changes, lost, upset>>

LoadRecord(w, u, rsvp, mark) ==
  /\ u \in OnRegister
  /\ Begin(w, [pc |-> IF rsvp THEN "respond" ELSE "record", user |-> u, pk |-> place[u].pk,
               mark |-> mark])
  /\ UNCHANGED <<meeting, members, register, events, history>>

(* Both saves name their columns and fail on a row that was deleted.       *)
Respond(w) ==
  LET job == worker[w]
      u == job.user
  IN
  /\ job.pc = "respond"
  /\ IF Standing(u, job.pk)
     THEN /\ place' = [place EXCEPT ![u].rsvp = TRUE]
          /\ Goes(w, IF job.mark = "not_recorded" THEN Idle ELSE [job EXCEPT !.pc = "record"])
     ELSE End(w) /\ UNCHANGED place
  /\ UNCHANGED <<meeting, members, issued, events, counters, history>>

(* Mutation: a correction of what was recorded gets no event.              *)
RecordQuietly(w) ==
  LET job == worker[w]
      u == job.user
  IN
  /\ job.pc = "record"
  /\ IF Standing(u, job.pk)
     THEN /\ place' = [place EXCEPT ![u].mark = job.mark]
          /\ Goes(w, IF place[u].mark = "not_recorded" THEN Owes(<<u, job.pk, job.mark>>) ELSE Idle)
     ELSE End(w) /\ UNCHANGED place
  /\ UNCHANGED <<meeting, members, issued, events, counters, history>>

Record(w) ==
  LET job == worker[w]
      u == job.user
  IN
  /\ job.pc = "record"
  /\ IF Standing(u, job.pk)
     THEN /\ place' = [place EXCEPT ![u].mark = job.mark]
          /\ Goes(w, Owes(<<u, job.pk, job.mark>>))
     ELSE End(w) /\ UNCHANGED place
  /\ UNCHANGED <<meeting, members, issued, events, counters, history>>

Log(w) == /\ worker[w].pc = "event"
          /\ events' = events \cup {worker[w].fact}
          /\ End(w)
          /\ UNCHANGED <<meeting, members, register, counters, history>>

(* Going back to draft leaves no event.                                    *)
SetMinutes(w, status) ==
  /\ ~Locked
  /\ meeting' = [meeting EXCEPT !.minutes = status]
  /\ Begin(w, IF status = "draft" THEN Idle ELSE Owes(MinutesAre(status)))
  /\ UNCHANGED <<members, register, events, history>>

-----------------------------------------------------------------------------
(* What happens around it *)

Change == changes < MaxChanges /\ changes' = changes + 1 /\ UNCHANGED requests

(* The membership sync: a member joins a group or leaves it.               *)
ChangeMember(g, u) ==
  /\ Change
  /\ members' = [members EXCEPT ![g] = IF u \in @ THEN @ \ {u} ELSE @ \cup {u}]
  /\ excused' = excused \cup {u}
  /\ UNCHANGED <<meeting, register, worker, events, lost, upset>>

(* The admin's meeting page saves the host and rebuilds nothing.           *)
AdminSetHost(g) == /\ Change
                   /\ ~Locked
                   /\ g # meeting.host
                   /\ meeting' = [meeting EXCEPT !.host = g]
                   /\ upset' = TRUE
                   /\ UNCHANGED <<members, register, worker, events, lost, excused>>

Die(w) == /\ worker[w].pc # "idle"
          /\ Change
          /\ End(w)
          /\ lost' = IF worker[w].pc = "event" THEN lost \cup {worker[w].fact} ELSE lost
          /\ Upset(Rebuilding(w))
          /\ UNCHANGED <<meeting, members, register, events, excused>>

-----------------------------------------------------------------------------
(* A meeting that was just created: with a hosting group, the request that *)
(* made it goes on to generate the register.                               *)
Init == /\ meeting \in [host : Groups \cup {NoGroup}, minutes : {"draft"}]
        /\ members \in [Groups -> SUBSET Users]
        /\ place = [u \in Users |-> NoPlace]
        /\ issued = [u \in Users |-> 0]
        /\ \E creator \in Workers :
             worker = [w \in Workers |-> IF w = creator /\ meeting.host # NoGroup
                                         THEN Rebuilds(meeting.host, FALSE) ELSE Idle]
        /\ events = {}
        /\ requests = 0 /\ changes = 0
        /\ lost = {} /\ excused = {} /\ upset = FALSE

Next == \/ \E w \in Workers :
             \/ Regenerate(w) \/ SaveForm(w) \/ ReadGenerated(w) \/ ReadMembers(w) \/ Rebuild(w)
             \/ Invite(w) \/ Respond(w) \/ Record(w) \/ Log(w) \/ Die(w)
             \/ \E g \in Groups \cup {NoGroup} : LoadForm(w, g) \/ Import(w, g)
             \/ \E status \in MinutesStatuses : SetMinutes(w, status)
             \/ \E u \in Users : \/ CheckInvitee(w, u)
                                 \/ \E mark \in Marks \cup {"not_recorded"}, rsvp \in BOOLEAN :
                                      /\ rsvp \/ mark # "not_recorded"
                                      /\ LoadRecord(w, u, rsvp, mark)
        \/ \E u \in Users : Remove(u) \/ \E g \in Groups : ChangeMember(g, u)
        \/ \E g \in Groups \cup {NoGroup} : AdminSetHost(g)

Spec == Init /\ [][Next]_vars

-----------------------------------------------------------------------------
Facts == (Users \X Nat \X Marks) \cup ({"minutes"} \X MinutesStatuses)

TypeOK == /\ meeting \in [host : Groups \cup {NoGroup}, minutes : MinutesStatuses]
          /\ members \in [Groups -> SUBSET Users]
          /\ place \in [Users -> Place \cup {NoPlace}]
          /\ issued \in [Users -> Nat]
          /\ \A u \in OnRegister : place[u].pk = issued[u]
          /\ \A w \in Workers :
               /\ worker[w].pc = "write" => worker[w].joiners \subseteq worker[w].members
               /\ worker[w].pc \in {"respond", "record"} => worker[w].pk \in 1..issued[worker[w].user]
          /\ events \subseteq Facts /\ lost \subseteq Facts
          /\ requests \in 0..MaxRequests /\ changes \in 0..MaxChanges
          /\ excused \subseteq Users /\ upset \in BOOLEAN

AtRest == \A w \in Workers : ~Rebuilding(w)

InStep(u) == /\ u \in MembersOf(meeting.host) => u \in OnRegister
             /\ u \in Generated => u \in MembersOf(meeting.host)

(* "The register is the union of two sets: the hosting group's active      *)
(* members and the invitees" (regenerate_attendance): so it is once a      *)
(* rebuild is over, whatever the register panel did beside it, but for the *)
(* accounts that joined, left or were removed since, and unless the        *)
(* rebuild failed or another change of the host crossed it.                *)
FollowsHost == AtRest /\ ~upset => \A u \in Users \ excused : InStep(u)

(* "Leaves every invitee (and every RSVP / recorded attendance on a row    *)
(* that survives) untouched" (regenerate_attendance): also one that was    *)
(* removed, invited again or recorded while the rebuild was under way.     *)
InviteesUntouched ==
  [][\A w \in Workers : worker[w].pc = "write" /\ worker'[w].pc # "write" =>
       \A u \in OnRegister : place[u].source = "invitee" \/ place'[u] # NoPlace
                               => place'[u] = place[u]]_vars

Owed == {worker[w].fact : w \in {v \in Workers : worker[v].pc = "event"}}

(* "The change is visible on the timeline as well as in the register"      *)
(* (MeetingAttendance.record): attendance or minutes that stand as         *)
(* recorded have their event, or a worker that is about to write it, or    *)
(* one that died before it; stale forms that write an old status back      *)
(* write one that has its event.                                           *)
StandingIsLogged ==
  /\ \A u \in OnRegister : place[u].mark # "not_recorded"
       => <<u, place[u].pk, place[u].mark>> \in events \cup Owed \cup lost
  /\ meeting.minutes # "draft" => MinutesAre(meeting.minutes) \in events \cup Owed \cup lost

(* "The register is generated on creation and whenever the hosting group   *)
(* changes" (docs/Data Model.md, on regenerate_attendance).                *)
RegisterFollowsHost ==
  AtRest /\ (\A w \in Workers : worker[w].pc = "idle")
    => \A u \in Users \ excused : InStep(u)

(* Minutes leave "approved" only as somebody sets their status.            *)
ApprovedStays == [][meeting.minutes = "approved" /\ meeting'.minutes # "approved"
                      => requests' # requests]_vars

=============================================================================
