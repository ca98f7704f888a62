----------------------- MODULE MeetingRegister_proofs -----------------------
(***************************************************************************)
(* Proofs about MeetingRegister, for any accounts, groups and workers.     *)
(***************************************************************************)
EXTENDS MeetingRegister, TLAPS

-----------------------------------------------------------------------------
(* The memory of the workers: TypeOK says of it what the system promises;  *)
(* the proofs need which request has which columns.                        *)

Hosts == Groups \cup {NoGroup}

AllMarks == Marks \cup {"not_recorded"}

Forms == [pc : {"save"}, host : Hosts, newHost : Hosts, minutes : MinutesStatuses]

RebuildJobs == [pc : {"rebuild", "read", "write"}, newHost : Hosts, imports : BOOLEAN,
                generated : SUBSET (Users \X Nat), members : SUBSET Users, joiners : SUBSET Users]

Invitations == [pc : {"invite"}, user : Users]

Answers == [pc : {"respond"}, user : Users, pk : Nat, mark : AllMarks]

Recordings == [pc : {"record"}, user : Users, pk : Nat, mark : Marks]

Owing == [pc : {"event"}, fact : Facts]

Jobs == {Idle} \cup Forms \cup RebuildJobs \cup Invitations \cup Answers \cup Recordings \cup Owing

Typed == TypeOK /\ worker \in [Workers -> Jobs]

LEMMA JobKinds ==
  ASSUME NEW job \in Jobs
  PROVE  /\ job.pc = "idle" => job = Idle
         /\ job.pc = "save" => job \in Forms
         /\ job.pc \in {"rebuild", "read", "write"} => job \in RebuildJobs
         /\ job.pc = "invite" => job \in Invitations
         /\ job.pc = "respond" => job \in Answers
         /\ job.pc = "record" => job \in Recordings
         /\ job.pc = "event" => job \in Owing
BY DEF Jobs, Idle, Forms, RebuildJobs, Invitations, Answers, Recordings, Owing

(* The other workers.                                                      *)
Others(w) == \A v \in Workers \ {w} : worker'[v] = worker[v]

LEMMA GoesTyped ==
  ASSUME Typed, NEW w \in Workers, NEW job \in Jobs, Goes(w, job)
  PROVE  worker' \in [Workers -> Jobs] /\ worker'[w] = job /\ Others(w)
BY DEF Typed, Goes, Others

LEMMA IdleTyped == Idle \in Jobs /\ Idle.pc = "idle"
BY DEF Jobs, Idle

LEMMA RebuildsTyped ==
  ASSUME NEW g \in Hosts, NEW imports \in BOOLEAN
  PROVE  Rebuilds(g, imports) \in RebuildJobs /\ Rebuilds(g, imports) \in Jobs
         /\ Rebuilds(g, imports).pc = "rebuild"
BY DEF Rebuilds, RebuildJobs, Jobs

LEMMA OwesTyped ==
  ASSUME NEW fact \in Facts
  PROVE  Owes(fact) \in Owing /\ Owes(fact) \in Jobs /\ Owes(fact).pc = "event" /\ Owes(fact).fact = fact
BY DEF Owes, Owing, Jobs

LEMMA FactsTyped ==
  /\ \A u \in Users, k \in Nat, m \in Marks : <<u, k, m>> \in Facts
  /\ \A status \in MinutesStatuses : MinutesAre(status) \in Facts
BY DEF Facts, MinutesAre

LEMMA PlaceTyped ==
  ASSUME Typed, NEW u \in Users
  PROVE  /\ issued[u] \in Nat
         /\ u \in OnRegister <=> place[u] # NoPlace
         /\ u \in OnRegister => place[u] \in Place /\ place[u].pk = issued[u]
         /\ NewPlace(u, "host_group") \in Place /\ NewPlace(u, "invitee") \in Place
BY DEF Typed, TypeOK, OnRegister, NewPlace, Place

(* One row changes, or none, or those of a rebuild.                        *)
Registers == /\ place' \in [Users -> Place \cup {NoPlace}]
             /\ issued' \in [Users -> Nat]
             /\ \A u \in OnRegister' : place'[u].pk = issued'[u]
             /\ \A u \in Users : issued[u] <= issued'[u]

LEMMA SameRegister == ASSUME Typed, UNCHANGED <<place, issued>> PROVE Registers
BY DEF Typed, TypeOK, Registers, OnRegister

LEMMA OneRow ==
  ASSUME Typed, NEW u \in Users, NEW row \in Place \cup {NoPlace}, NEW n \in Nat, issued[u] <= n,
         place' = [place EXCEPT ![u] = row], issued' = [issued EXCEPT ![u] = n],
         row = NoPlace \/ row.pk = n
  PROVE  Registers
<1>1. /\ place' \in [Users -> Place \cup {NoPlace}] /\ issued' \in [Users -> Nat]
      /\ place'[u] = row /\ issued'[u] = n
      /\ \A v \in Users \ {u} : place'[v] = place[v] /\ issued'[v] = issued[v]
  BY DEF Typed, TypeOK
<1>2. \A v \in Users : issued[v] \in Nat
  BY PlaceTyped
<1> QED BY <1>1, <1>2, PlaceTyped DEF Registers, OnRegister

LEMMA NewRow ==
  ASSUME Typed, NEW u \in Users, NEW source \in {"host_group", "invitee"}
  PROVE  /\ NewPlace(u, source) \in Place /\ NewPlace(u, source) # NoPlace
         /\ NewPlace(u, source).pk = issued[u] + 1 /\ NewPlace(u, source).source = source
         /\ NewPlace(u, source).mark = "not_recorded"
BY PlaceTyped, PlaceAssumption DEF NewPlace, Place

LEMMA ColumnTyped ==
  ASSUME NEW row \in Place, NEW m \in AllMarks, NEW b \in BOOLEAN
  PROVE  /\ [row EXCEPT !.mark = m] \in Place /\ [row EXCEPT !.mark = m].pk = row.pk
         /\ [row EXCEPT !.mark = m].source = row.source /\ [row EXCEPT !.mark = m].mark = m
         /\ [row EXCEPT !.rsvp = b] \in Place /\ [row EXCEPT !.rsvp = b].pk = row.pk
         /\ [row EXCEPT !.rsvp = b].source = row.source /\ [row EXCEPT !.rsvp = b].mark = row.mark
BY DEF Place, AllMarks

LEMMA Rebuilt ==
  ASSUME Typed, NEW w \in Workers, Rebuild(w), worker[w].joiners \cap OnRegister = {}
  PROVE  /\ worker[w].joiners \subseteq worker[w].members
         /\ \A u \in Users :
              /\ u \in worker[w].joiners =>
                   u \notin OnRegister /\ place'[u] = NewPlace(u, "host_group") /\ issued'[u] = issued[u] + 1
              /\ u \notin worker[w].joiners => issued'[u] = issued[u]
              /\ u \in Leavers(w) => place'[u] = NoPlace
              /\ u \notin worker[w].joiners /\ u \notin Leavers(w) => place'[u] = place[u]
         /\ meeting' = IF worker[w].imports THEN [meeting EXCEPT !.host = worker[w].newHost] ELSE meeting
<1> DEFINE job == worker[w]
<1>1. /\ job.pc = "write" /\ job \in RebuildJobs
      /\ place' = [u \in Users |-> IF u \in job.joiners THEN NewPlace(u, "host_group")
                                   ELSE IF u \in Leavers(w) THEN NoPlace ELSE place[u]]
      /\ issued' = [u \in Users |-> issued[u] + (IF u \in job.joiners THEN 1 ELSE 0)]
      /\ meeting' = IF job.imports THEN [meeting EXCEPT !.host = job.newHost] ELSE meeting
  BY JobKinds DEF Rebuild, Typed
<1>2. job.joiners \subseteq job.members
  BY <1>1 DEF Typed, TypeOK
<1>3. \A u \in Users : issued[u] \in Nat
  BY PlaceTyped
<1>4. Leavers(w) \cap job.joiners = {}
  BY <1>2 DEF Leavers
<1>5. \A u \in Users : u \in job.joiners =>
                   u \notin OnRegister /\ place'[u] = NewPlace(u, "host_group") /\ issued'[u] = issued[u] + 1
  BY <1>1, <1>3
<1>6. \A u \in Users : u \notin job.joiners => issued'[u] = issued[u]
  BY <1>1, <1>3
<1>7. \A u \in Users : /\ u \in Leavers(w) => place'[u] = NoPlace
                       /\ u \notin job.joiners /\ u \notin Leavers(w) => place'[u] = place[u]
  BY <1>1, <1>4
<1> QED BY <1>1, <1>2, <1>5, <1>6, <1>7

LEMMA RebuiltTyped ==
  ASSUME Typed, NEW w \in Workers, Rebuild(w)
  PROVE  Registers /\ meeting' \in [host : Hosts, minutes : MinutesStatuses]
<1>1. worker[w].pc = "write" /\ worker[w] \in RebuildJobs /\ meeting \in [host : Hosts, minutes : MinutesStatuses]
  BY JobKinds DEF Rebuild, Typed, TypeOK, Hosts
<1>2. CASE worker[w].joiners \cap OnRegister # {}
  BY <1>1, <1>2, SameRegister DEF Rebuild, register
<1>3. CASE worker[w].joiners \cap OnRegister = {}
  <2>1. place' = [u \in Users |-> place'[u]] /\ issued' = [u \in Users |-> issued'[u]]
    BY <1>3 DEF Rebuild
  <2>2. \A u \in Users : issued[u] \in Nat /\ NewPlace(u, "host_group") \in Place
    BY PlaceTyped
  <2>3. \A u \in Users : issued'[u] \in Nat /\ issued[u] <= issued'[u]
    BY <1>3, <2>2, Rebuilt
  <2>4. \A u \in Users : place'[u] \in Place \cup {NoPlace}
    BY <1>3, <2>2, Rebuilt DEF Typed, TypeOK
  <2>5. ASSUME NEW u \in OnRegister' PROVE place'[u].pk = issued'[u]
    <3>1. u \in Users /\ place'[u] # NoPlace
      BY DEF OnRegister
    <3>2. CASE u \in worker[w].joiners
      BY <1>3, <3>1, <3>2, Rebuilt, NewRow
    <3>3. CASE u \notin worker[w].joiners
      <4>1. place'[u] = place[u] /\ issued'[u] = issued[u]
        BY <1>3, <3>1, <3>3, Rebuilt
      <4> QED BY <3>1, <4>1, PlaceTyped
    <3> QED BY <3>2, <3>3
  <2>6. meeting' \in [host : Hosts, minutes : MinutesStatuses]
    BY <1>1, <1>3, Rebuilt DEF RebuildJobs
  <2>7. place' \in [Users -> Place \cup {NoPlace}] /\ issued' \in [Users -> Nat]
    BY <2>1, <2>3, <2>4
  <2> QED BY <2>3, <2>5, <2>6, <2>7 DEF Registers
<1> QED BY <1>2, <1>3

-----------------------------------------------------------------------------
(* Types *)

Sound(job, given) ==
  /\ job.pc = "write" => job.joiners \subseteq job.members
  /\ job.pc \in {"respond", "record"} => job.pk \in 1..given[job.user]

Workforce == worker' \in [Workers -> Jobs] /\ \A v \in Workers : Sound(worker'[v], issued')

LEMMA StaysSound ==
  ASSUME Typed, Registers, NEW v \in Workers PROVE Sound(worker[v], issued')
<1>1. worker[v] \in Jobs /\ Sound(worker[v], issued)
  BY DEF Typed, TypeOK, Sound
<1>2. worker[v].pc \in {"respond", "record"} => worker[v].user \in Users /\ worker[v].pk \in Nat
  BY <1>1, JobKinds DEF Answers, Recordings
<1>3. \A u \in Users : issued[u] \in Nat /\ issued'[u] \in Nat /\ issued[u] <= issued'[u]
  BY DEF Registers, Typed, TypeOK
<1> QED BY <1>1, <1>2, <1>3 DEF Sound

LEMMA Works ==
  ASSUME Typed, Registers, NEW w \in Workers, NEW job \in Jobs, Goes(w, job), Sound(job, issued')
  PROVE  Workforce
BY GoesTyped, StaysSound DEF Workforce, Others

LEMMA Rests ==
  ASSUME Typed, Registers, UNCHANGED worker PROVE Workforce
BY StaysSound DEF Workforce, Typed

LEMMA TypedInit == Init => Typed
<1> SUFFICES ASSUME Init PROVE Typed
  OBVIOUS
<1>1. meeting \in [host : Hosts, minutes : MinutesStatuses] /\ meeting.host \in Hosts
  BY DEF Init, Hosts, MinutesStatuses
<1>2. PICK creator \in Workers :
        worker = [w \in Workers |-> IF w = creator /\ meeting.host # NoGroup
                                    THEN Rebuilds(meeting.host, FALSE) ELSE Idle]
  BY DEF Init
<1>3. worker \in [Workers -> Jobs] /\ \A w \in Workers : worker[w].pc \in {"idle", "rebuild"}
  BY <1>1, <1>2, IdleTyped, RebuildsTyped
<1>4. OnRegister = {} /\ place \in [Users -> Place \cup {NoPlace}] /\ issued \in [Users -> Nat]
  BY DEF Init, OnRegister
<1>5. 0 \in 0..MaxRequests /\ 0 \in 0..MaxChanges
  BY CountAssumption
<1> QED BY <1>1, <1>3, <1>4, <1>5 DEF Init, Typed, TypeOK, Hosts

LEMMA BeginTyped ==
  ASSUME Typed, NEW w \in Workers, NEW job, Begin(w, job)
  PROVE  /\ worker[w].pc = "idle" /\ Goes(w, job) /\ changes' = changes
         /\ requests' \in 0..MaxRequests
BY CountAssumption DEF Begin, Typed, TypeOK

LEMMA ChangeTyped ==
  ASSUME Typed, Change PROVE changes' \in 0..MaxChanges /\ requests' = requests
BY CountAssumption DEF Change, Typed, TypeOK

LEMMA TypedNext == Typed /\ [Next]_vars => Typed'
<1> SUFFICES ASSUME Typed, [Next]_vars PROVE Typed'
  OBVIOUS
<1> DEFINE Small == /\ events' \subseteq Facts /\ lost' \subseteq Facts
                    /\ requests' \in 0..MaxRequests /\ changes' \in 0..MaxChanges
                    /\ excused' \subseteq Users /\ upset' \in BOOLEAN
           Large == /\ meeting' \in [host : Hosts, minutes : MinutesStatuses]
                    /\ members' \in [Groups -> SUBSET Users]
<1>0. /\ meeting \in [host : Hosts, minutes : MinutesStatuses] /\ members \in [Groups -> SUBSET Users]
      /\ events \subseteq Facts /\ lost \subseteq Facts
      /\ requests \in 0..MaxRequests /\ changes \in 0..MaxChanges
      /\ excused \subseteq Users /\ upset \in BOOLEAN
      /\ \A w \in Workers : worker[w] \in Jobs
      /\ meeting.host \in Hosts /\ meeting.minutes \in MinutesStatuses
  BY DEF Typed, TypeOK, Hosts
<1>q. ASSUME Small, Large, Registers, Workforce PROVE Typed'
  BY <1>q DEF Typed, TypeOK, Workforce, Sound, Registers, Hosts
<1> HIDE DEF Small, Large
<1>1. ASSUME NEW w \in Workers, Regenerate(w) PROVE Typed'
  <2>1. Begin(w, Rebuilds(meeting.host, FALSE)) /\ UNCHANGED <<meeting, members, place, issued, events, lost, excused, upset>>
    BY <1>1 DEF Regenerate, register, history
  <2>2. Registers /\ Small /\ Large
    BY <1>0, <2>1, SameRegister, BeginTyped DEF Small, Large
  <2>3. Workforce
    BY <1>0, <2>1, <2>2, BeginTyped, Works, RebuildsTyped DEF Sound
  <2> QED BY <1>q, <2>2, <2>3
<1>2. ASSUME NEW w \in Workers, NEW g \in Hosts, LoadForm(w, g) PROVE Typed'
  <2> DEFINE job == [pc |-> "save", host |-> meeting.host, newHost |-> g, minutes |-> meeting.minutes]
  <2>1. Begin(w, job) /\ UNCHANGED <<meeting, members, place, issued, events, lost, excused, upset>>
    BY <1>2 DEF LoadForm, register, history
  <2>2. Registers /\ Small /\ Large
    BY <1>0, <2>1, SameRegister, BeginTyped DEF Small, Large
  <2>3. job \in Jobs /\ job.pc = "save"
    BY <1>0 DEF Jobs, Forms
  <2> HIDE DEF job
  <2>4. Workforce
    BY <2>1, <2>2, <2>3, BeginTyped, Works DEF Sound
  <2> QED BY <1>q, <2>2, <2>4
<1>3. ASSUME NEW w \in Workers, SaveForm(w) PROVE Typed'
  <2> DEFINE job == IF worker[w].newHost # worker[w].host THEN Rebuilds(worker[w].newHost, FALSE) ELSE Idle
  <2>1. /\ meeting' = [host |-> worker[w].newHost, minutes |-> worker[w].minutes] /\ Goes(w, job)
        /\ UNCHANGED <<members, place, issued, events, lost, excused, requests, changes>>
        /\ upset' \in BOOLEAN /\ worker[w].pc = "save"
    BY <1>0, <1>3 DEF SaveForm, register, counters, Upset
  <2>2. worker[w] \in Forms
    BY <1>0, <2>1, JobKinds
  <2>3. Registers /\ Small /\ Large
    BY <1>0, <2>1, <2>2, SameRegister DEF Small, Large, Forms
  <2>4. job \in Jobs /\ job.pc \in {"idle", "rebuild"}
    BY <2>2, IdleTyped, RebuildsTyped DEF Forms
  <2> HIDE DEF job
  <2>5. Workforce
    BY <2>1, <2>3, <2>4, Works DEF Sound
  <2> QED BY <1>q, <2>3, <2>5
<1>4. ASSUME NEW w \in Workers, NEW g \in Hosts, Import(w, g) PROVE Typed'
  <2>1. Begin(w, Rebuilds(g, TRUE)) /\ UNCHANGED <<meeting, members, place, issued, events, lost, excused, upset>>
    BY <1>4 DEF Import, register, history
  <2>2. Registers /\ Small /\ Large
    BY <1>0, <2>1, SameRegister, BeginTyped DEF Small, Large
  <2>3. Workforce
    BY <2>1, <2>2, BeginTyped, Works, RebuildsTyped DEF Sound
  <2> QED BY <1>q, <2>2, <2>3
<1>5. ASSUME NEW w \in Workers, ReadGenerated(w) PROVE Typed'
  <2> DEFINE gen == {<<u, place[u].pk>> : u \in Generated}
             job == [pc |-> "read", newHost |-> worker[w].newHost, imports |-> worker[w].imports,
                     generated |-> gen, members |-> {}, joiners |-> {}]
  <2>1. /\ Goes(w, job) /\ worker[w].pc = "rebuild" /\ excused' \in {{}, excused}
        /\ UNCHANGED <<meeting, members, place, issued, events, lost, requests, changes>>
        /\ upset' \in BOOLEAN
    BY <1>0, <1>5 DEF ReadGenerated, register, counters
  <2>2. Registers /\ Small /\ Large
    BY <1>0, <2>1, SameRegister DEF Small, Large
  <2>3. worker[w] \in RebuildJobs
    BY <1>0, <2>1, JobKinds
  <2>4. gen \subseteq Users \X Nat
    BY PlaceTyped DEF Generated, OnRegister
  <2> HIDE DEF gen
  <2>5. job \in Jobs /\ job.pc = "read"
    BY <2>3, <2>4 DEF Jobs, RebuildJobs
  <2> HIDE DEF job
  <2>6. Workforce
    BY <2>1, <2>2, <2>5, Works DEF Sound
  <2> QED BY <1>q, <2>2, <2>6
<1>6. ASSUME NEW w \in Workers, ReadMembers(w) PROVE Typed'
  <2> DEFINE now == MembersOf(worker[w].newHost)
             job == [pc |-> "write", newHost |-> worker[w].newHost, imports |-> worker[w].imports,
                     generated |-> worker[w].generated, members |-> now, joiners |-> now \ OnRegister]
  <2>1. /\ Goes(w, job) /\ worker[w].pc = "read"
        /\ UNCHANGED <<meeting, members, place, issued, events, lost, requests, changes, excused, upset>>
    BY <1>6 DEF ReadMembers, register, counters, history
  <2>2. Registers /\ Small /\ Large
    BY <1>0, <2>1, SameRegister DEF Small, Large
  <2>3. worker[w] \in RebuildJobs
    BY <1>0, <2>1, JobKinds
  <2>4. now \subseteq Users
    BY <1>0, <2>3 DEF MembersOf, RebuildJobs, Hosts
  <2> HIDE DEF now
  <2>5. job \in Jobs /\ job.pc = "write" /\ job.joiners \subseteq job.members
    BY <2>3, <2>4 DEF Jobs, RebuildJobs
  <2> HIDE DEF job
  <2>6. Workforce
    BY <2>1, <2>2, <2>5, Works DEF Sound
  <2> QED BY <1>q, <2>2, <2>6
<1>7. ASSUME NEW w \in Workers, Rebuild(w) PROVE Typed'
  <2>1. /\ UNCHANGED <<members, events, lost, excused, requests, changes>>
        /\ upset' \in BOOLEAN /\ Goes(w, Idle)
    BY <1>0, <1>7 DEF Rebuild, End, Upset, counters
  <2>2. Small /\ Large /\ Registers
    BY <1>0, <1>7, <2>1, RebuiltTyped DEF Small, Large
  <2>3. Workforce
    BY <2>1, <2>2, Works, IdleTyped DEF Sound
  <2> QED BY <1>q, <2>2, <2>3
<1>8. ASSUME NEW w \in Workers, NEW u \in Users, CheckInvitee(w, u) PROVE Typed'
  <2> DEFINE job == [pc |-> "invite", user |-> u]
  <2>1. Begin(w, job) /\ UNCHANGED <<meeting, members, place, issued, events, lost, excused, upset>>
    BY <1>8 DEF CheckInvitee, register, history
  <2>2. Registers /\ Small /\ Large
    BY <1>0, <2>1, SameRegister, BeginTyped DEF Small, Large
  <2>3. job \in Jobs /\ job.pc = "invite"
    BY DEF Jobs, Invitations
  <2> HIDE DEF job
  <2>4. Workforce
    BY <2>1, <2>2, <2>3, BeginTyped, Works DEF Sound
  <2> QED BY <1>q, <2>2, <2>4
<1>9. ASSUME NEW w \in Workers, Invite(w) PROVE Typed'
  <2> DEFINE u == worker[w].user
  <2>1. /\ UNCHANGED <<meeting, members, events, lost, excused, upset, requests, changes>>
        /\ Goes(w, Idle) /\ worker[w].pc = "invite"
    BY <1>9 DEF Invite, End, counters, history
  <2>2. u \in Users /\ issued[u] \in Nat
    BY <1>0, <2>1, JobKinds, PlaceTyped DEF Invitations
  <2>3. Registers
    <3>1. CASE u \in OnRegister
      BY <1>9, <3>1, SameRegister DEF Invite, register
    <3>2. CASE u \notin OnRegister
      <4> DEFINE row == NewPlace(u, "invitee")
                 n == issued[u] + 1
      <4>1. place' = [place EXCEPT ![u] = row] /\ issued' = [issued EXCEPT ![u] = n]
        BY <1>9, <3>2 DEF Invite
      <4>2. row \in Place /\ row.pk = n /\ n \in Nat /\ issued[u] <= n
        BY <2>2, NewRow
      <4> HIDE DEF u, row, n
      <4> QED BY <2>2, <4>1, <4>2, OneRow
    <3> QED BY <3>1, <3>2
  <2>4. Small /\ Large
    BY <1>0, <2>1 DEF Small, Large
  <2>5. Workforce
    BY <2>1, <2>3, Works, IdleTyped DEF Sound
  <2> QED BY <1>q, <2>3, <2>4, <2>5
<1>10. ASSUME NEW u \in Users, Remove(u) PROVE Typed'
  <2>1. /\ place' = [place EXCEPT ![u] = NoPlace] /\ excused' = excused \cup {u}
        /\ UNCHANGED <<meeting, members, issued, worker, events, changes, lost, upset>>
        /\ requests' = requests + 1 /\ requests < MaxRequests
    BY <1>10 DEF Remove
  <2>2. Small /\ Large
    BY <1>0, <2>1, CountAssumption DEF Small, Large
  <2>3. issued' = [issued EXCEPT ![u] = issued[u]] /\ issued[u] \in Nat
    BY <2>1, PlaceTyped DEF Typed, TypeOK
  <2>4. issued[u] <= issued[u]
    BY <2>3
  <2>5. Registers
    BY <2>1, <2>3, <2>4, OneRow
  <2> QED BY <1>q, <2>1, <2>2, <2>5, Rests
<1>11. ASSUME NEW w \in Workers, NEW u \in Users, NEW rsvp \in BOOLEAN, NEW mark \in AllMarks,
              rsvp \/ mark # "not_recorded", LoadRecord(w, u, rsvp, mark)
       PROVE  Typed'
  <2> DEFINE job == [pc |-> IF rsvp THEN "respond" ELSE "record", user |-> u, pk |-> place[u].pk,
                     mark |-> mark]
  <2>1. Begin(w, job) /\ UNCHANGED <<meeting, members, place, issued, events, lost, excused, upset>>
        /\ u \in OnRegister
    BY <1>11 DEF LoadRecord, register, history
  <2>2. Registers /\ Small /\ Large
    BY <1>0, <2>1, SameRegister, BeginTyped DEF Small, Large
  <2>3. place[u].pk \in Nat /\ place[u].pk = issued[u] /\ issued'[u] = issued[u]
    BY <2>1, PlaceTyped
  <2>4. job \in Answers \cup Recordings /\ job.user = u /\ job.pk = issued'[u]
    BY <1>11, <2>3 DEF Answers, Recordings, AllMarks
  <2> HIDE DEF job
  <2>5. Goes(w, job) /\ job.pc \in {"respond", "record"} /\ job \in Jobs
    BY <2>1, <2>4, BeginTyped DEF Answers, Recordings, Jobs
  <2>6. issued[u] \in 1..issued[u]
    BY <2>1, <2>3, PlaceTyped DEF Place
  <2> QED BY <1>q, <2>2, <2>3, <2>4, <2>5, <2>6, Works DEF Sound
<1>12. ASSUME NEW w \in Workers, Respond(w) PROVE Typed'
  <2> DEFINE u == worker[w].user
             job == IF worker[w].mark = "not_recorded" THEN Idle ELSE [worker[w] EXCEPT !.pc = "record"]
  <2>1. /\ UNCHANGED <<meeting, members, issued, events, lost, excused, upset, requests, changes>>
        /\ worker[w].pc = "respond" /\ worker[w] \in Answers /\ Sound(worker[w], issued)
    BY <1>0, <1>12, JobKinds DEF Respond, counters, history, Typed, TypeOK, Sound
  <2>2. Small /\ Large
    BY <1>0, <2>1 DEF Small, Large
  <2>3. u \in Users /\ issued[u] \in Nat /\ issued[u] <= issued[u] /\ issued' = [issued EXCEPT ![u] = issued[u]]
    BY <2>1, PlaceTyped DEF Answers, Typed, TypeOK
  <2>4. CASE Standing(u, worker[w].pk)
    <3> DEFINE row == [place[u] EXCEPT !.rsvp = TRUE]
    <3>1. place' = [place EXCEPT ![u] = row] /\ Goes(w, job)
      BY <1>12, <2>4 DEF Respond
    <3>2. place[u] \in Place /\ place[u].pk = issued[u]
      BY <2>3, <2>4, PlaceTyped DEF Standing
    <3>3. row \in Place /\ row.pk = issued[u]
      BY <3>2, ColumnTyped DEF AllMarks
    <3> HIDE DEF row
    <3>4. Registers
      BY <2>3, <3>1, <3>3, OneRow
    <3>5. job \in Jobs /\ Sound(job, issued')
      <4>1. CASE worker[w].mark = "not_recorded"
        BY <4>1, IdleTyped DEF Sound
      <4>2. CASE worker[w].mark # "not_recorded"
        <5>1. [worker[w] EXCEPT !.pc = "record"] \in Recordings
              /\ [worker[w] EXCEPT !.pc = "record"].pc = "record"
              /\ [worker[w] EXCEPT !.pc = "record"].user = worker[w].user
              /\ [worker[w] EXCEPT !.pc = "record"].pk = worker[w].pk
          BY <2>1, <4>2 DEF Answers, Recordings, AllMarks
        <5> QED BY <2>1, <4>2, <5>1 DEF Sound, Jobs
      <4> QED BY <4>1, <4>2
    <3> HIDE DEF job
    <3> QED BY <1>q, <2>2, <3>1, <3>4, <3>5, Works
  <2>5. CASE ~Standing(u, worker[w].pk)
    <3>1. Goes(w, Idle) /\ UNCHANGED place
      BY <1>12, <2>5 DEF Respond, End
    <3> QED BY <1>q, <2>1, <2>2, <3>1, SameRegister, Works, IdleTyped DEF Sound
  <2> QED BY <2>4, <2>5
<1>13. ASSUME NEW w \in Workers, Record(w) PROVE Typed'
  <2> DEFINE u == worker[w].user
             fact == <<u, worker[w].pk, worker[w].mark>>
  <2>1. /\ UNCHANGED <<meeting, members, issued, events, lost, excused, upset, requests, changes>>
        /\ worker[w].pc = "record" /\ worker[w] \in Recordings
    BY <1>0, <1>13, JobKinds DEF Record, counters, history
  <2>2. Small /\ Large
    BY <1>0, <2>1 DEF Small, Large
  <2>3. u \in Users /\ issued[u] \in Nat /\ issued[u] <= issued[u] /\ issued' = [issued EXCEPT ![u] = issued[u]]
    BY <2>1, PlaceTyped DEF Recordings, Typed, TypeOK
  <2>4. CASE Standing(u, worker[w].pk)
    <3> DEFINE row == [place[u] EXCEPT !.mark = worker[w].mark]
    <3>1. place' = [place EXCEPT ![u] = row] /\ Goes(w, Owes(fact))
      BY <1>13, <2>4 DEF Record
    <3>2. place[u] \in Place /\ place[u].pk = issued[u]
      BY <2>3, <2>4, PlaceTyped DEF Standing
    <3>3. row \in Place /\ row.pk = issued[u]
      BY <2>1, <3>2, ColumnTyped DEF AllMarks, Recordings
    <3> HIDE DEF row
    <3>4. Registers
      BY <2>3, <3>1, <3>3, OneRow
    <3>5. fact \in Facts
      BY <2>1, <2>3, FactsTyped DEF Recordings
    <3> HIDE DEF fact
    <3> QED BY <1>q, <2>2, <3>1, <3>4, <3>5, Works, OwesTyped DEF Sound
  <2>5. CASE ~Standing(u, worker[w].pk)
    <3>1. Goes(w, Idle) /\ UNCHANGED place
      BY <1>13, <2>5 DEF Record, End
    <3> QED BY <1>q, <2>1, <2>2, <3>1, SameRegister, Works, IdleTyped DEF Sound
  <2> QED BY <2>4, <2>5
<1>14. ASSUME NEW w \in Workers, Log(w) PROVE Typed'
  <2>1. /\ UNCHANGED <<meeting, members, place, issued, lost, excused, upset, requests, changes>>
        /\ Goes(w, Idle) /\ worker[w].pc = "event" /\ events' = events \cup {worker[w].fact}
    BY <1>14 DEF Log, End, register, counters, history
  <2>2. worker[w].fact \in Facts
    BY <1>0, <2>1, JobKinds DEF Owing
  <2>3. Registers /\ Small /\ Large
    BY <1>0, <2>1, <2>2, SameRegister DEF Small, Large
  <2> QED BY <1>q, <2>1, <2>3, Works, IdleTyped DEF Sound
<1>15. ASSUME NEW w \in Workers, NEW status \in MinutesStatuses, SetMinutes(w, status) PROVE Typed'
  <2> DEFINE job == IF status = "draft" THEN Idle ELSE Owes(MinutesAre(status))
  <2>1. /\ UNCHANGED <<members, place, issued, events, lost, excused, upset>>
        /\ Begin(w, job) /\ meeting' = [meeting EXCEPT !.minutes = status]
    BY <1>15 DEF SetMinutes, register, history
  <2>2. Registers /\ Small /\ Large
    BY <1>0, <2>1, SameRegister, BeginTyped DEF Small, Large
  <2>3. job \in Jobs /\ job.pc \in {"idle", "event"}
    BY IdleTyped, OwesTyped, FactsTyped
  <2> HIDE DEF job
  <2> QED BY <1>q, <2>1, <2>2, <2>3, BeginTyped, Works DEF Sound
<1>16. ASSUME NEW g \in Groups, NEW u \in Users, ChangeMember(g, u) PROVE Typed'
  <2>1. /\ UNCHANGED <<meeting, place, issued, worker, events, lost, upset>> /\ Change
        /\ members' = [members EXCEPT ![g] = IF u \in members[g] THEN members[g] \ {u}
                                             ELSE members[g] \cup {u}]
        /\ excused' = excused \cup {u}
    BY <1>16 DEF ChangeMember, register
  <2>2. Registers /\ Small /\ Large
    BY <1>0, <2>1, SameRegister, ChangeTyped DEF Small, Large
  <2> QED BY <1>q, <2>1, <2>2, Rests
<1>17. ASSUME NEW g \in Hosts, AdminSetHost(g) PROVE Typed'
  <2>1. /\ UNCHANGED <<members, place, issued, worker, events, lost, excused>> /\ Change
        /\ meeting' = [meeting EXCEPT !.host = g] /\ upset' = TRUE
    BY <1>17 DEF AdminSetHost, register
  <2>2. Registers /\ Small /\ Large
    BY <1>0, <2>1, SameRegister, ChangeTyped DEF Small, Large
  <2> QED BY <1>q, <2>1, <2>2, Rests
<1>18. ASSUME NEW w \in Workers, Die(w) PROVE Typed'
  <2>1. /\ UNCHANGED <<meeting, members, place, issued, events, excused>> /\ Change /\ Goes(w, Idle)
        /\ lost' = IF worker[w].pc = "event" THEN lost \cup {worker[w].fact} ELSE lost
        /\ upset' \in BOOLEAN
    BY <1>0, <1>18 DEF Die, End, Upset, register, Rebuilding
  <2>2. worker[w].pc = "event" => worker[w].fact \in Facts
    BY <1>0, JobKinds DEF Owing
  <2>3. Registers /\ Small /\ Large
    BY <1>0, <2>1, <2>2, SameRegister, ChangeTyped DEF Small, Large
  <2> QED BY <1>q, <2>1, <2>3, Works, IdleTyped DEF Sound
<1>19. CASE UNCHANGED vars
  <2>1. UNCHANGED <<meeting, members, place, issued, worker, events, requests, changes, lost, excused, upset>>
    BY <1>19 DEF vars, register, counters, history
  <2>2. Registers /\ Small /\ Large
    BY <1>0, <2>1, SameRegister DEF Small, Large
  <2> QED BY <1>q, <2>1, <2>2, Rests
<1> QED
  BY <1>1, <1>2, <1>3, <1>4, <1>5, <1>6, <1>7, <1>8, <1>9, <1>10, <1>11, <1>12, <1>13, <1>14, <1>15,
     <1>16, <1>17, <1>18, <1>19 DEF Next, Hosts, AllMarks

(* Every row of the register is well formed and has the key that was given *)
(* out last for its account, and what a request remembers of a row or of   *)
(* its members fits (MeetingAttendance, Meeting.regenerate_attendance).    *)
THEOREM TypeInvariant == Spec => []TypeOK
<1>1. Typed => TypeOK
  BY DEF Typed
<1> QED BY <1>1, TypedInit, TypedNext, PTL DEF Spec

-----------------------------------------------------------------------------
(* What stands as recorded has its event.  A form holds a copy of the      *)
(* minutes status that it writes back, so a copy has its event as well;    *)
(* and what is known of, in the log, in a worker or in one that died, is   *)
(* known of for good.                                                      *)

Known == events \cup Owed \cup lost

Recorded(u) == place[u].mark # "not_recorded" => <<u, place[u].pk, place[u].mark>> \in Known

KnownMinutes(status) == status # "draft" => MinutesAre(status) \in Known

LogInv == /\ \A u \in OnRegister : Recorded(u)
          /\ KnownMinutes(meeting.minutes)
          /\ \A w \in Workers : worker[w].pc = "save" => KnownMinutes(worker[w].minutes)

LEMMA KnownKept ==
  ASSUME events \subseteq events', lost \subseteq lost',
         \A v \in Workers : worker[v].pc = "event"
           => worker'[v] = worker[v] \/ worker[v].fact \in events' \cup lost'
  PROVE  Known \subseteq Known'
<1> SUFFICES ASSUME NEW fact \in Known PROVE fact \in Known'
  OBVIOUS
<1>1. CASE fact \in events \cup lost
  BY <1>1 DEF Known
<1>2. CASE fact \in Owed
  <2>1. PICK v \in Workers : worker[v].pc = "event" /\ fact = worker[v].fact
    BY <1>2 DEF Owed
  <2>2. CASE worker'[v] = worker[v]
    <3>1. worker'[v].pc = "event" /\ worker'[v].fact = fact
      BY <2>1, <2>2
    <3> QED BY <3>1 DEF Known, Owed
  <2>3. CASE worker[v].fact \in events' \cup lost'
    BY <2>1, <2>3 DEF Known
  <2> QED BY <2>1, <2>2, <2>3
<1> QED BY <1>1, <1>2 DEF Known

(* Most actions leave minutes, forms and the marks that stand alone.       *)
LEMMA LogKept ==
  ASSUME LogInv, Known \subseteq Known', meeting'.minutes = meeting.minutes,
         \A u \in OnRegister' :
           \/ place'[u].mark = "not_recorded"
           \/ u \in OnRegister /\ place'[u].pk = place[u].pk /\ place'[u].mark = place[u].mark,
         \A v \in Workers : worker'[v].pc = "save" => worker'[v] = worker[v]
  PROVE  LogInv'
<1>1. \A u \in OnRegister' : Recorded(u)'
  BY DEF LogInv, Recorded
<1>2. KnownMinutes(meeting.minutes)'
  BY DEF LogInv, KnownMinutes
<1>3. \A v \in Workers : worker'[v].pc = "save" => KnownMinutes(worker[v].minutes)'
  BY DEF LogInv, KnownMinutes
<1> QED BY <1>1, <1>2, <1>3 DEF LogInv

LEMMA LogInit == Init => LogInv
<1> SUFFICES ASSUME Init PROVE LogInv
  OBVIOUS
<1>1. \A w \in Workers : worker[w].pc \in {"idle", "rebuild"}
  BY DEF Init, Idle, Rebuilds
<1>2. OnRegister = {} /\ meeting.minutes = "draft"
  BY DEF Init, OnRegister
<1> QED BY <1>1, <1>2 DEF LogInv, KnownMinutes

LEMMA LogNext == Typed /\ Typed' /\ LogInv /\ [Next]_vars => LogInv'
<1> SUFFICES ASSUME Typed, Typed', LogInv, [Next]_vars PROVE LogInv'
  OBVIOUS
<1>0. \A w \in Workers : worker[w] \in Jobs
  BY DEF Typed
(* A request that begins, or goes on from what is not an event to what is  *)
(* not a form, and changes nothing else.                                   *)
<1>q. ASSUME NEW w \in Workers, NEW job \in Jobs, Goes(w, job), worker[w].pc # "event",
             job.pc # "save", UNCHANGED <<place, events, lost>>, meeting'.minutes = meeting.minutes
      PROVE  LogInv'
  <2>1. worker'[w] = job /\ Others(w)
    BY <1>q, GoesTyped
  <2>2. Known \subseteq Known'
    BY <1>q, <2>1, KnownKept DEF Others
  <2> QED BY <1>q, <2>1, <2>2, LogKept DEF Others, OnRegister
<1>1. ASSUME NEW w \in Workers, Regenerate(w) PROVE LogInv'
  <2>1. /\ Begin(w, Rebuilds(meeting.host, FALSE)) /\ UNCHANGED <<meeting, place, events, lost>>
        /\ meeting.host \in Hosts
    BY <1>1 DEF Regenerate, register, history, Typed, TypeOK, Hosts
  <2> QED BY <1>q, <2>1, BeginTyped, RebuildsTyped
<1>2. ASSUME NEW w \in Workers, NEW g \in Hosts, LoadForm(w, g) PROVE LogInv'
  <2> DEFINE job == [pc |-> "save", host |-> meeting.host, newHost |-> g, minutes |-> meeting.minutes]
  <2>1. Begin(w, job) /\ UNCHANGED <<meeting, place, events, lost>>
    BY <1>2 DEF LoadForm, register, history
  <2>2. worker'[w] = job /\ Others(w) /\ worker[w].pc = "idle"
    <3>1. job \in Jobs
      BY DEF Jobs, Forms, Typed, TypeOK, Hosts
    <3> HIDE DEF job
    <3> QED BY <2>1, <3>1, BeginTyped, GoesTyped
  <2>3. Known \subseteq Known'
    BY <2>1, <2>2, KnownKept DEF Others
  <2>4. \A u \in OnRegister' : Recorded(u)'
    BY <2>1, <2>3 DEF LogInv, Recorded, OnRegister
  <2>5. KnownMinutes(meeting.minutes)'
    BY <2>1, <2>3 DEF LogInv, KnownMinutes
  <2>6. \A v \in Workers : worker'[v].pc = "save" => KnownMinutes(worker[v].minutes)'
    BY <2>1, <2>2, <2>3 DEF LogInv, KnownMinutes, Others
  <2> QED BY <2>4, <2>5, <2>6 DEF LogInv
<1>3. ASSUME NEW w \in Workers, SaveForm(w) PROVE LogInv'
  <2> DEFINE job == IF worker[w].newHost # worker[w].host THEN Rebuilds(worker[w].newHost, FALSE) ELSE Idle
  <2>1. /\ meeting' = [host |-> worker[w].newHost, minutes |-> worker[w].minutes] /\ Goes(w, job)
        /\ UNCHANGED <<place, events, lost>> /\ worker[w].pc = "save" /\ worker[w] \in Forms
    BY <1>0, <1>3, JobKinds DEF SaveForm, register
  <2>2. job \in Jobs /\ job.pc \in {"idle", "rebuild"}
    BY <2>1, IdleTyped, RebuildsTyped DEF Forms
  <2> HIDE DEF job
  <2>3. worker'[w] = job /\ Others(w)
    BY <2>1, <2>2, GoesTyped
  <2>4. Known \subseteq Known'
    BY <2>1, <2>3, KnownKept DEF Others
  <2>5. \A u \in OnRegister' : Recorded(u)'
    BY <2>1, <2>4 DEF LogInv, Recorded, OnRegister
  <2>6. KnownMinutes(meeting.minutes)'
    BY <2>1, <2>4 DEF LogInv, KnownMinutes
  <2>7. \A v \in Workers : worker'[v].pc = "save" => KnownMinutes(worker[v].minutes)'
    BY <2>2, <2>3, <2>4 DEF LogInv, KnownMinutes, Others
  <2> QED BY <2>5, <2>6, <2>7 DEF LogInv
<1>4. ASSUME NEW w \in Workers, NEW g \in Hosts, Import(w, g) PROVE LogInv'
  <2>1. Begin(w, Rebuilds(g, TRUE)) /\ UNCHANGED <<meeting, place, events, lost>>
    BY <1>4 DEF Import, register, history
  <2> QED BY <1>q, <2>1, BeginTyped, RebuildsTyped
<1>5. ASSUME NEW w \in Workers, ReadGenerated(w) \/ ReadMembers(w) PROVE LogInv'
  <2>1. /\ worker[w].pc \in {"rebuild", "read"} /\ UNCHANGED <<meeting, place, events, lost>>
        /\ worker'[w].pc \in {"read", "write"} /\ worker'[w] \in Jobs /\ Goes(w, worker'[w])
    BY <1>5 DEF ReadGenerated, ReadMembers, register, history, Goes, Typed
  <2> QED BY <1>q, <2>1
<1>6. ASSUME NEW w \in Workers, Rebuild(w) PROVE LogInv'
  <2>1. Goes(w, Idle) /\ worker[w].pc = "write" /\ UNCHANGED <<events, lost>>
    BY <1>6 DEF Rebuild, End
  <2>2. worker'[w] = Idle /\ Others(w)
    BY <2>1, GoesTyped, IdleTyped
  <2>3. Known \subseteq Known'
    BY <2>1, <2>2, KnownKept DEF Others
  <2>4. CASE worker[w].joiners \cap OnRegister # {}
    <3>1. UNCHANGED <<place, meeting>>
      BY <1>6, <2>4 DEF Rebuild, register
    <3> QED BY <1>q, <2>1, <3>1, IdleTyped
  <2>5. CASE worker[w].joiners \cap OnRegister = {}
    <3>1. meeting'.minutes = meeting.minutes
      BY <1>6, <2>5, Rebuilt DEF Typed, TypeOK
    <3>2. \A u \in OnRegister' : \/ place'[u].mark = "not_recorded"
                                 \/ u \in OnRegister /\ place'[u] = place[u]
      <4>1. ASSUME NEW u \in OnRegister' PROVE \/ place'[u].mark = "not_recorded"
                                               \/ u \in OnRegister /\ place'[u] = place[u]
        <5>1. u \in Users /\ place'[u] # NoPlace
          BY DEF OnRegister
        <5>2. CASE u \in worker[w].joiners
          <6>1. place'[u] = NewPlace(u, "host_group")
            BY <1>6, <2>5, <5>1, <5>2, Rebuilt
          <6> QED BY <6>1 DEF NewPlace
        <5>3. CASE u \notin worker[w].joiners
          <6>1. place'[u] = place[u]
            BY <1>6, <2>5, <5>1, <5>3, Rebuilt
          <6> QED BY <5>1, <6>1 DEF OnRegister
        <5> QED BY <5>2, <5>3
      <4> QED BY <4>1
    <3> QED BY <2>2, <2>3, <3>1, <3>2, LogKept, IdleTyped DEF Others
  <2> QED BY <2>4, <2>5
<1>7. ASSUME NEW w \in Workers, NEW u \in Users, CheckInvitee(w, u) PROVE LogInv'
  <2> DEFINE job == [pc |-> "invite", user |-> u]
  <2>1. Begin(w, job) /\ UNCHANGED <<meeting, place, events, lost>>
    BY <1>7 DEF CheckInvitee, register, history
  <2>2. job \in Jobs /\ job.pc = "invite"
    BY DEF Jobs, Invitations
  <2> HIDE DEF job
  <2> QED BY <1>q, <2>1, <2>2, BeginTyped
<1>8. ASSUME NEW w \in Workers, Invite(w) PROVE LogInv'
  <2> DEFINE u == worker[w].user
  <2>1. Goes(w, Idle) /\ worker[w].pc = "invite" /\ UNCHANGED <<meeting, events, lost>>
    BY <1>8 DEF Invite, End, history
  <2>2. CASE u \in OnRegister
    BY <1>8, <1>q, <2>1, <2>2, IdleTyped DEF Invite, register
  <2>3. CASE u \notin OnRegister
    <3>1. worker'[w] = Idle /\ Others(w)
      BY <2>1, GoesTyped, IdleTyped
    <3>2. Known \subseteq Known'
      BY <2>1, <3>1, KnownKept DEF Others
    <3>3. u \in Users /\ place' = [place EXCEPT ![u] = NewPlace(u, "invitee")]
      BY <1>0, <1>8, <2>1, <2>3, JobKinds DEF Invite, Invitations
    <3>4. /\ place'[u].mark = "not_recorded"
          /\ \A v \in Users \ {u} : place'[v] = place[v]
      BY <3>3, NewRow DEF Typed, TypeOK
    <3> QED BY <2>1, <3>1, <3>2, <3>4, LogKept, IdleTyped DEF Others, OnRegister
  <2> QED BY <2>2, <2>3
<1>9. ASSUME NEW u \in Users, Remove(u) PROVE LogInv'
  <2>1. /\ UNCHANGED <<meeting, worker, events, lost>>
        /\ place' = [place EXCEPT ![u] = NoPlace]
    BY <1>9 DEF Remove
  <2>2. Known \subseteq Known'
    BY <2>1, KnownKept
  <2>3. \A v \in OnRegister' : v \in OnRegister /\ place'[v] = place[v]
    BY <2>1 DEF OnRegister, Typed, TypeOK
  <2> QED BY <2>1, <2>2, <2>3, LogKept
<1>10. ASSUME NEW w \in Workers, NEW u \in Users, NEW rsvp \in BOOLEAN, NEW mark \in AllMarks,
              LoadRecord(w, u, rsvp, mark)
       PROVE  LogInv'
  <2> DEFINE job == [pc |-> IF rsvp THEN "respond" ELSE "record", user |-> u, pk |-> place[u].pk,
                     mark |-> mark]
  <2>1. Begin(w, job) /\ UNCHANGED <<meeting, place, events, lost>> /\ job.pc # "save"
    BY <1>10 DEF LoadRecord, register, history
  <2> HIDE DEF job
  <2>2. Goes(w, job) /\ worker[w].pc = "idle"
    BY <2>1, BeginTyped
  <2>3. worker'[w] = job /\ worker'[w] \in Jobs
    BY <2>2 DEF Goes, Typed
  <2> QED BY <1>q, <2>1, <2>2, <2>3
<1>11. ASSUME NEW w \in Workers, Respond(w) PROVE LogInv'
  <2> DEFINE u == worker[w].user
  <2>1. /\ worker[w].pc = "respond" /\ worker[w] \in Answers /\ UNCHANGED <<meeting, events, lost>>
    BY <1>0, <1>11, JobKinds DEF Respond, history
  <2>2. u \in Users
    BY <2>1 DEF Answers
  <2>3. /\ Goes(w, worker'[w]) /\ worker'[w].pc \in {"idle", "record"}
        /\ \A v \in Users \ {u} : place'[v] = place[v]
    BY <1>11, <2>1 DEF Respond, End, Goes, Idle, Typed, TypeOK, Answers
  <2>4. Others(w) /\ worker'[w] \in Jobs
    BY <2>3 DEF Typed, Goes, Others
  <2>5. Known \subseteq Known'
    BY <2>1, <2>4, KnownKept DEF Others
  <2>6. u \in OnRegister' => u \in OnRegister /\ place'[u].pk = place[u].pk /\ place'[u].mark = place[u].mark
    <3>1. CASE Standing(u, worker[w].pk)
      <4>1. place[u] \in Place /\ place'[u] = [place[u] EXCEPT !.rsvp = TRUE] /\ u \in OnRegister
        BY <1>11, <2>2, <3>1 DEF Respond, Standing, Typed, TypeOK, OnRegister
      <4> QED BY <4>1, ColumnTyped DEF AllMarks
    <3>2. CASE ~Standing(u, worker[w].pk)
      BY <1>11, <3>2 DEF Respond, OnRegister
    <3> QED BY <3>1, <3>2
  <2> QED BY <2>1, <2>3, <2>4, <2>5, <2>6, LogKept DEF Others, OnRegister
<1>12. ASSUME NEW w \in Workers, Record(w) PROVE LogInv'
  <2> DEFINE u == worker[w].user
             fact == <<u, worker[w].pk, worker[w].mark>>
  <2>1. worker[w].pc = "record" /\ worker[w] \in Recordings /\ UNCHANGED <<meeting, events, lost>>
    BY <1>0, <1>12, JobKinds DEF Record, history
  <2>2. CASE Standing(u, worker[w].pk)
    <3>1. place' = [place EXCEPT ![u] = [place[u] EXCEPT !.mark = worker[w].mark]] /\ Goes(w, Owes(fact))
      BY <1>12, <2>2 DEF Record
    <3>2. u \in Users /\ place[u] \in Place /\ place[u].pk = worker[w].pk /\ u \in OnRegister
      BY <2>1, <2>2 DEF Standing, Recordings, Typed, TypeOK, OnRegister
    <3>3. place'[u].pk = worker[w].pk /\ place'[u].mark = worker[w].mark
      BY <2>1, <3>1, <3>2, ColumnTyped DEF Typed, TypeOK, AllMarks, Recordings
    <3>4. \A v \in Users \ {u} : place'[v] = place[v]
      BY <3>1 DEF Typed, TypeOK
    <3>5. Owes(fact) \in Jobs /\ Owes(fact).pc = "event" /\ Owes(fact).fact = fact
      <4>1. fact \in Facts
        BY <2>1, <3>2, FactsTyped DEF Recordings
      <4> HIDE DEF fact
      <4> QED BY <4>1, OwesTyped
    <3>6. worker'[w] = Owes(fact) /\ Others(w)
      BY <3>1, <3>5, GoesTyped
    <3>7. Known \subseteq Known'
      BY <2>1, <3>6, KnownKept DEF Others
    <3>8. fact \in Known'
      BY <3>5, <3>6 DEF Known, Owed
    <3>9. \A v \in OnRegister' : Recorded(v)'
      BY <3>2, <3>3, <3>4, <3>7, <3>8 DEF LogInv, Recorded, OnRegister
    <3>10. KnownMinutes(meeting.minutes)'
      BY <2>1, <3>7 DEF LogInv, KnownMinutes
    <3>11. \A v \in Workers : worker'[v].pc = "save" => KnownMinutes(worker[v].minutes)'
      BY <3>5, <3>6, <3>7 DEF LogInv, KnownMinutes, Others
    <3> QED BY <3>9, <3>10, <3>11 DEF LogInv
  <2>3. CASE ~Standing(u, worker[w].pk)
    <3>1. Goes(w, Idle) /\ UNCHANGED place
      BY <1>12, <2>3 DEF Record, End
    <3> QED BY <1>q, <2>1, <3>1, IdleTyped
  <2> QED BY <2>2, <2>3
<1>13. ASSUME NEW w \in Workers, Log(w) PROVE LogInv'
  <2>1. /\ UNCHANGED <<meeting, place, lost>> /\ Goes(w, Idle) /\ events' = events \cup {worker[w].fact}
    BY <1>13 DEF Log, End, register, history
  <2>2. worker'[w] = Idle /\ Others(w)
    BY <2>1, GoesTyped, IdleTyped
  <2>3. Known \subseteq Known'
    BY <2>1, <2>2, KnownKept DEF Others
  <2> QED BY <2>1, <2>2, <2>3, LogKept, IdleTyped DEF Others, OnRegister
<1>14. ASSUME NEW w \in Workers, NEW status \in MinutesStatuses, SetMinutes(w, status) PROVE LogInv'
  <2> DEFINE job == IF status = "draft" THEN Idle ELSE Owes(MinutesAre(status))
  <2>1. /\ UNCHANGED <<place, events, lost>> /\ Begin(w, job)
        /\ meeting' = [meeting EXCEPT !.minutes = status]
    BY <1>14 DEF SetMinutes, register, history
  <2>2. /\ job \in Jobs /\ job.pc \in {"idle", "event"}
        /\ status # "draft" => job.pc = "event" /\ job.fact = MinutesAre(status)
    BY IdleTyped, OwesTyped, FactsTyped
  <2> HIDE DEF job
  <2>3. worker'[w] = job /\ Others(w) /\ worker[w].pc = "idle"
    BY <2>1, <2>2, BeginTyped, GoesTyped
  <2>4. Known \subseteq Known'
    BY <2>1, <2>3, KnownKept DEF Others
  <2>5. status # "draft" => MinutesAre(status) \in Known'
    BY <2>2, <2>3 DEF Known, Owed
  <2>6. KnownMinutes(meeting.minutes)'
    BY <2>1, <2>5 DEF KnownMinutes, Typed, TypeOK
  <2>7. \A u \in OnRegister' : Recorded(u)'
    BY <2>1, <2>4 DEF LogInv, Recorded, OnRegister
  <2>8. \A v \in Workers : worker'[v].pc = "save" => KnownMinutes(worker[v].minutes)'
    BY <2>2, <2>3, <2>4 DEF LogInv, KnownMinutes, Others
  <2> QED BY <2>6, <2>7, <2>8 DEF LogInv
<1>15. ASSUME \/ \E g \in Groups, u \in Users : ChangeMember(g, u)
              \/ \E g \in Hosts : AdminSetHost(g)
       PROVE  LogInv'
  <2>1. UNCHANGED <<place, worker, events, lost>> /\ meeting'.minutes = meeting.minutes
    BY <1>15 DEF ChangeMember, AdminSetHost, register, Typed, TypeOK
  <2>2. Known \subseteq Known'
    BY <2>1, KnownKept
  <2> QED BY <2>1, <2>2, LogKept DEF OnRegister
<1>16. ASSUME NEW w \in Workers, Die(w) PROVE LogInv'
  <2>1. /\ UNCHANGED <<meeting, place, events>> /\ Goes(w, Idle)
        /\ lost' = IF worker[w].pc = "event" THEN lost \cup {worker[w].fact} ELSE lost
    BY <1>16 DEF Die, End, register
  <2>2. worker'[w] = Idle /\ Others(w)
    BY <2>1, GoesTyped, IdleTyped
  <2>3. Known \subseteq Known'
    BY <2>1, <2>2, KnownKept DEF Others
  <2> QED BY <2>1, <2>2, <2>3, LogKept, IdleTyped DEF Others, OnRegister
<1>17. CASE UNCHANGED vars
  <2>1. UNCHANGED <<meeting, place, worker, events, lost>>
    BY <1>17 DEF vars, register, history
  <2>2. Known \subseteq Known'
    BY <2>1, KnownKept
  <2> QED BY <2>1, <2>2, LogKept DEF OnRegister
<1> QED
  BY <1>1, <1>2, <1>3, <1>4, <1>5, <1>6, <1>7, <1>8, <1>9, <1>10, <1>11, <1>12, <1>13, <1>14, <1>15,
     <1>16, <1>17 DEF Next, Hosts, AllMarks

(* Attendance and minutes that stand as recorded have their event, or a    *)
(* worker that owes it, or one that died owing it                          *)
(* (MeetingAttendance.record, Meeting.record_minutes_filed).               *)
THEOREM WhatStandsIsLogged == Spec => []StandingIsLogged
<1>1. LogInv => StandingIsLogged
  BY DEF LogInv, StandingIsLogged, Recorded, KnownMinutes, Known
<1> QED BY <1>1, TypedInit, TypedNext, LogInit, LogNext, PTL DEF Spec

-----------------------------------------------------------------------------
(* The register and the hosting group.                                     *)
(*                                                                         *)
(* A key a rebuild has read belongs to a generated row or to none: keys    *)
(* are not given out again.                                                *)

Working(w) == worker[w].pc \in {"read", "write"}

GeneratedKey(u, k) == k <= issued[u] /\ (Standing(u, k) => place[u].source = "host_group")

KeyInv == \A w \in Workers : Working(w) =>
            \A u \in Users, k \in Nat : <<u, k>> \in worker[w].generated => GeneratedKey(u, k)

(* Unless it is upset, one rebuild at most has begun to read, it is for    *)
(* the group that hosts or will once it commits, and what it remembers is  *)
(* still so for the accounts that are not excused: theirs are the          *)
(* generated rows it read, the members it read are members still, and      *)
(* those it will not add are on the register.                              *)
Remembers(w, u) ==
  /\ u \in Generated => <<u, place[u].pk>> \in worker[w].generated
  /\ worker[w].pc = "write" =>
       /\ u \in worker[w].members <=> u \in MembersOf(worker[w].newHost)
       /\ u \in worker[w].members => u \in worker[w].joiners \cup OnRegister

Steady(w) == /\ \A v \in Workers \ {w} : ~Working(v)
             /\ worker[w].imports \/ worker[w].newHost = meeting.host
             /\ \A u \in Users \ excused : Remembers(w, u)

HostInv == FollowsHost /\ (~upset => \A w \in Workers : Working(w) => Steady(w))

IInv == Typed /\ KeyInv /\ HostInv

LEMMA IInvInit == Init => IInv
<1> SUFFICES ASSUME Init PROVE IInv
  OBVIOUS
<1>1. \A w \in Workers : worker[w].pc \in {"idle", "rebuild"}
  BY DEF Init, Idle, Rebuilds
<1>2. OnRegister = {}
  BY DEF Init, OnRegister
<1>3. AtRest => meeting.host = NoGroup
  BY DEF Init, AtRest, Rebuilding, Rebuilds
<1>4. FollowsHost
  BY <1>2, <1>3 DEF FollowsHost, InStep, MembersOf, Generated
<1> QED BY <1>1, <1>4, TypedInit DEF IInv, KeyInv, HostInv, Working

(* A key stays what it is if the row does, or is gone, or a new one comes. *)
RowStays(u) ==
  /\ issued[u] <= issued'[u]
  /\ u \in OnRegister' => \/ /\ u \in OnRegister
                             /\ place'[u].pk = place[u].pk /\ place'[u].source = place[u].source
                          \/ place'[u].pk = issued[u] + 1

LEMMA KeyKept ==
  ASSUME Typed, Typed', NEW u \in Users, RowStays(u), NEW k \in Nat, GeneratedKey(u, k)
  PROVE  GeneratedKey(u, k)'
<1>1. issued[u] \in Nat /\ issued'[u] \in Nat /\ k <= issued[u]
  BY DEF Typed, TypeOK, GeneratedKey
<1>2. k <= issued'[u]
  BY <1>1 DEF RowStays
<1>3. ASSUME Standing(u, k)' PROVE place'[u].source = "host_group"
  <2>1. u \in OnRegister' /\ place'[u].pk = k
    BY <1>3 DEF Standing, OnRegister
  <2>2. u \in OnRegister /\ place[u].pk = k /\ place'[u].source = place[u].source
    BY <1>1, <2>1 DEF RowStays
  <2> QED BY <2>2 DEF GeneratedKey, Standing, OnRegister
<1> QED BY <1>2, <1>3 DEF GeneratedKey

(* What an action may do that is not a step of a rebuild.                  *)
QuietFor(u) ==
  /\ u \in OnRegister => u \in OnRegister'
  /\ u \in Generated' => u \in Generated /\ place'[u].pk = place[u].pk
  /\ \A g \in Hosts : u \in MembersOf(g)' <=> u \in MembersOf(g)

LEMMA Undisturbed ==
  ASSUME IInv, Typed',
         \A u \in Users : RowStays(u),
         \A w \in Workers : Working(w)' => worker'[w] = worker[w],
         ~upset' => /\ ~upset
                    /\ excused \subseteq excused'
                    /\ \A u \in Users \ excused' : QuietFor(u)
                    /\ AtRest' => AtRest
                    /\ \/ meeting'.host = meeting.host
                       \/ ~AtRest' /\ \A w \in Workers : ~Working(w)
  PROVE  IInv'
<1>1. Typed /\ KeyInv /\ HostInv
  BY DEF IInv
<1>2. KeyInv'
  <2>1. ASSUME NEW w \in Workers, Working(w)', NEW u \in Users, NEW k \in Nat,
               <<u, k>> \in worker'[w].generated
        PROVE  GeneratedKey(u, k)'
    <3>1. Working(w) /\ worker'[w] = worker[w]
      BY <2>1 DEF Working
    <3>2. GeneratedKey(u, k)
      BY <1>1, <2>1, <3>1 DEF KeyInv
    <3> QED BY <1>1, <2>1, <3>2, KeyKept
  <2> QED BY <2>1 DEF KeyInv
<1>3. ASSUME ~upset', AtRest', NEW u \in Users \ excused' PROVE InStep(u)'
  <2>1. AtRest /\ ~upset /\ u \notin excused /\ meeting'.host = meeting.host /\ QuietFor(u)
    BY <1>3
  <2>2. InStep(u)
    BY <1>1, <2>1 DEF HostInv, FollowsHost
  <2>3. meeting.host \in Hosts
    BY <1>1 DEF Typed, TypeOK, Hosts
  <2>4. u \in MembersOf(meeting.host)' <=> u \in MembersOf(meeting.host)
    BY <2>1, <2>3 DEF QuietFor, MembersOf
  <2> QED BY <2>1, <2>2, <2>4 DEF InStep, QuietFor
<1>4. ASSUME ~upset', NEW w \in Workers, Working(w)' PROVE Steady(w)'
  <2>1. Working(w) /\ worker'[w] = worker[w] /\ ~upset
    BY <1>4 DEF Working
  <2>2. Steady(w)
    BY <1>1, <2>1 DEF HostInv
  <2>3. meeting'.host = meeting.host
    BY <1>4, <2>1
  <2>4. \A v \in Workers \ {w} : ~Working(v)'
    BY <2>2 DEF Steady, Working
  <2>5. ASSUME NEW u \in Users \ excused' PROVE Remembers(w, u)'
    <3>1. QuietFor(u) /\ Remembers(w, u)
      BY <1>4, <2>2, <2>5 DEF Steady
    <3>2. worker[w].newHost \in Hosts
      BY <1>1, <2>1, JobKinds DEF Typed, Working, RebuildJobs
    <3>3. u \in MembersOf(worker[w].newHost)' <=> u \in MembersOf(worker[w].newHost)
      BY <2>1, <3>1, <3>2 DEF QuietFor, MembersOf
    <3> QED BY <2>1, <3>1, <3>3 DEF Remembers, QuietFor
  <2> QED BY <2>1, <2>2, <2>3, <2>4, <2>5 DEF Steady
<1> QED BY <1>2, <1>3, <1>4 DEF IInv, HostInv, FollowsHost

(* A worker that is not rebuilding takes a step and does not start to read.*)
LEMMA Elsewhere ==
  ASSUME IInv, Typed', NEW w \in Workers, Others(w), ~Rebuilding(w), ~Working(w)',
         UNCHANGED <<members, excused, upset>>, meeting'.host = meeting.host,
         \A u \in Users : /\ RowStays(u)
                          /\ u \in OnRegister => u \in OnRegister'
                          /\ u \in Generated' => u \in Generated /\ place'[u].pk = place[u].pk
  PROVE  IInv'
<1>1. \A v \in Workers : Working(v)' => worker'[v] = worker[v]
  BY DEF Others, Working
<1>2. AtRest' => AtRest
  BY DEF Others, AtRest, Rebuilding
<1>3. \A u \in Users : QuietFor(u)
  BY DEF QuietFor, MembersOf
<1> QED BY <1>1, <1>2, <1>3, Undisturbed

LEMMA RowsStay ==
  ASSUME Typed, UNCHANGED <<place, issued>>, NEW u \in Users
  PROVE  /\ RowStays(u) /\ (u \in OnRegister => u \in OnRegister')
         /\ u \in Generated' => u \in Generated /\ place'[u].pk = place[u].pk
BY PlaceTyped DEF RowStays, OnRegister, Generated

LEMMA OneColumn ==
  ASSUME Typed, Typed', UNCHANGED issued, NEW x \in Users, x \in OnRegister, NEW row \in Place,
         row.pk = place[x].pk, row.source = place[x].source, place' = [place EXCEPT ![x] = row],
         NEW u \in Users
  PROVE  /\ RowStays(u) /\ (u \in OnRegister => u \in OnRegister')
         /\ u \in Generated' => u \in Generated /\ place'[u].pk = place[u].pk
<1>1. place'[u] = IF u = x THEN row ELSE place[u]
  BY DEF Typed, TypeOK
<1>2. issued[u] <= issued'[u] /\ row # NoPlace
  BY PlaceTyped, PlaceAssumption
<1> QED BY <1>1, <1>2 DEF RowStays, OnRegister, Generated

LEMMA ReadGeneratedKeeps ==
  ASSUME IInv, Typed', NEW w \in Workers, ReadGenerated(w) PROVE IInv'
<1> DEFINE job == worker[w]
           inStep == Alone(w) /\ (job.imports \/ job.newHost = meeting.host)
           new == [pc |-> "read", newHost |-> job.newHost, imports |-> job.imports,
                   generated |-> {<<u, place[u].pk>> : u \in Generated},
                   members |-> {}, joiners |-> {}]
<1>0. Typed /\ KeyInv
  BY DEF IInv
<1>1. /\ worker'[w] = new /\ Others(w) /\ UNCHANGED <<meeting, place, issued>>
      /\ ~upset' => inStep
  BY <1>0 DEF ReadGenerated, register, Goes, Others, Typed
<1>2. Working(w)' /\ Rebuilding(w)'
  BY <1>1 DEF Working, Rebuilding
<1>3. KeyInv'
  <2>1. ASSUME NEW u \in Users, NEW k \in Nat, <<u, k>> \in new.generated PROVE GeneratedKey(u, k)'
    <3>1. u \in Generated /\ k = place[u].pk
      BY <2>1
    <3>2. u \in OnRegister /\ place[u].source = "host_group" /\ k <= issued[u]
      BY <1>0, <3>1, PlaceTyped DEF Generated
    <3> QED BY <1>1, <3>2 DEF GeneratedKey, Standing
  <2>2. ASSUME NEW v \in Workers \ {w}, Working(v)', NEW u \in Users, NEW k \in Nat,
               <<u, k>> \in worker'[v].generated
        PROVE  GeneratedKey(u, k)'
    <3>1. worker'[v] = worker[v] /\ Working(v)
      BY <1>1, <2>2 DEF Others, Working
    <3>2. GeneratedKey(u, k)
      BY <1>0, <2>2, <3>1 DEF KeyInv
    <3> QED BY <1>1, <3>2 DEF GeneratedKey, Standing
  <2> QED BY <1>1, <2>1, <2>2 DEF KeyInv
<1>4. ASSUME ~upset' PROVE \A v \in Workers : Working(v)' => Steady(v)'
  <2>1. inStep
    BY <1>1, <1>4
  <2>2. \A v \in Workers \ {w} : ~Working(v)'
    BY <1>1, <2>1 DEF Alone, Rebuilding, Working, Others
  <2>3. \A u \in Users : Remembers(w, u)'
    BY <1>1 DEF Remembers, Generated, OnRegister
  <2>4. Steady(w)'
    BY <1>1, <2>1, <2>2, <2>3 DEF Steady
  <2> QED BY <2>2, <2>4
<1>5. FollowsHost'
  BY <1>2 DEF FollowsHost, AtRest
<1> QED BY <1>3, <1>4, <1>5 DEF IInv, HostInv

LEMMA ReadMembersKeeps ==
  ASSUME IInv, Typed', NEW w \in Workers, ReadMembers(w) PROVE IInv'
<1> DEFINE job == worker[w]
           now == MembersOf(job.newHost)
           new == [pc |-> "write", newHost |-> job.newHost, imports |-> job.imports,
                   generated |-> job.generated, members |-> now, joiners |-> now \ OnRegister]
<1>0. Typed /\ KeyInv /\ HostInv
  BY DEF IInv
<1>1. /\ worker'[w] = new /\ Others(w) /\ UNCHANGED <<meeting, members, place, issued, excused, upset>>
      /\ job.pc = "read"
  BY <1>0 DEF ReadMembers, register, history, Goes, Others, Typed
<1>2. Working(w)' /\ Rebuilding(w)' /\ Working(w)
  BY <1>1 DEF Working, Rebuilding
<1>3. \A v \in Workers : worker'[v].pc \in {"read", "write"}
                           => Working(v) /\ worker'[v].generated = worker[v].generated
  BY <1>1, <1>2 DEF Others, Working
<1>4. KeyInv'
  BY <1>0, <1>1, <1>3 DEF KeyInv, GeneratedKey, Standing, Working
<1>5. ASSUME ~upset' PROVE \A v \in Workers : Working(v)' => Steady(v)'
  <2>1. Steady(w) /\ ~upset
    BY <1>0, <1>1, <1>2, <1>5 DEF HostInv
  <2>2. \A v \in Workers \ {w} : ~Working(v)'
    BY <1>1, <2>1 DEF Steady, Working, Others
  <2>3. ASSUME NEW u \in Users \ excused PROVE Remembers(w, u)'
    <3>1. u \in Generated => <<u, place[u].pk>> \in worker[w].generated
      BY <2>1, <2>3 DEF Steady, Remembers
    <3>2. u \in Generated' <=> u \in Generated
      BY <1>1 DEF Generated, OnRegister
    <3>3. u \in MembersOf(worker[w].newHost)' <=> u \in now
      BY <1>1 DEF MembersOf
    <3> HIDE DEF now
    <3> QED BY <1>1, <3>1, <3>2, <3>3 DEF Remembers, OnRegister
  <2>4. Steady(w)'
    BY <1>1, <2>1, <2>2, <2>3 DEF Steady
  <2> QED BY <2>2, <2>4
<1>6. FollowsHost'
  BY <1>2 DEF FollowsHost, AtRest
<1> QED BY <1>4, <1>5, <1>6 DEF IInv, HostInv

LEMMA RebuildKeeps ==
  ASSUME IInv, Typed', NEW w \in Workers, Rebuild(w) PROVE IInv'
<1> DEFINE job == worker[w]
<1>0. Typed /\ KeyInv /\ HostInv
  BY DEF IInv
<1>1. /\ worker'[w] = Idle /\ Others(w) /\ UNCHANGED <<members, excused>> /\ job.pc = "write"
      /\ ~upset' => ~upset /\ job.joiners \cap OnRegister = {} /\ Alone(w)
  BY <1>0, GoesTyped, IdleTyped DEF Rebuild, End, Upset
<1>2. \A v \in Workers : Working(v)' => worker'[v] = worker[v]
  BY <1>1 DEF Others, Working, Idle
<1>3. CASE job.joiners \cap OnRegister # {}
  <2>1. UNCHANGED <<place, issued>> /\ upset'
    BY <1>1, <1>3 DEF Rebuild, register, Typed, TypeOK
  <2> QED BY <1>0, <1>2, <2>1, RowsStay, Undisturbed
<1>4. CASE job.joiners \cap OnRegister = {}
  <2>1. ASSUME NEW u \in Users PROVE RowStays(u)
    <3>1. issued[u] \in Nat
      BY <1>0, PlaceTyped
    <3>2. CASE u \in job.joiners
      BY <1>0, <1>4, <3>1, <3>2, Rebuilt, NewRow DEF RowStays
    <3>3. CASE u \notin job.joiners
      <4>1. issued'[u] = issued[u] /\ place'[u] \in {NoPlace, place[u]}
        BY <1>0, <1>4, <3>3, Rebuilt
      <4> QED BY <3>1, <4>1 DEF RowStays, OnRegister
    <3> QED BY <3>2, <3>3
  <2>2. CASE upset'
    BY <1>0, <1>2, <2>1, <2>2, Undisturbed
  <2>3. CASE ~upset'
    <3>1. Steady(w) /\ Alone(w)
      BY <1>0, <1>1, <2>3 DEF HostInv, Working
    <3>2. \A v \in Workers : ~Working(v)'
      BY <1>1, <3>1 DEF Steady, Working, Others, Idle
    <3>3. meeting'.host = job.newHost
      <4>1. job \in RebuildJobs /\ meeting \in [host : Hosts, minutes : MinutesStatuses]
        BY <1>0, <1>1, JobKinds DEF Typed, TypeOK, Hosts
      <4> QED BY <1>0, <1>4, <3>1, <4>1, Rebuilt DEF Steady, RebuildJobs
    <3>4. ASSUME NEW u \in Users \ excused PROVE InStep(u)'
      <4>1. Remembers(w, u) /\ (u \in job.members <=> u \in MembersOf(job.newHost))
        BY <1>1, <3>1, <3>4 DEF Steady, Remembers
      <4>2. u \in MembersOf(meeting.host)' <=> u \in job.members
        BY <1>1, <3>3, <4>1 DEF MembersOf
      <4>3. CASE u \in job.joiners
        BY <1>0, <1>4, <4>2, <4>3, Rebuilt, NewRow DEF InStep, OnRegister, Generated
      <4>4. CASE u \notin job.joiners /\ u \in Leavers(w)
        BY <1>0, <1>4, <4>2, <4>4, Rebuilt DEF InStep, OnRegister, Generated, Leavers
      <4>5. CASE u \notin job.joiners /\ u \notin Leavers(w)
        <5>1. place'[u] = place[u]
          BY <1>0, <1>4, <4>5, Rebuilt
        <5>2. u \in job.members => u \in OnRegister'
          BY <1>1, <4>1, <4>5, <5>1 DEF Remembers, OnRegister
        <5>3. u \in Generated' => u \in job.members
          BY <4>1, <4>5, <5>1 DEF Remembers, Generated, OnRegister, Leavers
        <5> QED BY <4>2, <5>2, <5>3 DEF InStep
      <4> QED BY <4>3, <4>4, <4>5
    <3>5. KeyInv'
      BY <3>2 DEF KeyInv
    <3> QED BY <1>1, <3>2, <3>4, <3>5 DEF IInv, HostInv, FollowsHost
  <2> QED BY <2>2, <2>3
<1> QED BY <1>3, <1>4

LEMMA IInvNext == IInv /\ [Next]_vars => IInv'
<1> SUFFICES ASSUME IInv, [Next]_vars PROVE IInv'
  OBVIOUS
<1>0. Typed /\ Typed' /\ \A w \in Workers : worker[w] \in Jobs
  BY TypedNext DEF IInv, Typed
<1>b. ASSUME NEW w \in Workers, NEW job, Begin(w, job), ~(job.pc \in {"read", "write"})
      PROVE  Others(w) /\ ~Rebuilding(w) /\ worker'[w] = job /\ ~Working(w)'
  BY <1>0, <1>b DEF Begin, Goes, Others, Rebuilding, Working, Typed
<1>1. ASSUME NEW w \in Workers, Regenerate(w) PROVE IInv'
  <2>1. Begin(w, Rebuilds(meeting.host, FALSE)) /\ UNCHANGED <<meeting, members, place, issued, excused, upset>>
    BY <1>1 DEF Regenerate, register, history
  <2> QED BY <1>0, <1>b, <2>1, Elsewhere, RowsStay DEF Rebuilds
<1>2. ASSUME NEW w \in Workers, NEW g \in Hosts, LoadForm(w, g) PROVE IInv'
  <2> DEFINE job == [pc |-> "save", host |-> meeting.host, newHost |-> g, minutes |-> meeting.minutes]
  <2>1. /\ Begin(w, job) /\ UNCHANGED <<meeting, members, place, issued, excused, upset>>
        /\ ~(job.pc \in {"read", "write"})
    BY <1>2 DEF LoadForm, register, history
  <2> HIDE DEF job
  <2> QED BY <1>0, <1>b, <2>1, Elsewhere, RowsStay
<1>3. ASSUME NEW w \in Workers, SaveForm(w) PROVE IInv'
  <2> DEFINE form == worker[w]
             job == IF form.newHost # form.host THEN Rebuilds(form.newHost, FALSE) ELSE Idle
  <2>1. /\ meeting' = [host |-> form.newHost, minutes |-> form.minutes] /\ Goes(w, job)
        /\ UNCHANGED <<members, place, issued, excused>> /\ form.pc = "save"
        /\ upset' = (upset \/ (form.newHost # meeting.host /\ (form.newHost = form.host \/ ~Alone(w))))
    BY <1>3 DEF SaveForm, register, Upset
  <2>2. form \in Forms
    BY <1>0, <2>1, JobKinds
  <2>3. worker'[w] = job /\ Others(w) /\ ~Working(w)'
    BY <1>0, <2>1 DEF Goes, Others, Typed, Working, Rebuilds, Idle
  <2>4. ~Rebuilding(w)
    BY <2>1 DEF Rebuilding
  <2>5. CASE form.newHost = meeting.host
    <3>1. upset' = upset
      BY <1>0, <2>1, <2>5 DEF Typed, TypeOK
    <3> QED BY <1>0, <2>1, <2>3, <2>4, <2>5, <3>1, Elsewhere, RowsStay
  <2>6. CASE form.newHost # meeting.host
    <3>1. \A v \in Workers : Working(v)' => worker'[v] = worker[v]
      BY <2>3 DEF Others
    <3>2. ~upset' => ~upset /\ form.newHost # form.host /\ Alone(w)
      BY <2>1, <2>6
    <3>3. ~upset' => ~AtRest' /\ \A v \in Workers : ~Working(v)
      BY <2>3, <2>4, <3>2 DEF AtRest, Rebuilding, Alone, Working, Rebuilds
    <3>4. \A u \in Users : QuietFor(u)
      BY <1>0, <2>1, RowsStay DEF QuietFor, MembersOf
    <3> QED BY <1>0, <2>1, <3>1, <3>2, <3>3, <3>4, RowsStay, Undisturbed
  <2> QED BY <2>5, <2>6
<1>4. ASSUME NEW w \in Workers, NEW g \in Hosts, Import(w, g) PROVE IInv'
  <2>1. Begin(w, Rebuilds(g, TRUE)) /\ UNCHANGED <<meeting, members, place, issued, excused, upset>>
    BY <1>4 DEF Import, register, history
  <2> QED BY <1>0, <1>b, <2>1, Elsewhere, RowsStay DEF Rebuilds
<1>5. ASSUME NEW w \in Workers, ReadGenerated(w) \/ ReadMembers(w) \/ Rebuild(w) PROVE IInv'
  BY <1>0, <1>5, ReadGeneratedKeeps, ReadMembersKeeps, RebuildKeeps
<1>6. ASSUME NEW w \in Workers, NEW u \in Users, CheckInvitee(w, u) PROVE IInv'
  <2> DEFINE job == [pc |-> "invite", user |-> u]
  <2>1. /\ Begin(w, job) /\ UNCHANGED <<meeting, members, place, issued, excused, upset>>
        /\ ~(job.pc \in {"read", "write"})
    BY <1>6 DEF CheckInvitee, register, history
  <2> HIDE DEF job
  <2> QED BY <1>0, <1>b, <2>1, Elsewhere, RowsStay
<1>7. ASSUME NEW w \in Workers, Invite(w) PROVE IInv'
  <2> DEFINE u == worker[w].user
  <2>1. UNCHANGED <<meeting, members, excused, upset>> /\ Goes(w, Idle) /\ worker[w].pc = "invite"
    BY <1>7 DEF Invite, End, history
  <2>2. worker'[w] = Idle /\ Others(w) /\ ~Working(w)' /\ ~Rebuilding(w)
    BY <1>0, <2>1 DEF Goes, Others, Typed, Working, Rebuilding, Idle
  <2>3. CASE u \in OnRegister
    BY <1>0, <1>7, <2>1, <2>2, <2>3, Elsewhere, RowsStay DEF Invite, register
  <2>4. CASE u \notin OnRegister
    <3>1. /\ place' = [place EXCEPT ![u] = NewPlace(u, "invitee")]
          /\ issued' = [issued EXCEPT ![u] = issued[u] + 1]
          /\ u \in Users
      BY <1>0, <1>7, <2>1, <2>4, JobKinds DEF Invite, Invitations
    <3>2. /\ place'[u] = NewPlace(u, "invitee") /\ issued'[u] = issued[u] + 1
          /\ \A v \in Users \ {u} : place'[v] = place[v] /\ issued'[v] = issued[v]
      BY <1>0, <3>1 DEF Typed, TypeOK
    <3>3. /\ NewPlace(u, "invitee").pk = issued[u] + 1
          /\ NewPlace(u, "invitee").source = "invitee"
      BY DEF NewPlace
    <3>4. \A v \in Users : issued[v] \in Nat
      BY <1>0, PlaceTyped
    <3>5. ASSUME NEW v \in Users
          PROVE  /\ RowStays(v) /\ (v \in OnRegister => v \in OnRegister')
                 /\ v \in Generated' => v \in Generated /\ place'[v].pk = place[v].pk
      <4>1. CASE v = u
        BY <2>4, <3>2, <3>3, <3>4, <4>1 DEF RowStays, Generated
      <4>2. CASE v # u
        BY <3>2, <3>4, <4>2 DEF RowStays, OnRegister, Generated
      <4> QED BY <4>1, <4>2
    <3> QED BY <1>0, <2>1, <2>2, <3>5, Elsewhere
  <2> QED BY <2>3, <2>4
<1>8. ASSUME NEW u \in Users, Remove(u) PROVE IInv'
  <2>1. /\ place' = [place EXCEPT ![u] = NoPlace] /\ excused' = excused \cup {u}
        /\ UNCHANGED <<meeting, members, issued, worker, upset>>
    BY <1>8 DEF Remove
  <2>2. place'[u] = NoPlace /\ \A v \in Users \ {u} : place'[v] = place[v]
    BY <1>0, <2>1 DEF Typed, TypeOK
  <2>3. \A v \in Users : issued[v] <= issued'[v]
    BY <1>0, <2>1, PlaceTyped
  <2>4. \A v \in Users : RowStays(v)
    BY <2>2, <2>3 DEF RowStays, OnRegister
  <2>5. \A v \in Users \ excused' : QuietFor(v)
    BY <2>1, <2>2 DEF QuietFor, OnRegister, Generated, MembersOf
  <2> QED BY <1>0, <2>1, <2>4, <2>5, Undisturbed DEF AtRest, Rebuilding
<1>9. ASSUME NEW w \in Workers, NEW u \in Users, NEW rsvp \in BOOLEAN, NEW mark \in AllMarks,
             LoadRecord(w, u, rsvp, mark)
      PROVE  IInv'
  <2> DEFINE job == [pc |-> IF rsvp THEN "respond" ELSE "record", user |-> u, pk |-> place[u].pk,
                     mark |-> mark]
  <2>1. /\ Begin(w, job) /\ UNCHANGED <<meeting, members, place, issued, excused, upset>>
        /\ ~(job.pc \in {"read", "write"})
    BY <1>9 DEF LoadRecord, register, history
  <2> HIDE DEF job
  <2> QED BY <1>0, <1>b, <2>1, Elsewhere, RowsStay
<1>10. ASSUME NEW w \in Workers, Respond(w) PROVE IInv'
  <2> DEFINE u == worker[w].user
  <2>1. /\ UNCHANGED <<meeting, members, issued, excused, upset>> /\ worker[w].pc = "respond"
        /\ worker[w] \in Answers
    BY <1>0, <1>10, JobKinds DEF Respond, history
  <2>2. Others(w) /\ ~Working(w)' /\ ~Rebuilding(w)
    BY <1>0, <1>10, <2>1 DEF Respond, End, Goes, Others, Typed, Working, Rebuilding, Idle, Answers
  <2>3. CASE Standing(u, worker[w].pk)
    <3> DEFINE row == [place[u] EXCEPT !.rsvp = TRUE]
    <3>1. place' = [place EXCEPT ![u] = row] /\ u \in Users
      BY <1>10, <2>1, <2>3 DEF Respond, Answers
    <3>2. place[u] \in Place /\ u \in OnRegister
      BY <1>0, <2>3, <3>1 DEF Standing, OnRegister, Typed, TypeOK
    <3>3. row \in Place /\ row.pk = place[u].pk /\ row.source = place[u].source
      BY <3>2, ColumnTyped DEF AllMarks
    <3> HIDE DEF row
    <3> QED BY <1>0, <2>1, <2>2, <3>1, <3>2, <3>3, OneColumn, Elsewhere
  <2>4. CASE ~Standing(u, worker[w].pk)
    BY <1>0, <1>10, <2>1, <2>2, <2>4, Elsewhere, RowsStay DEF Respond
  <2> QED BY <2>3, <2>4
<1>11. ASSUME NEW w \in Workers, Record(w) PROVE IInv'
  <2> DEFINE u == worker[w].user
  <2>1. /\ UNCHANGED <<meeting, members, issued, excused, upset>> /\ worker[w].pc = "record"
        /\ worker[w] \in Recordings
    BY <1>0, <1>11, JobKinds DEF Record, history
  <2>2. Others(w) /\ ~Working(w)' /\ ~Rebuilding(w)
    BY <1>0, <1>11, <2>1 DEF Record, End, Goes, Others, Typed, Working, Rebuilding, Idle, Owes
  <2>3. CASE Standing(u, worker[w].pk)
    <3> DEFINE row == [place[u] EXCEPT !.mark = worker[w].mark]
    <3>1. place' = [place EXCEPT ![u] = row] /\ u \in Users /\ worker[w].mark \in AllMarks
      BY <1>11, <2>1, <2>3 DEF Record, Recordings, AllMarks
    <3>2. place[u] \in Place /\ u \in OnRegister
      BY <1>0, <2>3, <3>1 DEF Standing, OnRegister, Typed, TypeOK
    <3>3. row \in Place /\ row.pk = place[u].pk /\ row.source = place[u].source
      BY <3>1, <3>2, ColumnTyped
    <3> HIDE DEF row
    <3> QED BY <1>0, <2>1, <2>2, <3>1, <3>2, <3>3, OneColumn, Elsewhere
  <2>4. CASE ~Standing(u, worker[w].pk)
    BY <1>0, <1>11, <2>1, <2>2, <2>4, Elsewhere, RowsStay DEF Record
  <2> QED BY <2>3, <2>4
<1>12. ASSUME NEW w \in Workers, Log(w) PROVE IInv'
  <2>1. /\ UNCHANGED <<meeting, members, place, issued, excused, upset>> /\ Goes(w, Idle)
        /\ worker[w].pc = "event"
    BY <1>12 DEF Log, End, register, history
  <2>2. Others(w) /\ ~Working(w)' /\ ~Rebuilding(w)
    BY <1>0, <2>1 DEF Goes, Others, Typed, Working, Rebuilding, Idle
  <2> QED BY <1>0, <2>1, <2>2, Elsewhere, RowsStay
<1>13. ASSUME NEW w \in Workers, NEW status \in MinutesStatuses, SetMinutes(w, status) PROVE IInv'
  <2> DEFINE job == IF status = "draft" THEN Idle ELSE Owes(MinutesAre(status))
  <2>1. /\ UNCHANGED <<members, place, issued, excused, upset>> /\ Begin(w, job)
        /\ meeting' = [meeting EXCEPT !.minutes = status] /\ ~(job.pc \in {"read", "write"})
    BY <1>13 DEF SetMinutes, register, history, Idle, Owes
  <2>2. meeting'.host = meeting.host
    BY <1>0, <2>1 DEF Typed, TypeOK
  <2> HIDE DEF job
  <2> QED BY <1>0, <1>b, <2>1, <2>2, Elsewhere, RowsStay
<1>14. ASSUME NEW g \in Groups, NEW u \in Users, ChangeMember(g, u) PROVE IInv'
  <2>1. /\ UNCHANGED <<meeting, place, issued, worker, upset>> /\ excused' = excused \cup {u}
        /\ members' = [members EXCEPT ![g] = IF u \in members[g] THEN members[g] \ {u}
                                             ELSE members[g] \cup {u}]
    BY <1>14 DEF ChangeMember, register
  <2>2. \A h \in Groups, v \in Users \ {u} : v \in members'[h] <=> v \in members[h]
    BY <1>0, <2>1 DEF Typed, TypeOK
  <2>3. \A v \in Users \ excused' : QuietFor(v)
    BY <1>0, <2>1, <2>2, RowsStay DEF QuietFor, MembersOf, Hosts
  <2> QED BY <1>0, <2>1, <2>3, RowsStay, Undisturbed DEF AtRest, Rebuilding
<1>15. ASSUME NEW g \in Hosts, AdminSetHost(g) PROVE IInv'
  <2>1. UNCHANGED <<place, issued, worker>> /\ upset'
    BY <1>15 DEF AdminSetHost, register
  <2> QED BY <1>0, <2>1, RowsStay, Undisturbed
<1>16. ASSUME NEW w \in Workers, Die(w) PROVE IInv'
  <2>1. /\ UNCHANGED <<meeting, members, place, issued, excused>> /\ Goes(w, Idle)
        /\ upset' = (upset \/ Rebuilding(w))
    BY <1>16 DEF Die, End, Upset, register
  <2>2. Others(w) /\ ~Working(w)'
    BY <1>0, <2>1 DEF Goes, Others, Typed, Working, Idle
  <2>3. CASE Rebuilding(w)
    <3>1. upset' /\ \A v \in Workers : Working(v)' => worker'[v] = worker[v]
      BY <2>1, <2>2, <2>3 DEF Others
    <3> QED BY <1>0, <2>1, <3>1, RowsStay, Undisturbed
  <2>4. CASE ~Rebuilding(w)
    <3>1. upset' = upset
      BY <1>0, <2>1, <2>4 DEF Typed, TypeOK
    <3> QED BY <1>0, <2>1, <2>2, <2>4, <3>1, RowsStay, Elsewhere
  <2> QED BY <2>3, <2>4
<1>17. CASE UNCHANGED vars
  <2>1. UNCHANGED <<meeting, members, place, issued, worker, excused, upset>>
    BY <1>17 DEF vars, register, history
  <2>2. \A u \in Users : QuietFor(u)
    BY <1>0, <2>1, RowsStay DEF QuietFor, MembersOf
  <2> QED BY <1>0, <2>1, <2>2, RowsStay, Undisturbed DEF AtRest, Rebuilding
<1> QED
  BY <1>1, <1>2, <1>3, <1>4, <1>5, <1>6, <1>7, <1>8, <1>9, <1>10, <1>11, <1>12, <1>13, <1>14, <1>15,
     <1>16, <1>17 DEF Next, Hosts, AllMarks

(* Once a rebuild is over the generated part of the register is the        *)
(* hosting group's members, but for whom a membership or the panel moved   *)
(* meanwhile (Meeting.regenerate_attendance).                              *)
THEOREM RegisterIsInStep == Spec => []FollowsHost
<1>1. IInv => FollowsHost
  BY DEF IInv, HostInv
<1> QED BY <1>1, IInvInit, IInvNext, PTL DEF Spec

(* The write of a rebuild touches no invitee's row, and of no row that     *)
(* survives it a column, whoever was invited, removed or recorded between  *)
(* its reads and its write (Meeting.regenerate_attendance).                *)
THEOREM OthersAreUntouched == Spec => InviteesUntouched
<1> DEFINE Good == \A w \in Workers : worker[w].pc = "write" /\ worker'[w].pc # "write" =>
                     \A u \in OnRegister : place[u].source = "invitee" \/ place'[u] # NoPlace
                                             => place'[u] = place[u]
<1>1. ASSUME IInv, [Next]_vars PROVE Good
  <2> SUFFICES ASSUME NEW w \in Workers, worker[w].pc = "write", worker'[w].pc # "write",
                      NEW u \in OnRegister, place[u].source = "invitee" \/ place'[u] # NoPlace
               PROVE  place'[u] = place[u]
    OBVIOUS
  <2>1. Typed /\ KeyInv /\ u \in Users
    BY <1>1 DEF IInv, OnRegister
  <2>2. Rebuild(w) \/ UNCHANGED place
    <3>1. ASSUME NEW v \in Workers, Others(v), worker[v].pc # "write" PROVE FALSE
      BY <3>1 DEF Others
    <3>2. ASSUME NEW v \in Workers, NEW job, Begin(v, job) PROVE FALSE
      BY <2>1, <3>1, <3>2 DEF Begin, Goes, Others, Typed
    <3>3. ASSUME NEW v \in Workers, SaveForm(v) \/ ReadGenerated(v) \/ ReadMembers(v) \/ Invite(v)
                                      \/ Respond(v) \/ Record(v) \/ Log(v)
          PROVE FALSE
      <4>1. worker[v].pc # "write" /\ Others(v)
        BY <2>1, <3>3 DEF SaveForm, ReadGenerated, ReadMembers, Invite, Respond, Record, Log, Goes, End,
                     Others, Typed
      <4> QED BY <3>1, <4>1
    <3>4. ASSUME NEW v \in Workers, Rebuild(v) PROVE v = w
      <4>1. Others(v)
        BY <2>1, <3>4 DEF Rebuild, End, Goes, Others, Typed
      <4> QED BY <4>1 DEF Others
    <3> QED BY <1>1, <3>2, <3>3, <3>4
         DEF Next, Regenerate, LoadForm, Import, CheckInvitee, LoadRecord, SetMinutes, Remove,
             ChangeMember, AdminSetHost, Die, vars, register
  <2>3. CASE Rebuild(w)
    <3>1. CASE worker[w].joiners \cap OnRegister # {}
      BY <2>3, <3>1 DEF Rebuild, register
    <3>2. CASE worker[w].joiners \cap OnRegister = {}
      <4>1. place[u].pk \in Nat /\ worker[w].pc \in {"read", "write"} /\ Standing(u, place[u].pk)
        BY <2>1, PlaceTyped DEF Standing
      <4>2. u \in Leavers(w) => place[u].source = "host_group"
        BY <2>1, <4>1 DEF KeyInv, GeneratedKey, Working, Leavers
      <4>3. u \notin worker[w].joiners
        BY <3>2
      <4>4. u \in Leavers(w) => place'[u] = NoPlace
        BY <2>1, <2>3, <3>2, Rebuilt
      <4>5. u \notin Leavers(w)
        BY <4>2, <4>4
      <4> QED BY <2>1, <2>3, <3>2, <4>3, <4>5, Rebuilt
    <3> QED BY <3>1, <3>2
  <2> QED BY <2>2, <2>3
<1>2. IInv /\ [Next]_vars => [Good]_vars
  BY <1>1
<1> QED BY <1>2, IInvInit, IInvNext, PTL DEF Spec, InviteesUntouched

=============================================================================
