------------------------- MODULE Attachments_proofs -------------------------
(***************************************************************************)
(* Proofs about Attachments, for any number of workers, versions, requests *)
(* and faults.                                                             *)
(***************************************************************************)
EXTENDS Attachments, FiniteSetTheorems, WellFoundedInduction, TLAPS

-----------------------------------------------------------------------------
(* The greatest of a set of versions *)

LEMMA VersionsAre == Versions \subseteq Nat /\ 0 \notin Versions /\ 1 \in Versions
BY BoundAssumption DEF Versions

LEMMA NatOrder == \E R : IsWellFoundedOn(R, Nat) /\ \A n, m \in Nat : m < n => <<m, n>> \in R
<1>1. IsWellFoundedOn(OpToRel(<, Nat), Nat)
  BY NatLessThanWellFounded
<1>2. \A n, m \in Nat : m < n => <<m, n>> \in OpToRel(<, Nat)
  BY DEF OpToRel
<1> QED BY <1>1, <1>2

LEMMA MinIs ==
  ASSUME NEW S \in SUBSET Nat, S # {}
  PROVE  Min(S) \in S /\ \A v \in S : Min(S) <= v
<1>1. PICK R : IsWellFoundedOn(R, Nat) /\ \A n, m \in Nat : m < n => <<m, n>> \in R
  BY NatOrder
<1>2. PICK n \in S : \A m \in S : ~(<<m, n>> \in R)
  BY <1>1, WFMin
<1>3. ASSUME NEW m \in S PROVE n <= m
  <2>1. n \in Nat /\ m \in Nat
    OBVIOUS
  <2>2. ~(m < n)
    BY <1>1, <1>2, <2>1, Zenon
  <2> QED BY <2>1, <2>2
<1> QED BY <1>3 DEF Min

LEMMA MaxIs ==
  ASSUME NEW S \in SUBSET Versions, S # {}
  PROVE  Max(S) \in S /\ \A v \in S : v <= Max(S)
<1> DEFINE T == {MaxVersions - v : v \in S}
<1>1. T \in SUBSET Nat /\ T # {}
  BY BoundAssumption DEF Versions
<1>2. Min(T) \in T /\ \A m \in T : Min(T) <= m
  <2> HIDE DEF T
  <2> QED BY <1>1, MinIs
<1>3. PICK x \in S : Min(T) = MaxVersions - x
  BY <1>2
<1>4. ASSUME NEW v \in S PROVE x >= v
  <2>1. MaxVersions - x <= MaxVersions - v
    BY <1>2, <1>3
  <2> QED BY <2>1, BoundAssumption DEF Versions
<1>5. Max(S) \in S /\ \A v \in S : Max(S) >= v
  BY <1>4 DEF Max
<1>6. \A v \in S : v \in Nat
  BY VersionsAre
<1> QED BY <1>5, <1>6

LEMMA MaxOf ==
  ASSUME NEW S \in SUBSET Versions, NEW m \in S, \A v \in S : v <= m PROVE Max(S) = m
<1>1. Max(S) \in S /\ \A v \in S : v <= Max(S)
  BY MaxIs
<1>2. Max(S) <= m /\ m <= Max(S) /\ m \in Nat /\ Max(S) \in Nat
  BY <1>1, VersionsAre
<1> QED BY <1>2

(* The newest version SharePoint has never goes back: an old one is        *)
(* trimmed.                                                                *)
LEMMA LatestIs ==
  ASSUME reported \subseteq Versions
  PROVE  /\ Latest \in 0..MaxVersions /\ \A v \in reported : v <= Latest
         /\ Latest # 0 => Latest \in reported /\ Latest \in Versions
         /\ reported # {} => Latest # 0
<1>1. CASE reported = {}
  BY <1>1, BoundAssumption DEF Latest
<1>2. CASE reported # {}
  <2>1. Max(reported) \in reported /\ \A v \in reported : v <= Max(reported)
    BY <1>2, MaxIs
  <2>2. Latest = Max(reported) /\ Latest \in Versions
    BY <1>2, <2>1 DEF Latest
  <2> QED BY <1>2, <2>1, <2>2, BoundAssumption DEF Versions
<1> QED BY <1>1, <1>2

LEMMA Saved ==
  ASSUME reported \subseteq Versions, Latest < MaxVersions, reported' = reported \cup {Latest + 1}
  PROVE  reported' \subseteq Versions /\ Latest' = Latest + 1 /\ Latest + 1 \in Versions
<1>1. Latest + 1 \in Versions /\ Latest \in Nat
  BY LatestIs, BoundAssumption DEF Versions
<1>2. reported' \subseteq Versions /\ reported' # {} /\ Latest + 1 \in reported'
  BY <1>1
<1>3. \A v \in reported' : v <= Latest + 1
  BY <1>1, LatestIs, VersionsAre
<1>4. Max(reported') = Latest + 1
  BY <1>2, <1>3, MaxOf
<1> QED BY <1>1, <1>2, <1>4 DEF Latest

LEMMA Trimmed ==
  ASSUME reported \subseteq Versions, Cardinality(reported) > 1,
         reported' = reported \ {Min(reported)}
  PROVE  reported' \subseteq Versions /\ Latest' = Latest
<1>1. reported # {}
  BY FS_EmptySet
<1>2. Latest = Max(reported) /\ Latest \in reported /\ \A v \in reported : v <= Latest
  BY <1>1, MaxIs DEF Latest
<1>3. Min(reported) \in reported /\ \A v \in reported : Min(reported) <= v
  BY <1>1, VersionsAre, MinIs
<1>4. Min(reported) # Latest
  <2>1. SUFFICES ASSUME Min(reported) = Latest PROVE FALSE
    OBVIOUS
  <2>2. \A v \in reported : v = Latest
    BY <1>2, <1>3, <2>1, VersionsAre
  <2>3. reported = {Latest}
    BY <1>2, <2>2
  <2> QED BY <2>3, FS_Singleton
<1>5. Max(reported') = Latest /\ reported' # {}
  BY <1>2, <1>4, MaxOf
<1> QED BY <1>5 DEF Latest

-----------------------------------------------------------------------------
(* The memory of the workers: which request has which columns, and that    *)
(* what it remembers of versions and rows is not from the future.          *)

Keys == Nat \ {0}

Uploads == [pc : {"find", "store"}, uploaded : BOOLEAN, version : Versions]

Revisions == [pc : {"refresh"}, pk : Keys, version : Versions]

Detachments == [pc : {"detach"}, pk : Keys]

Syncs == [pc : {"mirror", "clear", "set"}, pk : Keys, todo : SUBSET Versions, newest : Versions,
          flagged : BOOLEAN]

Kinds == {"attached", "version", "detached"}

Owing == [pc : {"event"}, fact : Kinds \X Keys]

Jobs == {Idle} \cup Uploads \cup Revisions \cup Detachments \cup Syncs \cup Owing

Sound(job, given, latest) ==
  /\ job.pc \in {"find", "store", "refresh"} => job.version <= latest
  /\ job.pc \in {"refresh", "detach", "mirror", "clear", "set"} => job.pk <= given
  /\ job.pc \in {"mirror", "clear", "set"} =>
       job.newest <= latest /\ \A v \in job.todo : v <= job.newest
  /\ job.pc = "mirror" => job.todo # {}
  /\ job.pc = "event" => job.fact \in Kinds \X (1..given)

Typed == /\ TypeOK
         /\ worker \in [Workers -> Jobs]
         /\ \A w \in Workers : Sound(worker[w], issued, Latest)
         /\ \A v \in mirror : v <= Latest

LEMMA JobKinds ==
  ASSUME NEW job \in Jobs
  PROVE  /\ job.pc = "idle" => job = Idle
         /\ job.pc \in {"find", "store"} => job \in Uploads
         /\ job.pc = "refresh" => job \in Revisions
         /\ job.pc = "detach" => job \in Detachments
         /\ job.pc \in {"mirror", "clear", "set"} => job \in Syncs
         /\ job.pc = "event" => job \in Owing
BY DEF Jobs, Idle, Uploads, Revisions, Detachments, Syncs, Owing

LEMMA IdleTyped == Idle \in Jobs /\ Idle.pc = "idle" /\ \A n, m : Sound(Idle, n, m)
BY DEF Jobs, Idle, Sound

Others(w) == \A v \in Workers \ {w} : worker'[v] = worker[v]

LEMMA GoesTyped ==
  ASSUME Typed, NEW w \in Workers, NEW job \in Jobs, Goes(w, job)
  PROVE  worker' \in [Workers -> Jobs] /\ worker'[w] = job /\ Others(w)
BY DEF Typed, Goes, Others

LEMMA BeginTyped ==
  ASSUME Typed, NEW w \in Workers, NEW job, Begin(w, job)
  PROVE  worker[w].pc = "idle" /\ Goes(w, job) /\ faults' = faults /\ requests' \in 0..MaxRequests
BY BoundAssumption DEF Begin, Typed, TypeOK

(* Nothing that is remembered comes to be from the future.                 *)
Onward == /\ reported' \subseteq Versions
          /\ issued' \in Nat /\ issued <= issued'
          /\ Latest' \in Nat /\ Latest <= Latest'

LEMMA OnwardSame ==
  ASSUME Typed, UNCHANGED <<reported, issued>> PROVE Onward /\ Latest' = Latest /\ Latest \in Nat
BY LatestIs DEF Typed, TypeOK, Onward, Latest

Workforce == worker' \in [Workers -> Jobs] /\ \A v \in Workers : Sound(worker'[v], issued', Latest')

LEMMA StaysSound ==
  ASSUME Typed, Onward, NEW v \in Workers PROVE Sound(worker[v], issued', Latest')
<1>1. /\ worker[v] \in Jobs /\ Sound(worker[v], issued, Latest)
      /\ issued \in Nat /\ issued' \in Nat /\ issued <= issued'
      /\ Latest \in Nat /\ Latest' \in Nat /\ Latest <= Latest'
  BY LatestIs DEF Typed, TypeOK, Onward
<1>2. /\ worker[v].pc \in {"find", "store"} => worker[v] \in Uploads
      /\ worker[v].pc = "refresh" => worker[v] \in Revisions
      /\ worker[v].pc = "detach" => worker[v] \in Detachments
      /\ worker[v].pc \in {"mirror", "clear", "set"} => worker[v] \in Syncs
  BY <1>1, JobKinds
<1>3. Versions \subseteq Nat /\ 1..issued \subseteq 1..issued'
  BY <1>1, VersionsAre
<1> HIDE DEF Latest
<1>4. worker[v].pc \in {"find", "store", "refresh"} => worker[v].version <= Latest'
  <2>1. worker[v].pc \in {"find", "store", "refresh"} => worker[v].version \in Nat
    BY <1>2, <1>3 DEF Uploads, Revisions
  <2> QED BY <1>1, <2>1 DEF Sound
<1>5. worker[v].pc \in {"refresh", "detach", "mirror", "clear", "set"} => worker[v].pk <= issued'
  <2>1. worker[v].pc \in {"refresh", "detach", "mirror", "clear", "set"} => worker[v].pk \in Nat
    BY <1>2 DEF Revisions, Detachments, Syncs, Keys
  <2> QED BY <1>1, <2>1 DEF Sound
<1>6. worker[v].pc \in {"mirror", "clear", "set"} => worker[v].newest <= Latest'
  <2>1. worker[v].pc \in {"mirror", "clear", "set"} => worker[v].newest \in Nat
    BY <1>2, <1>3 DEF Syncs
  <2> QED BY <1>1, <2>1 DEF Sound
<1>7. worker[v].pc = "event" => worker[v].fact \in Kinds \X (1..issued')
  BY <1>1, <1>3 DEF Sound
<1> QED BY <1>1, <1>4, <1>5, <1>6, <1>7 DEF Sound

LEMMA Works ==
  ASSUME Typed, Onward, NEW w \in Workers, NEW job \in Jobs, Goes(w, job),
         Sound(job, issued', Latest')
  PROVE  Workforce
BY GoesTyped, StaysSound DEF Workforce, Others

LEMMA Rests == ASSUME Typed, Onward, UNCHANGED worker PROVE Workforce
BY StaysSound DEF Workforce, Typed

(* The request that ends, and the one that goes on to owe an event.        *)
LEMMA Ends == ASSUME Typed, Onward, NEW w \in Workers, End(w) PROVE Workforce
BY Works, IdleTyped DEF End

LEMMA Owes ==
  ASSUME Typed, Onward, NEW w \in Workers, NEW kind \in Kinds, NEW pk \in 1..issued', Owe(w, kind, pk)
  PROVE  Workforce /\ Others(w) /\ worker'[w].pc = "event" /\ worker'[w].fact = <<kind, pk>>
<1> DEFINE job == [pc |-> "event", fact |-> <<kind, pk>>]
<1>1. job \in Jobs /\ Sound(job, issued', Latest') /\ job.pc = "event" /\ job.fact = <<kind, pk>>
  BY DEF Jobs, Owing, Sound, Keys, Onward
<1>2. Goes(w, job)
  BY DEF Owe
<1> HIDE DEF job
<1> QED BY <1>1, <1>2, Works, GoesTyped

RowTyped == /\ attachment' \in Row \cup {NoRow}
            /\ attachment' # NoRow => attachment'.pk \in 1..issued' /\ attachment'.held <= Latest'

MirrorTyped == /\ current' \subseteq mirror' /\ mirror' \subseteq Versions
               /\ attachment' = NoRow => mirror' = {}
               /\ \A v \in mirror' : v <= Latest'

TrailTyped == events' \cup lost' \subseteq Kinds \X (1..issued')

Counts == requests' \in 0..MaxRequests /\ faults' \in 0..MaxFaults /\ crossed' \in BOOLEAN

LEMMA Pieces ==
  ASSUME Onward, Workforce, RowTyped, MirrorTyped, TrailTyped, Counts PROVE Typed'
<1>1. Facts' = Kinds \X (1..issued')
  BY DEF Facts, Kinds
<1>2. Owed' \subseteq Kinds \X (1..issued')
  BY DEF Owed, Workforce, Sound
<1>3. ASSUME NEW w \in Workers, worker'[w].pc \in {"refresh", "detach", "mirror"}
      PROVE  worker'[w].pk \in 1..issued'
  <2>1. worker'[w] \in Jobs /\ worker'[w].pk <= issued' /\ issued' \in Nat
    BY <1>3 DEF Workforce, Sound, Onward
  <2>2. worker'[w].pk \in Keys
    BY <1>3, <2>1, JobKinds DEF Revisions, Detachments, Syncs
  <2> QED BY <2>1, <2>2 DEF Keys
<1> QED BY <1>1, <1>2, <1>3
     DEF Onward, Workforce, RowTyped, MirrorTyped, TrailTyped, Counts, Typed, TypeOK

LEMMA RowKept == ASSUME Typed, Onward, UNCHANGED attachment PROVE RowTyped
<1>1. /\ attachment \in Row \cup {NoRow} /\ issued \in Nat /\ Latest \in Nat
      /\ attachment # NoRow => attachment.pk \in 1..issued /\ attachment.held <= Latest
  BY LatestIs DEF Typed, TypeOK
<1>2. attachment # NoRow => attachment.held \in Nat
  BY <1>1, VersionsAre DEF Row
<1> QED BY <1>1, <1>2 DEF Onward, RowTyped

LEMMA MirrorKept ==
  ASSUME Typed, Onward, UNCHANGED <<mirror, current>>, attachment' = NoRow => attachment = NoRow
  PROVE  MirrorTyped
<1>1. \A v \in mirror : v \in Nat /\ v <= Latest /\ Latest \in Nat
  BY LatestIs, VersionsAre DEF Typed, TypeOK
<1> QED BY <1>1 DEF Typed, TypeOK, Onward, MirrorTyped

LEMMA TrailKept ==
  ASSUME Typed, Onward, events' \cup lost' \subseteq events \cup lost \cup Owed PROVE TrailTyped
<1>1. events \cup lost \cup Owed \subseteq Kinds \X (1..issued)
  BY DEF Typed, TypeOK, Facts, Kinds
<1>2. 1..issued \subseteq 1..issued'
  BY DEF Typed, TypeOK, Onward
<1> QED BY <1>1, <1>2 DEF TrailTyped

LEMMA TypedInit == Init => Typed
<1> SUFFICES ASSUME Init PROVE Typed
  OBVIOUS
<1>1. reported \subseteq Versions /\ 0 \in 0..MaxRequests /\ 0 \in 0..MaxFaults
  BY VersionsAre, BoundAssumption DEF Init
<1>2. worker \in [Workers -> Jobs] /\ \A w \in Workers : worker[w] = Idle
  BY IdleTyped DEF Init
<1>3. Owed = {}
  BY <1>2, IdleTyped DEF Owed
<1>4. \A w \in Workers : worker[w].pc = "idle" /\ Sound(worker[w], issued, Latest)
  BY <1>2, IdleTyped
<1> QED BY <1>1, <1>2, <1>3, <1>4 DEF Init, Typed, TypeOK

LEMMA TypedNext == Typed /\ [Next]_vars => Typed'
<1> SUFFICES ASSUME Typed, [Next]_vars PROVE Typed'
  OBVIOUS
<1>0. /\ reported \subseteq Versions /\ issued \in Nat /\ Latest \in Nat /\ crossed \in BOOLEAN
      /\ requests \in 0..MaxRequests /\ faults \in 0..MaxFaults
      /\ \A w \in Workers : worker[w] \in Jobs
      /\ attachment \in Row \cup {NoRow}
      /\ attachment # NoRow => attachment.pk \in 1..issued
  BY LatestIs DEF Typed, TypeOK
<1>1. CASE RemoteSave
  <2>1. Onward
    BY <1>0, <1>1, Saved DEF RemoteSave, Onward, local
  <2> QED BY <1>0, <1>1, <2>1, Rests, RowKept, MirrorKept, TrailKept, Pieces
       DEF RemoteSave, local, versions, history, Counts
<1>2. CASE RemoteTrim
  <2>1. Onward
    BY <1>0, <1>2, Trimmed DEF RemoteTrim, Onward, local
  <2> QED BY <1>0, <1>2, <2>1, Rests, RowKept, MirrorKept, TrailKept, Pieces
       DEF RemoteTrim, local, versions, history, Counts
<1>3. ASSUME NEW w \in Workers, Upload(w) PROVE Typed'
  <2> DEFINE job == [pc |-> "find", uploaded |-> TRUE, version |-> Latest + 1]
  <2>1. /\ Begin(w, job) /\ UNCHANGED <<attachment, issued, mirror, current, events, lost, crossed>>
        /\ Latest < MaxVersions /\ reported' = reported \cup {Latest + 1}
    BY <1>3 DEF Upload, local, versions, history
  <2>2. Onward /\ Latest' = Latest + 1 /\ Latest + 1 \in Versions
    BY <1>0, <2>1, Saved DEF Onward
  <2>3. job \in Jobs /\ Sound(job, issued', Latest')
    BY <1>0, <2>2 DEF Jobs, Uploads, Sound
  <2> HIDE DEF job
  <2> QED BY <1>0, <2>1, <2>2, <2>3, BeginTyped, Works, RowKept, MirrorKept, TrailKept, Pieces DEF Counts
<1>4. ASSUME NEW w \in Workers, UploadLost(w) PROVE Typed'
  <2>1. /\ End(w) /\ UNCHANGED <<reported, attachment, issued, mirror, current, events, requests, lost, crossed>>
        /\ faults' \in 0..MaxFaults
    BY <1>0, <1>4, BoundAssumption DEF UploadLost, local, versions, history
  <2> QED BY <1>0, <2>1, OnwardSame, Ends, RowKept, MirrorKept, TrailKept, Pieces DEF Counts
<1>5. ASSUME NEW w \in Workers, Link(w) PROVE Typed'
  <2> DEFINE job == [pc |-> "store", uploaded |-> FALSE, version |-> Latest]
  <2>1. /\ Begin(w, job) /\ UNCHANGED <<reported, attachment, issued, mirror, current, events, lost, crossed>>
        /\ Latest > 0
    BY <1>5 DEF Link, local, versions, history
  <2>2. Onward /\ Latest' = Latest /\ Latest \in Versions
    BY <1>0, <2>1, OnwardSame, LatestIs
  <2>3. job \in Jobs /\ Sound(job, issued', Latest')
    BY <1>0, <2>2 DEF Jobs, Uploads, Sound
  <2> HIDE DEF job
  <2> QED BY <1>0, <2>1, <2>2, <2>3, BeginTyped, Works, RowKept, MirrorKept, TrailKept, Pieces DEF Counts
<1>6. ASSUME NEW w \in Workers, Find(w) PROVE Typed'
  <2> DEFINE job == IF attachment = NoRow THEN [worker[w] EXCEPT !.pc = "store"]
                    ELSE [pc |-> "refresh", pk |-> attachment.pk, version |-> worker[w].version]
  <2>1. /\ Goes(w, job) /\ worker[w].pc = "find"
        /\ UNCHANGED <<reported, attachment, issued, mirror, current, events, requests, faults, lost, crossed>>
    BY <1>6 DEF Find, local, versions, history
  <2>2. worker[w] \in Uploads /\ worker[w].version <= Latest
    BY <1>0, <2>1, JobKinds DEF Typed, Sound
  <2>3. Onward /\ Latest' = Latest
    BY <2>1, OnwardSame
  <2>4. job \in Jobs /\ Sound(job, issued', Latest')
    <3>1. CASE attachment = NoRow
      BY <2>2, <2>3, <3>1 DEF Jobs, Uploads, Sound
    <3>2. CASE attachment # NoRow
      BY <1>0, <2>1, <2>2, <2>3, <3>2 DEF Jobs, Uploads, Revisions, Sound, Row, Keys
    <3> QED BY <3>1, <3>2
  <2> HIDE DEF job
  <2> QED BY <1>0, <2>1, <2>3, <2>4, Works, RowKept, MirrorKept, TrailKept, Pieces DEF Counts
<1>7. ASSUME NEW w \in Workers, Store(w) PROVE Typed'
  <2>1. /\ UNCHANGED <<reported, mirror, current, events, requests, faults, lost, crossed>>
        /\ worker[w].pc = "store"
    BY <1>7 DEF Store, versions, history
  <2>2. worker[w] \in Uploads /\ worker[w].version <= Latest
    BY <1>0, <2>1, JobKinds DEF Typed, Sound
  <2>3. Latest' = Latest
    BY <2>1 DEF Latest
  <2>4. CASE attachment = NoRow
    <3>1. /\ attachment' = [pk |-> issued + 1, held |-> worker[w].version] /\ issued' = issued + 1
          /\ Owe(w, "attached", issued + 1)
      BY <1>7, <2>4 DEF Store
    <3>2. Onward /\ issued + 1 \in 1..issued'
      BY <1>0, <2>1, <2>3, <3>1 DEF Onward
    <3>3. RowTyped
      BY <1>0, <2>2, <2>3, <3>1 DEF RowTyped, Row, Uploads
    <3>4. MirrorTyped
      BY <2>1, <2>3, <2>4 DEF MirrorTyped, Typed, TypeOK
    <3>5. Workforce
      BY <3>1, <3>2, Owes DEF Kinds
    <3> QED BY <1>0, <2>1, <3>2, <3>3, <3>4, <3>5, TrailKept, Pieces DEF Counts
  <2>5. CASE attachment # NoRow
    <3>1. End(w) /\ UNCHANGED <<attachment, issued>>
      BY <1>7, <2>5 DEF Store, local
    <3> QED BY <1>0, <2>1, <3>1, OnwardSame, Ends, RowKept, MirrorKept, TrailKept, Pieces DEF Counts
  <2> QED BY <2>4, <2>5
<1>8. ASSUME NEW w \in Workers, Refresh(w) PROVE Typed'
  <2> DEFINE pk == worker[w].pk
  <2>1. /\ UNCHANGED <<reported, issued, mirror, current, events, requests, faults, lost, crossed>>
        /\ worker[w].pc = "refresh"
    BY <1>8 DEF Refresh, versions, history
  <2>2. worker[w] \in Revisions /\ worker[w].version <= Latest /\ pk \in 1..issued
    BY <1>0, <2>1, JobKinds DEF Typed, Sound, Revisions, Keys
  <2>3. Onward /\ Latest' = Latest
    BY <2>1, OnwardSame
  <2>4. CASE attachment = NoRow \/ Attached(pk)
    <3>1. attachment' = [pk |-> pk, held |-> worker[w].version] /\ Owe(w, "version", pk)
      BY <1>8, <2>4 DEF Refresh
    <3>2. RowTyped
      BY <1>0, <2>1, <2>2, <2>3, <3>1 DEF RowTyped, Row, Revisions, Keys
    <3>3. attachment' \in Row
      BY <2>2, <3>1 DEF Row, Revisions
    <3>4. MirrorTyped
      BY <2>1, <2>3, <3>3, MirrorKept, NoRowAssumption
    <3>5. Workforce
      BY <2>1, <2>2, <2>3, <3>1, Owes DEF Kinds
    <3> QED BY <1>0, <2>1, <2>3, <3>2, <3>4, <3>5, TrailKept, Pieces DEF Counts
  <2>5. CASE ~(attachment = NoRow \/ Attached(pk))
    <3>1. End(w) /\ UNCHANGED attachment
      BY <1>8, <2>5 DEF Refresh
    <3> QED BY <1>0, <2>1, <2>3, <3>1, Ends, RowKept, MirrorKept, TrailKept, Pieces DEF Counts
  <2> QED BY <2>4, <2>5
<1>9. ASSUME NEW w \in Workers, LoadDetach(w) PROVE Typed'
  <2> DEFINE job == [pc |-> "detach", pk |-> attachment.pk]
  <2>1. /\ Begin(w, job) /\ UNCHANGED <<reported, attachment, issued, mirror, current, events, lost, crossed>>
        /\ attachment # NoRow
    BY <1>9 DEF LoadDetach, local, versions, history
  <2>2. job \in Jobs /\ Sound(job, issued', Latest')
    BY <1>0, <2>1 DEF Jobs, Detachments, Sound, Keys
  <2> HIDE DEF job
  <2> QED BY <1>0, <2>1, <2>2, OnwardSame, BeginTyped, Works, RowKept, MirrorKept, TrailKept, Pieces DEF Counts
<1>10. ASSUME NEW w \in Workers, Detach(w) PROVE Typed'
  <2> DEFINE pk == worker[w].pk
  <2>1. /\ UNCHANGED <<reported, issued, events, requests, faults, lost>> /\ Owe(w, "detached", pk)
        /\ worker[w].pc = "detach" /\ crossed' \in BOOLEAN
    BY <1>0, <1>10 DEF Detach
  <2>2. pk \in 1..issued /\ Onward
    BY <1>0, <2>1, JobKinds, OnwardSame DEF Typed, Sound, Detachments, Keys
  <2>3. Workforce
    BY <2>1, <2>2, Owes DEF Kinds
  <2>4. RowTyped /\ MirrorTyped
    <3>1. CASE Attached(pk)
      <4>1. attachment' = NoRow /\ mirror' = {} /\ current' = {}
        BY <1>10, <3>1 DEF Detach
      <4> QED BY <4>1 DEF RowTyped, MirrorTyped
    <3>2. CASE ~Attached(pk)
      <4>1. UNCHANGED <<attachment, mirror, current>>
        BY <1>10, <3>2 DEF Detach, versions
      <4> QED BY <2>2, <4>1, RowKept, MirrorKept
    <3> QED BY <3>1, <3>2
  <2> QED BY <1>0, <2>1, <2>2, <2>3, <2>4, TrailKept, Pieces DEF Counts
<1>11. ASSUME NEW w \in Workers, Record(w) PROVE Typed'
  <2>1. /\ UNCHANGED <<reported, attachment, issued, mirror, current, requests, faults, lost, crossed>>
        /\ End(w) /\ worker[w].pc = "event" /\ events' = events \cup {worker[w].fact}
    BY <1>11 DEF Record, local, versions, history
  <2>2. worker[w].fact \in Owed
    BY <2>1 DEF Owed
  <2> QED BY <1>0, <2>1, <2>2, OnwardSame, Ends, RowKept, MirrorKept, TrailKept, Pieces DEF Counts
<1>12. ASSUME NEW w \in Workers, Fetch(w) PROVE Typed'
  <2> DEFINE job == Sync("mirror", attachment.pk, reported, Latest, FALSE)
  <2>1. /\ Begin(w, job) /\ UNCHANGED <<reported, attachment, issued, mirror, current, events, lost>>
        /\ attachment # NoRow /\ crossed' \in BOOLEAN
    BY <1>12 DEF Fetch, local, versions
  <2>2. Onward /\ Latest' = Latest
    BY <2>1, OnwardSame
  <2>3. reported # {} /\ Latest \in Versions /\ \A v \in reported : v <= Latest
    <3>1. attachment.held \in Nat \ {0} /\ attachment.held <= Latest
      BY <1>0, <2>1, VersionsAre DEF Row, Typed, TypeOK
    <3>2. Latest # 0
      BY <3>1
    <3> QED BY <1>0, <3>2, LatestIs
  <2>4. job \in Jobs /\ Sound(job, issued', Latest')
    BY <1>0, <2>1, <2>2, <2>3 DEF Sync, Jobs, Syncs, Sound, Keys
  <2> HIDE DEF job
  <2> QED BY <1>0, <2>1, <2>2, <2>4, BeginTyped, Works, RowKept, MirrorKept, TrailKept, Pieces DEF Counts
<1>13. ASSUME NEW w \in Workers, Upsert(w) PROVE Typed'
  <2> DEFINE old == worker[w]
             v == Max(old.todo)
             job == Sync(IF old.todo = {v} THEN "clear" ELSE "mirror", old.pk, old.todo \ {v},
                         old.newest, IF v = old.newest THEN v \in current ELSE old.flagged)
  <2>1. /\ UNCHANGED <<reported, attachment, issued, current, events, requests, faults, lost>>
        /\ old.pc = "mirror"
    BY <1>13 DEF Upsert, local
  <2>2. Onward /\ Latest' = Latest
    BY <2>1, OnwardSame
  <2>3. old \in Syncs /\ Sound(old, issued, Latest) /\ old.todo # {}
    BY <1>0, <2>1, JobKinds DEF Typed, Sound
  <2>4. v \in old.todo /\ v \in Versions /\ v <= Latest
    <3>1. old.todo \in SUBSET Versions /\ old.newest \in Versions /\ old.newest <= Latest
          /\ \A x \in old.todo : x <= old.newest
      BY <2>1, <2>3 DEF Syncs, Sound
    <3>2. v \in old.todo
      BY <2>3, <3>1, MaxIs
    <3>3. v \in Nat /\ old.newest \in Nat /\ v \in Versions /\ v <= old.newest
      BY <3>1, <3>2, VersionsAre
    <3> QED BY <1>0, <3>1, <3>2, <3>3
  <2>5. CASE Attached(old.pk)
    <3>1. mirror' = mirror \cup {v} /\ Goes(w, job) /\ UNCHANGED crossed
      BY <1>13, <2>5 DEF Upsert
    <3>2. job \in Jobs /\ Sound(job, issued', Latest')
      <4>1. /\ old.pk \in Keys /\ old.newest \in Versions /\ old.flagged \in BOOLEAN
            /\ old.todo \subseteq Versions
        BY <2>3 DEF Syncs
      <4>2. old.todo # {v} => old.todo \ {v} # {}
        BY <2>3
      <4>3. /\ old.pk <= issued' /\ old.newest <= Latest'
            /\ \A x \in old.todo \ {v} : x <= old.newest
        BY <2>1, <2>2, <2>3 DEF Sound
      <4> HIDE DEF v, old
      <4>4. job \in Syncs
        <5> DEFINE flag == IF v = old.newest THEN v \in current ELSE old.flagged
                   pc == IF old.todo = {v} THEN "clear" ELSE "mirror"
        <5>1. flag \in BOOLEAN
          <6>1. CASE v = old.newest
            <7>1. CASE v \in current
              <8>1. flag = TRUE
                BY <6>1, <7>1, SMT
              <8> QED BY <8>1
            <7>2. CASE v \notin current
              <8>1. flag = FALSE
                BY <6>1, <7>2, SMT
              <8> QED BY <8>1
            <7> QED BY <7>1, <7>2
          <6>2. CASE v # old.newest
            BY <4>1, <6>2, Zenon
          <6> QED BY <6>1, <6>2
        <5>2. job = Sync(pc, old.pk, old.todo \ {v}, old.newest, flag)
          OBVIOUS
        <5>3. pc \in {"clear", "mirror"}
          OBVIOUS
        <5> HIDE DEF flag, pc, job
        <5> QED BY <4>1, <5>1, <5>2, <5>3 DEF Sync, Syncs
      <4> QED BY <4>2, <4>3, <4>4 DEF Sync, Sound, Jobs
    <3> HIDE DEF job, v
    <3>3. MirrorTyped
      BY <2>1, <2>2, <2>4, <2>5, <3>1 DEF MirrorTyped, Typed, TypeOK, Attached
    <3> QED BY <1>0, <2>1, <2>2, <3>1, <3>2, <3>3, Works, RowKept, TrailKept, Pieces DEF Counts
  <2>6. CASE ~Attached(old.pk)
    <3>1. End(w) /\ crossed' = TRUE /\ UNCHANGED mirror
      BY <1>13, <2>6 DEF Upsert
    <3> QED BY <1>0, <2>1, <2>2, <3>1, Ends, RowKept, MirrorKept, TrailKept, Pieces DEF Counts
  <2> QED BY <2>5, <2>6
<1>14. ASSUME NEW w \in Workers, Clear(w) PROVE Typed'
  <2> DEFINE job == [worker[w] EXCEPT !.pc = "set"]
  <2>1. /\ UNCHANGED <<reported, attachment, issued, mirror, events, requests, faults, lost, crossed>>
        /\ Goes(w, job) /\ worker[w].pc = "clear" /\ current' \subseteq current
    BY <1>14 DEF Clear, local, history
  <2>2. Onward /\ Latest' = Latest
    BY <2>1, OnwardSame
  <2>3. worker[w] \in Syncs /\ Sound(worker[w], issued, Latest)
    BY <1>0, <2>1, JobKinds DEF Typed
  <2>4. job \in Jobs /\ Sound(job, issued', Latest')
    BY <2>1, <2>2, <2>3 DEF Syncs, Jobs, Sound
  <2>5. MirrorTyped
    BY <2>1, <2>2 DEF MirrorTyped, Typed, TypeOK
  <2> HIDE DEF job
  <2> QED BY <1>0, <2>1, <2>2, <2>4, <2>5, Works, RowKept, TrailKept, Pieces DEF Counts
<1>15. ASSUME NEW w \in Workers, SetCurrent(w) PROVE Typed'
  <2>1. /\ UNCHANGED <<reported, attachment, issued, mirror, events, requests, faults, lost>>
        /\ End(w) /\ current' \subseteq current \cup mirror /\ crossed' \in BOOLEAN
    BY <1>0, <1>15 DEF SetCurrent, local
  <2>2. Onward /\ Latest' = Latest
    BY <2>1, OnwardSame
  <2>3. MirrorTyped
    BY <2>1, <2>2 DEF MirrorTyped, Typed, TypeOK
  <2> QED BY <1>0, <2>1, <2>2, <2>3, Ends, RowKept, TrailKept, Pieces DEF Counts
<1>16. ASSUME NEW w \in Workers, Die(w) PROVE Typed'
  <2>1. /\ UNCHANGED <<reported, attachment, issued, mirror, current, events, requests>> /\ End(w)
        /\ lost' = IF worker[w].pc = "event" THEN lost \cup {worker[w].fact} ELSE lost
        /\ faults' \in 0..MaxFaults /\ crossed' \in BOOLEAN
    BY <1>0, <1>16, BoundAssumption DEF Die, local, versions, Syncing
  <2>2. worker[w].pc = "event" => worker[w].fact \in Owed
    BY DEF Owed
  <2> QED BY <1>0, <2>1, <2>2, OnwardSame, Ends, RowKept, MirrorKept, TrailKept, Pieces DEF Counts
<1>17. CASE UNCHANGED vars
  <2>1. UNCHANGED <<reported, attachment, issued, mirror, current, worker, events, requests, faults, lost, crossed>>
    BY <1>17 DEF vars, local, versions, history
  <2> QED BY <1>0, <2>1, OnwardSame, Rests, RowKept, MirrorKept, TrailKept, Pieces DEF Counts
<1> QED
  BY <1>1, <1>2, <1>3, <1>4, <1>5, <1>6, <1>7, <1>8, <1>9, <1>10, <1>11, <1>12, <1>13, <1>14, <1>15,
     <1>16, <1>17 DEF Next

(* The row's metadata is from a version SharePoint had, only versions of   *)
(* a row that stands are mirrored, and no request knows of a row that was  *)
(* never made (Attachment, AttachmentVersion).                             *)
THEOREM TypeInvariant == Spec => []TypeOK
<1>1. Typed => TypeOK
  BY DEF Typed
<1> QED BY <1>1, TypedInit, TypedNext, PTL DEF Spec

-----------------------------------------------------------------------------
(* The flag: while a synchronisation runs that nothing crossed, no other   *)
(* runs, the row it is for stands, nothing newer than its newest version   *)
(* is mirrored, and what it remembers of the flag of that version is so.   *)

Noted(job) == job.newest \in mirror /\ (job.flagged <=> job.newest \in current)

Steady(job) ==
  /\ Attached(job.pk)
  /\ \A v \in mirror : v <= job.newest
  /\ job.pc = "mirror" => job.newest \in job.todo \/ Noted(job)
  /\ job.pc = "clear" => Noted(job)
  /\ job.pc = "set" => /\ job.newest \in mirror
                       /\ current = IF job.flagged THEN {job.newest} ELSE {}

SyncInv == ~crossed => \A w \in Workers : Syncing(w) => Alone(w) /\ Steady(worker[w])

FlagInv == SyncInv /\ CurrentIsNewest

(* A step that is no part of a synchronisation, and leaves the row of one  *)
(* that is running.                                                        *)
LEMMA Undisturbed ==
  ASSUME FlagInv, UNCHANGED <<mirror, current, crossed>>,
         \A v \in Workers : Syncing(v)' <=> Syncing(v),
         \A v \in Workers : Syncing(v) => worker'[v] = worker[v],
         \A pk : Attached(pk) => Attached(pk)'
  PROVE  FlagInv'
<1>1. CurrentIsNewest'
  BY DEF FlagInv, CurrentIsNewest, Synced
<1>2. ASSUME ~crossed, NEW v \in Workers, Syncing(v) PROVE Alone(v)' /\ Steady(worker[v])'
  <2>1. /\ Alone(v) /\ Steady(worker[v]) /\ worker'[v] = worker[v]
        /\ attachment' # NoRow /\ attachment'.pk = worker[v].pk
    BY <1>2 DEF FlagInv, SyncInv, Steady, Attached
  <2>2. Alone(v)'
    BY <2>1 DEF Alone
  <2>3. Steady(worker[v])'
    BY <2>1 DEF Steady, Noted, Attached
  <2> QED BY <2>2, <2>3
<1> QED BY <1>1, <1>2 DEF FlagInv, SyncInv

(* Such a step of one worker.                                              *)
LEMMA Aside ==
  ASSUME FlagInv, NEW w \in Workers, Others(w), UNCHANGED <<mirror, current, crossed>>,
         ~Syncing(w), ~Syncing(w)',
         \A pk : Attached(pk) => Attached(pk)'
  PROVE  FlagInv'
<1>1. \A v \in Workers : (Syncing(v)' <=> Syncing(v)) /\ (Syncing(v) => worker'[v] = worker[v])
  BY DEF Syncing, Others
<1> QED BY <1>1, Undisturbed

LEMMA FlagInit == Init => FlagInv
BY DEF Init, FlagInv, SyncInv, CurrentIsNewest, Syncing, Idle

LEMMA Turned ==
  ASSUME Typed, NEW w \in Workers, NEW job \in Jobs, Goes(w, job)
  PROVE  worker'[w] = job /\ Others(w) /\ (Syncing(w)' <=> job.pc \in {"mirror", "clear", "set"})
BY GoesTyped DEF Syncing

LEMMA Stopped == ASSUME Typed, NEW w \in Workers, End(w) PROVE Others(w) /\ ~Syncing(w)'
BY Turned, IdleTyped DEF End

LEMMA FlagNext == FlagInv /\ Typed /\ Typed' /\ [Next]_vars => FlagInv'
<1> SUFFICES ASSUME FlagInv, Typed, Typed', [Next]_vars PROVE FlagInv'
  OBVIOUS
<1>0. /\ \A w \in Workers : worker[w] \in Jobs /\ worker'[w] \in Jobs
      /\ mirror \subseteq Versions /\ current \subseteq mirror
      /\ attachment = NoRow => mirror = {}
      /\ \A v \in mirror : v <= Latest
      /\ crossed \in BOOLEAN
  BY DEF Typed, TypeOK
<1>1. CASE RemoteSave \/ RemoteTrim \/ UNCHANGED vars
  BY <1>1, Undisturbed
  DEF RemoteSave, RemoteTrim, vars, local, versions, history, Syncing, Attached
<1>2. ASSUME NEW w \in Workers, Upload(w) \/ Link(w) \/ LoadDetach(w) PROVE FlagInv'
  <2>1. PICK job : /\ Begin(w, job) /\ job.pc \in {"find", "store", "detach"}
                   /\ UNCHANGED <<attachment, mirror, current, crossed>>
    BY <1>2 DEF Upload, Link, LoadDetach, local, versions, history
  <2>2. worker[w].pc = "idle" /\ Goes(w, job)
    BY <2>1, BeginTyped
  <2>3. worker'[w] = job /\ Others(w)
    BY <2>2 DEF Goes, Others, Typed
  <2> QED BY <2>1, <2>2, <2>3, Aside DEF Syncing, Attached
<1>3. ASSUME NEW w \in Workers, UploadLost(w) \/ Record(w) PROVE FlagInv'
  <2>1. End(w) /\ UNCHANGED <<attachment, mirror, current, crossed>> /\ ~Syncing(w)
    BY <1>3 DEF UploadLost, Record, local, versions, history, Syncing
  <2> QED BY <2>1, Stopped, Aside DEF Attached
<1>4. ASSUME NEW w \in Workers, Find(w) PROVE FlagInv'
  <2>1. /\ UNCHANGED <<attachment, mirror, current, crossed>> /\ ~Syncing(w)
        /\ worker[w].pc = "find" /\ worker[w] \in Uploads
    BY <1>0, <1>4, JobKinds DEF Find, local, versions, history, Syncing
  <2>2. worker'[w].pc \in {"store", "refresh"} /\ Others(w)
    BY <1>4, <2>1 DEF Find, Goes, Typed, Others, Uploads
  <2> QED BY <2>1, <2>2, Aside DEF Attached, Syncing
<1>5. ASSUME NEW w \in Workers, Store(w) \/ Refresh(w) PROVE FlagInv'
  <2>1. /\ UNCHANGED <<mirror, current, crossed>> /\ ~Syncing(w)
        /\ End(w) \/ \E kind, pk : Owe(w, kind, pk)
    BY <1>5 DEF Store, Refresh, versions, history, Syncing
  <2>2. \A kind, pk : Owe(w, kind, pk) => Others(w) /\ ~Syncing(w)'
    BY DEF Owe, Goes, Typed, Others, Syncing
  <2>3. ASSUME NEW pk, Attached(pk) PROVE Attached(pk)'
    <3>1. CASE Store(w)
      BY <2>3, <3>1 DEF Store, Attached, local
    <3>2. CASE Refresh(w)
      <4>1. worker[w] \in Revisions
        BY <1>0, <3>2, JobKinds DEF Refresh
      <4>2. [pk |-> worker[w].pk, held |-> worker[w].version] \in Row
        BY <4>1 DEF Revisions, Row, Keys
      <4> QED BY <2>3, <3>2, <4>2, NoRowAssumption DEF Refresh, Attached
    <3> QED BY <1>5, <3>1, <3>2
  <2> QED BY <2>1, <2>2, <2>3, Stopped, Aside
<1>6. ASSUME NEW w \in Workers, Detach(w) PROVE FlagInv'
  <2>1. Owe(w, "detached", worker[w].pk) /\ ~Syncing(w)
    BY <1>6 DEF Detach, Syncing
  <2>2. Others(w) /\ ~Syncing(w)'
    BY <2>1 DEF Owe, Goes, Typed, Others, Syncing
  <2>3. CASE Attached(worker[w].pk)
    <3>1. mirror' = {} /\ current' = {} /\ crossed' = \E v \in Workers : Syncing(v)
      BY <1>6, <2>3 DEF Detach
    <3>2. ~crossed' => \A v \in Workers : ~Syncing(v)'
      BY <2>2, <3>1 DEF Syncing, Others
    <3> QED BY <3>1, <3>2 DEF FlagInv, SyncInv, CurrentIsNewest
  <2>4. CASE ~Attached(worker[w].pk)
    <3>1. UNCHANGED <<attachment, mirror, current, crossed>>
      BY <1>6, <2>4 DEF Detach, versions
    <3> QED BY <2>1, <2>2, <3>1, Aside DEF Attached
  <2> QED BY <2>3, <2>4
<1>7. ASSUME NEW w \in Workers, Fetch(w) PROVE FlagInv'
  <2> DEFINE job == Sync("mirror", attachment.pk, reported, Latest, FALSE)
  <2>1. /\ Begin(w, job) /\ UNCHANGED <<reported, attachment, mirror, current>>
        /\ attachment # NoRow /\ crossed' = ~Alone(w)
    BY <1>7 DEF Fetch, local, versions
  <2>2. Goes(w, job)
    BY <2>1, BeginTyped
  <2>3. worker'[w] = job /\ Others(w)
    BY <2>2 DEF Goes, Others, Typed
  <2>4. worker'[w].pc = "mirror" /\ worker'[w] \in Syncs /\ Syncing(w)'
    BY <1>0, <2>3, JobKinds DEF Sync, Syncing
  <2>5. ASSUME ~crossed' PROVE \A v \in Workers \ {w} : ~Syncing(v)'
    BY <2>1, <2>3, <2>5 DEF Alone, Others, Syncing
  <2>6. Steady(worker[w])'
    <3>1. /\ worker'[w].pk = attachment.pk /\ worker'[w].newest = Latest
          /\ worker'[w].todo = reported
      BY <2>3 DEF Sync
    <3>2. Latest \in reported
      <4>1. worker'[w].newest \in Versions /\ reported \subseteq Versions
        BY <2>4 DEF Syncs, Typed, TypeOK
      <4> QED BY <3>1, <4>1, LatestIs, VersionsAre
    <3> HIDE DEF job
    <3> QED BY <1>0, <2>1, <2>4, <3>1, <3>2 DEF Steady, Attached
  <2>7. SyncInv'
    BY <2>3, <2>5, <2>6 DEF SyncInv, Alone, Syncing
  <2> QED BY <2>4, <2>7 DEF FlagInv, CurrentIsNewest, Synced
<1>8. ASSUME NEW w \in Workers, Upsert(w) PROVE FlagInv'
  <2> DEFINE old == worker[w]
             v == Max(old.todo)
             flag == IF v = old.newest THEN v \in current ELSE old.flagged
             job == Sync(IF old.todo = {v} THEN "clear" ELSE "mirror", old.pk, old.todo \ {v},
                         old.newest, flag)
  <2>1. UNCHANGED <<attachment, current>> /\ old.pc = "mirror" /\ Syncing(w)
    BY <1>8 DEF Upsert, local, Syncing
  <2>2. old \in Syncs /\ Sound(old, issued, Latest)
    BY <1>0, <2>1, JobKinds DEF Typed
  <2>3. CASE Attached(old.pk)
    <3>1. mirror' = mirror \cup {v} /\ Goes(w, job) /\ UNCHANGED crossed
      BY <1>8, <2>3 DEF Upsert
    <3>2. worker'[w] = job /\ Others(w)
      BY <3>1 DEF Goes, Others, Typed
    <3>3. Syncing(w)'
      BY <3>2 DEF Syncing, Sync
    <3>4. ASSUME ~crossed PROVE Alone(w)' /\ Steady(worker[w])'
      <4>1. Alone(w) /\ Steady(old)
        BY <2>1, <3>4 DEF FlagInv, SyncInv
      <4>2. Alone(w)'
        BY <3>2, <4>1 DEF Alone, Others, Syncing
      <4>3. /\ old.todo \in SUBSET Versions /\ old.todo # {}
            /\ \A x \in old.todo : x <= old.newest
        BY <2>1, <2>2 DEF Syncs, Sound
      <4>4. v \in old.todo /\ v <= old.newest
        BY <4>3, MaxIs
      <4>5. old.newest \in old.todo => v = old.newest
        BY <4>3, MaxOf
      <4>6. /\ worker'[w].pk = old.pk /\ worker'[w].todo = old.todo \ {v} /\ worker'[w].newest = old.newest
            /\ worker'[w].flagged = flag /\ worker'[w].pc = IF old.todo = {v} THEN "clear" ELSE "mirror"
        BY <3>2 DEF Sync
      <4> HIDE DEF job, v
      <4>7. attachment' # NoRow /\ attachment'.pk = worker'[w].pk /\ \A x \in mirror' : x <= worker'[w].newest
        BY <2>1, <2>3, <3>1, <4>1, <4>4, <4>6 DEF Attached, Steady
      <4>8. CASE v = old.newest
        <5>1. worker'[w].newest \in mirror' /\ (worker'[w].flagged <=> worker'[w].newest \in current')
          BY <2>1, <3>1, <4>6, <4>8
        <5> QED BY <3>2, <4>2, <4>6, <4>7, <5>1 DEF Steady, Noted, Attached
      <4>9. CASE v # old.newest
        <5>1. old.newest \notin old.todo
          BY <4>5, <4>9
        <5>2. Noted(old)
          BY <2>1, <4>1, <5>1 DEF Steady
        <5>3. worker'[w].newest \in mirror' /\ (worker'[w].flagged <=> worker'[w].newest \in current')
          BY <2>1, <3>1, <4>6, <4>9, <5>2 DEF Noted
        <5> QED BY <3>2, <4>2, <4>6, <4>7, <5>3 DEF Steady, Noted, Attached
      <4> QED BY <4>8, <4>9
    <3>5. SyncInv'
      BY <3>1, <3>4 DEF SyncInv, Alone
    <3> QED BY <3>3, <3>5 DEF FlagInv, CurrentIsNewest, Synced
  <2>4. CASE ~Attached(old.pk)
    BY <1>8, <2>4 DEF Upsert, FlagInv, SyncInv, CurrentIsNewest
  <2> QED BY <2>3, <2>4
<1>9. ASSUME NEW w \in Workers, Clear(w) PROVE FlagInv'
  <2> DEFINE old == worker[w]
  <2>1. /\ UNCHANGED <<attachment, mirror, crossed>> /\ old.pc = "clear" /\ Syncing(w)
        /\ current' = IF Attached(old.pk) THEN current \cap {old.newest} ELSE current
        /\ Goes(w, [old EXCEPT !.pc = "set"])
    BY <1>9 DEF Clear, local, history, Syncing
  <2>2. old \in Syncs
    BY <1>0, <2>1, JobKinds
  <2>3. worker'[w] = [old EXCEPT !.pc = "set"] /\ Others(w)
    BY <2>1 DEF Goes, Others, Typed
  <2>4. /\ worker'[w].pc = "set" /\ worker'[w].pk = old.pk /\ worker'[w].newest = old.newest
        /\ worker'[w].flagged = old.flagged /\ Syncing(w)'
    BY <2>2, <2>3 DEF Syncs, Syncing
  <2>5. ASSUME ~crossed PROVE Alone(w)' /\ Steady(worker[w])'
    <3>1. Alone(w) /\ Steady(old) /\ Attached(old.pk) /\ Noted(old)
      BY <2>1, <2>5 DEF FlagInv, SyncInv, Steady
    <3>2. Alone(w)'
      BY <2>3, <3>1 DEF Alone, Others, Syncing
    <3>3. current' = IF old.flagged THEN {old.newest} ELSE {}
      BY <2>1, <3>1 DEF Noted
    <3>4. Attached(worker[w].pk)'
      BY <2>1, <2>4, <3>1 DEF Attached
    <3> QED BY <2>1, <2>4, <3>1, <3>2, <3>3, <3>4 DEF Steady, Noted
  <2>6. SyncInv'
    BY <2>1, <2>5 DEF SyncInv, Alone
  <2> QED BY <2>4, <2>6 DEF FlagInv, CurrentIsNewest, Synced
<1>10. ASSUME NEW w \in Workers, SetCurrent(w) PROVE FlagInv'
  <2> DEFINE old == worker[w]
  <2>1. /\ UNCHANGED <<attachment, mirror>> /\ old.pc = "set" /\ Syncing(w) /\ End(w)
        /\ current' = IF ~old.flagged /\ Attached(old.pk)
                      THEN current \cup ({old.newest} \cap mirror) ELSE current
        /\ crossed' = (crossed \/ ~Alone(w))
    BY <1>10 DEF SetCurrent, local, Syncing
  <2>2. Others(w) /\ ~Syncing(w)'
    BY <2>1, Stopped
  <2>3. ASSUME ~crossed' PROVE /\ \A v \in Workers : ~Syncing(v)'
                               /\ current' = {Max(mirror')} /\ mirror' # {}
    <3>1. Alone(w) /\ Steady(old)
      BY <2>1, <2>3 DEF FlagInv, SyncInv
    <3>2. \A v \in Workers : ~Syncing(v)'
      BY <2>2, <3>1 DEF Alone, Others, Syncing
    <3>3. /\ old.newest \in mirror /\ \A v \in mirror : v <= old.newest
          /\ current = IF old.flagged THEN {old.newest} ELSE {}
          /\ Attached(old.pk)
      BY <2>1, <3>1 DEF Steady
    <3>4. Max(mirror) = old.newest
      BY <1>0, <3>3, MaxOf
    <3>5. current' = {old.newest}
      BY <2>1, <3>3
    <3> QED BY <2>1, <3>2, <3>3, <3>4, <3>5
  <2> QED BY <2>3 DEF FlagInv, SyncInv, CurrentIsNewest
<1>11. ASSUME NEW w \in Workers, Die(w) PROVE FlagInv'
  <2>1. End(w) /\ UNCHANGED <<attachment, mirror, current>> /\ crossed' = (crossed \/ Syncing(w))
    BY <1>11 DEF Die, local, versions
  <2>2. Others(w) /\ ~Syncing(w)'
    BY <2>1, Stopped
  <2>3. CASE Syncing(w) \/ crossed
    BY <2>1, <2>3 DEF FlagInv, SyncInv, CurrentIsNewest
  <2>4. CASE ~Syncing(w) /\ ~crossed
    <3>1. crossed' = crossed
      BY <1>0, <2>1, <2>4
    <3> QED BY <2>1, <2>2, <2>4, <3>1, Aside DEF Attached
  <2> QED BY <2>3, <2>4
<1> QED
  BY <1>1, <1>2, <1>3, <1>4, <1>5, <1>6, <1>7, <1>8, <1>9, <1>10, <1>11 DEF Next

(* A synchronisation that no other and no detaching crossed leaves the     *)
(* newest mirrored version flagged, and no other                           *)
(* (sync_attachment_versions).                                             *)
THEOREM NewestIsFlagged == Spec => []CurrentIsNewest
<1>1. FlagInv => CurrentIsNewest
  BY DEF FlagInv
<1> QED BY <1>1, TypedInit, TypedNext, FlagInit, FlagNext, PTL DEF Spec

-----------------------------------------------------------------------------
(* The trail: nothing told is forgotten. What a worker owes is written, or *)
(* dies with it.                                                           *)

Due(w) == IF worker[w].pc = "event" THEN {worker[w].fact} ELSE {}

ToldSet == events \cup Owed \cup lost

LEMMA OwedBy ==
  ASSUME NEW w \in Workers, Others(w)
  PROVE  Owed' \subseteq Owed \cup Due(w)' /\ Owed \subseteq Owed' \cup Due(w)
         /\ Due(w) \subseteq Owed /\ Due(w)' \subseteq Owed'
BY DEF Owed, Due, Others

(* No row is put in place or taken away, and no detaching is told anew.    *)
LEMMA TrailAside ==
  ASSUME TrailComplete, issued' = issued, \A pk : Attached(pk)' <=> Attached(pk),
         ToldSet \subseteq ToldSet', events' \cup Owed' \subseteq events \cup Owed
  PROVE  TrailComplete'
BY DEF TrailComplete, Told, ToldSet

LEMMA TrailInit == Init => TrailComplete
BY DEF Init, TrailComplete

LEMMA OwesDue ==
  ASSUME Typed, NEW w \in Workers, NEW kind, NEW pk, Owe(w, kind, pk)
  PROVE  Others(w) /\ Due(w)' = {<<kind, pk>>}
BY DEF Typed, Owe, Goes, Others, Due

LEMMA TrailNext == TrailComplete /\ Typed /\ Typed' /\ [Next]_vars => TrailComplete'
<1> SUFFICES ASSUME TrailComplete, Typed, Typed', [Next]_vars PROVE TrailComplete'
  OBVIOUS
<1>0. /\ \A w \in Workers : worker[w] \in Jobs /\ worker'[w] \in Jobs
      /\ issued \in Nat /\ attachment \in Row \cup {NoRow}
      /\ events \cup Owed \cup lost \subseteq Kinds \X (1..issued)
      /\ attachment # NoRow => attachment.pk \in 1..issued
  BY DEF Typed, TypeOK, Facts, Kinds
<1>1. CASE RemoteSave \/ RemoteTrim \/ UNCHANGED vars
  <2>1. UNCHANGED <<attachment, issued, worker, events, lost>>
    BY <1>1 DEF RemoteSave, RemoteTrim, vars, local, history
  <2> QED BY <2>1, TrailAside DEF Attached, ToldSet, Owed
<1>2. ASSUME NEW w \in Workers,
             \/ Upload(w) \/ UploadLost(w) \/ Link(w) \/ Find(w) \/ LoadDetach(w)
             \/ Fetch(w) \/ Upsert(w) \/ Clear(w) \/ SetCurrent(w)
      PROVE  TrailComplete'
  <2>1. UNCHANGED <<attachment, issued, events, lost>> /\ worker[w].pc # "event"
    BY <1>2 DEF Upload, UploadLost, Link, Find, LoadDetach, Fetch, Upsert, Clear, SetCurrent,
                Begin, local, history
  <2>2. PICK job : Goes(w, job) /\ job.pc # "event"
    <3>1. CASE Find(w)
      <4>1. worker[w] \in Uploads
        BY <1>0, <3>1, JobKinds DEF Find
      <4> QED BY <3>1, <4>1 DEF Find, Uploads
    <3>2. CASE Clear(w)
      <4>1. worker[w] \in Syncs
        BY <1>0, <3>2, JobKinds DEF Clear
      <4> QED BY <3>2, <4>1 DEF Clear, Syncs
    <3>3. CASE Upsert(w)
      BY <3>3 DEF Upsert, End, Idle, Sync
    <3> QED BY <1>2, <3>1, <3>2, <3>3
         DEF Upload, UploadLost, Link, LoadDetach, Fetch, SetCurrent, Begin, End, Idle, Sync
  <2>3. Others(w) /\ Due(w) = {} /\ Due(w)' = {}
    BY <2>1, <2>2 DEF Goes, Others, Due, Typed
  <2> QED BY <2>1, <2>3, OwedBy, TrailAside DEF Attached, ToldSet
<1>3. ASSUME NEW w \in Workers, Record(w) \/ Die(w) PROVE TrailComplete'
  <2>1. /\ UNCHANGED <<attachment, issued>> /\ End(w)
        /\ events \subseteq events' /\ events' \subseteq events \cup Due(w)
        /\ lost \subseteq lost' /\ Due(w) \subseteq events' \cup lost'
    BY <1>3 DEF Record, Die, local, history, Due
  <2>2. Others(w) /\ Due(w)' = {}
    BY <2>1, IdleTyped DEF End, Goes, Typed, Others, Due
  <2> QED BY <2>1, <2>2, OwedBy, TrailAside DEF Attached, ToldSet
<1>4. ASSUME NEW w \in Workers, Store(w) PROVE TrailComplete'
  <2>1. UNCHANGED <<events, lost>> /\ worker[w].pc = "store" /\ Due(w) = {}
    BY <1>4 DEF Store, history, Due
  <2>2. CASE attachment = NoRow
    <3>1. PICK n : n = issued + 1
      OBVIOUS
    <3>2. /\ attachment' = [pk |-> n, held |-> worker[w].version] /\ issued' = n
          /\ Owe(w, "attached", n)
      BY <1>4, <2>2, <3>1 DEF Store
    <3>3. /\ Owed' \subseteq Owed \cup {<<"attached", n>>} /\ Owed \subseteq Owed'
          /\ <<"attached", n>> \in Owed'
      BY <2>1, <3>2, OwesDue, OwedBy
    <3>4. attachment' # NoRow
      <4>1. worker[w] \in Uploads
        BY <1>0, <2>1, JobKinds
      <4> QED BY <1>0, <3>1, <3>2, <4>1, NoRowAssumption DEF Uploads, Row
    <3>5. \A pk : Attached(pk)' <=> pk = n
      BY <3>2, <3>4 DEF Attached
    <3>6. \A pk \in 1..issued : Told(<<"attached", pk>>)' /\ Told(<<"detached", pk>>)'
      <4>1. \A pk \in 1..issued : Told(<<"attached", pk>>) /\ Told(<<"detached", pk>>)
        BY <2>2 DEF TrailComplete, Attached
      <4> QED BY <2>1, <3>3, <4>1 DEF Told
    <3>7. <<"detached", n>> \notin events' \cup Owed' /\ Told(<<"attached", n>>)'
      BY <1>0, <2>1, <3>1, <3>3 DEF Told
    <3>8. \A pk \in 1..issued' : pk = n \/ (pk \in 1..issued /\ pk # n)
      <4>1. issued' = issued + 1
        BY <3>1, <3>2
      <4>2. issued \in Nat
        BY <1>0
      <4> QED BY <3>1, <4>1, <4>2
    <3> QED BY <3>5, <3>6, <3>7, <3>8, Zenon DEF TrailComplete
  <2>3. CASE attachment # NoRow
    <3>1. End(w) /\ UNCHANGED <<attachment, issued>>
      BY <1>4, <2>3 DEF Store, local
    <3>2. Others(w) /\ Due(w)' = {}
      BY <3>1, IdleTyped DEF End, Goes, Typed, Others, Due
    <3> QED BY <2>1, <3>1, <3>2, OwedBy, TrailAside DEF Attached, ToldSet
  <2> QED BY <2>2, <2>3
<1>5. ASSUME NEW w \in Workers, Refresh(w) PROVE TrailComplete'
  <2>0. PICK pk : pk = worker[w].pk
    OBVIOUS
  <2>1. UNCHANGED <<issued, events, lost>> /\ Due(w) = {}
    BY <1>5 DEF Refresh, history, Due
  <2>2. CASE attachment = NoRow \/ Attached(pk)
    <3>1. attachment' = [pk |-> pk, held |-> worker[w].version] /\ Owe(w, "version", pk)
      BY <1>5, <2>0, <2>2 DEF Refresh
    <3>2. /\ Owed' \subseteq Owed \cup {<<"version", pk>>} /\ Owed \subseteq Owed'
          /\ <<"version", pk>> \in Owed'
      BY <2>1, <3>1, OwesDue, OwedBy
    <3>3. \A p : Attached(p)' => p = pk
      BY <3>1 DEF Attached
    <3>4. attachment' # NoRow
      <4>1. worker[w] \in Revisions
        BY <1>0, <1>5, <2>0, JobKinds DEF Refresh
      <4> QED BY <2>0, <3>1, <4>1, NoRowAssumption DEF Revisions, Row, Keys
    <3>5. \A p : Attached(p) => Attached(p)'
      BY <2>2, <3>1, <3>4 DEF Attached
    <3>6. \A f : Told(f) => Told(f)'
      BY <2>1, <3>2 DEF Told
    <3>7. Told(<<"version", pk>>)'
      BY <3>2 DEF Told
    <3> QED BY <2>1, <3>3, <3>5, <3>6, <3>7, Zenon DEF TrailComplete
  <2>3. CASE ~(attachment = NoRow \/ Attached(pk))
    <3>1. End(w) /\ UNCHANGED attachment
      BY <1>5, <2>0, <2>3 DEF Refresh
    <3>2. Others(w) /\ Due(w)' = {}
      BY <3>1, IdleTyped DEF End, Goes, Typed, Others, Due
    <3> QED BY <2>1, <3>1, <3>2, OwedBy, TrailAside DEF Attached, ToldSet
  <2> QED BY <2>2, <2>3
<1>6. ASSUME NEW w \in Workers, Detach(w) PROVE TrailComplete'
  <2>0. PICK pk : pk = worker[w].pk
    OBVIOUS
  <2>1. UNCHANGED <<issued, events, lost>> /\ Due(w) = {} /\ Owe(w, "detached", pk)
    BY <1>6, <2>0 DEF Detach, Due
  <2>2. /\ Owed' \subseteq Owed \cup {<<"detached", pk>>} /\ Owed \subseteq Owed'
        /\ <<"detached", pk>> \in Owed'
    BY <2>1, OwesDue, OwedBy
  <2>3. ~Attached(pk)' /\ \A p : p # pk => (Attached(p)' <=> Attached(p))
    BY <1>6, <2>0 DEF Detach, Attached
  <2>4. \A f : Told(f) => Told(f)'
    BY <2>1, <2>2 DEF Told
  <2>5. Told(<<"detached", pk>>)'
    BY <2>2 DEF Told
  <2>6. \A p : p # pk /\ <<"detached", p>> \in events' \cup Owed' => <<"detached", p>> \in events \cup Owed
    BY <2>1, <2>2
  <2> QED BY <2>1, <2>3, <2>4, <2>5, <2>6, Zenon DEF TrailComplete
<1> QED BY <1>1, <1>2, <1>3, <1>4, <1>5, <1>6 DEF Next

(* Every attaching, every detaching and the revision that puts a row back  *)
(* is on the record's trail, about to be written, or died with the worker  *)
(* that was to write it (attach_file, attach_link, delete_attachment).     *)
THEOREM TrailIsComplete == Spec => []TrailComplete
BY TypedInit, TypedNext, TrailInit, TrailNext, PTL DEF Spec

=============================================================================
