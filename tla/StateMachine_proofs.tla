------------------------ MODULE StateMachine_proofs ------------------------
(***************************************************************************)
(* What holds of every workflow type, however many states, edges, guards,  *)
(* events and referrals it has.  Each theorem follows the disjuncts of     *)
(* Next; only perform_transition grows the log and, where no form writes   *)
(* current_state, only it moves the record.  The second half is about the  *)
(* requests statement by statement: what their races cannot break, and,    *)
(* one request after another, that they do what StateMachine says.         *)
(***************************************************************************)
EXTENDS SerialRequests, SequenceTheorems, TLAPS

-----------------------------------------------------------------------------
(* The log after one more entry, and its last element. *)
LEMMA AppendedLog ==
  ASSUME NEW S, NEW s \in Seq(S), NEW x \in S
  PROVE  /\ Append(s, x) \in Seq(S)
         /\ Append(s, x) # <<>>
         /\ Len(Append(s, x)) = Len(s) + 1
         /\ Append(s, x)[Len(s) + 1] = x
         /\ \A i \in 1..Len(s) : Append(s, x)[i] = s[i]
  OBVIOUS

(* Every reachable state is well typed. *)
THEOREM TypeInvariant == Spec => []TypeOK
<1>1. Init => TypeOK
  BY TypeAssumption DEF Init, TypeOK
<1>2. TypeOK /\ [Next]_vars => TypeOK'
  <2> SUFFICES ASSUME TypeOK, [Next]_vars PROVE TypeOK'
    OBVIOUS
  <2> USE DEF TypeOK
  <2>1. CASE \E e \in Edges, commented \in BOOLEAN : PerformTransition(e, commented)
    <3> PICK e \in Edges, commented \in BOOLEAN : PerformTransition(e, commented)
      BY <2>1
    <3>1. Move(e) \in Moves
      BY DEF Moves
    <3>2. log' \in Seq(Moves)
      BY <3>1, AppendedLog DEF PerformTransition
    <3> QED
      BY <3>2, TypeAssumption DEF PerformTransition
  <2>2. CASE \E t \in EventTypes : RecordEvent(t) \/ AdminDeleteEvent(t)
    BY <2>2 DEF RecordEvent, AdminDeleteEvent
  <2>3. CASE \E r \in Referrals : Refer(r) \/ CloseReferral(r)
    BY <2>3 DEF Refer, CloseReferral
  <2>4. CASE \E s \in States, set \in BOOLEAN : EditRecord(s, set)
    BY <2>4 DEF EditRecord
  <2>5. CASE \E c \in Children : ChildChanges(c)
    BY <2>5 DEF ChildChanges
  <2>6. CASE UNCHANGED vars
    BY <2>6 DEF vars
  <2> QED
    BY <2>1, <2>2, <2>3, <2>4, <2>5, <2>6 DEF Next
<1> QED
  BY <1>1, <1>2, PTL DEF Spec

-----------------------------------------------------------------------------
(* No move is logged without the events that justify it: recording an      *)
(* event never takes one away, and deleting one leaves it in `erased`.     *)
THEOREM MovesAreBacked == Spec => []MovesHaveEvidence
<1>1. Init => MovesHaveEvidence
  BY DEF Init, MovesHaveEvidence
<1>2. TypeOK /\ MovesHaveEvidence /\ [Next]_vars => MovesHaveEvidence'
  <2> SUFFICES ASSUME TypeOK, MovesHaveEvidence, [Next]_vars PROVE MovesHaveEvidence'
    OBVIOUS
  <2>1. CASE \E e \in Edges, commented \in BOOLEAN : PerformTransition(e, commented)
    <3> PICK e \in Edges, commented \in BOOLEAN : PerformTransition(e, commented)
      BY <2>1
    <3>1. /\ Move(e) \in Moves
          /\ log \in Seq(Moves)
          /\ log' = Append(log, Move(e))
          /\ events' = events /\ erased' = erased
          /\ Required[e] \subseteq events
      BY DEF Moves, TypeOK, PerformTransition, Evidence
    <3>2. SUFFICES ASSUME NEW i \in DOMAIN log'
                   PROVE  \E d \in Edges : log'[i] = Move(d) /\ Required[d] \subseteq events \cup erased
      BY <3>1 DEF MovesHaveEvidence, Move
    <3>3. CASE i = Len(log) + 1
      BY <3>1, <3>3, AppendedLog
    <3>4. CASE i # Len(log) + 1
      <4>1. i \in DOMAIN log /\ log'[i] = log[i]
        BY <3>1, <3>2, <3>4, AppendedLog
      <4> QED
        BY <4>1 DEF MovesHaveEvidence
    <3> QED
      BY <3>3, <3>4
  <2>2. CASE UNCHANGED log /\ events \cup erased \subseteq events' \cup erased'
    <3> SUFFICES ASSUME NEW i \in DOMAIN log
                 PROVE  \E e \in Edges : log[i] = Move(e) /\ Required[e] \subseteq events' \cup erased'
      BY <2>2 DEF MovesHaveEvidence, Move
    <3>1. PICK e \in Edges : log[i] = Move(e) /\ Required[e] \subseteq events \cup erased
      BY DEF MovesHaveEvidence
    <3>2. Required[e] \subseteq events' \cup erased'
      BY <2>2, <3>1
    <3> QED
      BY <3>1, <3>2
  <2>3. CASE UNCHANGED vars
    BY <2>2, <2>3 DEF vars
  <2>4. CASE \E t \in EventTypes : RecordEvent(t) \/ AdminDeleteEvent(t)
    BY <2>2, <2>4 DEF RecordEvent, AdminDeleteEvent
  <2>5. CASE \E r \in Referrals : Refer(r) \/ CloseReferral(r)
    BY <2>2, <2>5 DEF Refer, CloseReferral
  <2>6. CASE \E s \in States, set \in BOOLEAN : EditRecord(s, set)
    BY <2>2, <2>6 DEF EditRecord
  <2>7. CASE \E c \in Children : ChildChanges(c)
    BY <2>2, <2>7 DEF ChildChanges
  <2> QED
    BY <2>1, <2>3, <2>4, <2>5, <2>6, <2>7 DEF Next
<1> QED
  BY <1>1, <1>2, TypeInvariant, PTL DEF Spec

-----------------------------------------------------------------------------
(* A log that leads from the initial state to s, and one more move.        *)

Leads(l, s) ==
  /\ s = IF l = <<>> THEN Initial ELSE l[Len(l)].to
  /\ l # <<>> => l[1].from = Initial
  /\ \A i \in DOMAIN l : i < Len(l) => l[i].to = l[i + 1].from

LEMMA PathGrows ==
  ASSUME NEW l \in Seq(Moves), NEW e \in Edges, Leads(l, From[e])
  PROVE  Leads(Append(l, Move(e)), To[e])
<1> DEFINE m == Append(l, Move(e))
<1>0. Move(e) \in Moves
  BY DEF Moves
<1>1. /\ m \in Seq(Moves) /\ m # <<>> /\ Len(m) = Len(l) + 1 /\ m[Len(l) + 1] = Move(e)
      /\ \A i \in 1..Len(l) : m[i] = l[i]
      /\ Len(l) \in Nat /\ DOMAIN l = 1..Len(l) /\ DOMAIN m = 1..(Len(l) + 1)
  BY <1>0, AppendedLog
<1> HIDE DEF m
<1>2. m[Len(m)].to = To[e] /\ m[Len(l) + 1].from = From[e]
  BY <1>1 DEF Move
<1>3. m[1].from = Initial
  <2>1. CASE l = <<>>
    BY <1>1, <2>1 DEF Leads, Move
  <2>2. CASE l # <<>>
    <3>1. 1 \in 1..Len(l)
      BY <2>2
    <3> QED BY <1>1, <2>2, <3>1 DEF Leads
  <2> QED BY <2>1, <2>2
<1>4. ASSUME NEW i \in DOMAIN m, i < Len(m) PROVE m[i].to = m[i + 1].from
  <2>1. i \in 1..Len(l)
    BY <1>1, <1>4
  <2>2. CASE i = Len(l)
    <3>1. l # <<>> /\ l[i].to = From[e]
      BY <1>1, <2>1, <2>2 DEF Leads
    <3> QED BY <1>1, <1>2, <2>1, <2>2, <3>1
  <2>3. CASE i # Len(l)
    <3>1. i < Len(l) /\ i + 1 \in 1..Len(l)
      BY <1>1, <2>1, <2>3
    <3>2. l[i].to = l[i + 1].from
      BY <1>1, <2>1, <3>1 DEF Leads
    <3> QED BY <1>1, <2>1, <3>1, <3>2
  <2> QED BY <2>2, <2>3
<1> QED BY <1>1, <1>2, <1>3, <1>4 DEF Leads, m

LEMMA LeadsIs == LogTellsState <=> Leads(log, state)
BY DEF LogTellsState, LoggedState, Leads

(* Where no form writes current_state, the log is the record's whole path. *)
THEOREM LogIsThePath ==
  ASSUME ~FormsMoveState PROVE Spec => []LogTellsState
<1>1. Init => LogTellsState
  BY DEF Init, LogTellsState, LoggedState
<1>2. TypeOK /\ LogTellsState /\ [Next]_vars => LogTellsState'
  <2> SUFFICES ASSUME TypeOK, LogTellsState, [Next]_vars PROVE LogTellsState'
    OBVIOUS
  <2>1. ASSUME NEW e \in Edges, NEW commented \in BOOLEAN, PerformTransition(e, commented)
        PROVE  LogTellsState'
    <3>1. log \in Seq(Moves) /\ Leads(log, From[e])
      BY <2>1, LeadsIs DEF TypeOK, PerformTransition
    <3>2. Leads(Append(log, Move(e)), To[e])
      BY <3>1, PathGrows
    <3>3. Leads(log', state')
      BY <2>1, <3>2 DEF PerformTransition
    <3> QED BY <3>3 DEF Leads, LogTellsState, LoggedState
  <2>2. CASE UNCHANGED <<state, log>>
    BY <2>2 DEF LogTellsState, LoggedState
  <2>3. CASE \E t \in EventTypes : RecordEvent(t) \/ AdminDeleteEvent(t)
    BY <2>2, <2>3 DEF RecordEvent, AdminDeleteEvent
  <2>4. CASE \E r \in Referrals : Refer(r) \/ CloseReferral(r)
    BY <2>2, <2>4 DEF Refer, CloseReferral
  <2>5. CASE \E s \in States, set \in BOOLEAN : EditRecord(s, set)
    BY <2>2, <2>5 DEF EditRecord
  <2>6. CASE \E c \in Children : ChildChanges(c)
    BY <2>2, <2>6 DEF ChildChanges
  <2>7. CASE UNCHANGED vars
    BY <2>2, <2>7 DEF vars
  <2> QED BY <2>1, <2>3, <2>4, <2>5, <2>6, <2>7 DEF Next
<1> QED BY <1>1, <1>2, TypeInvariant, PTL DEF Spec

-----------------------------------------------------------------------------
(* Where in addition the admin adds no referral, a record in a state that  *)
(* takes none, and that asks to have none on every way in, has none.       *)
THEOREM SealedStatesSettled ==
  ASSUME ~FormsMoveState, ~AdminRefers PROVE Spec => []SealedStaysSettled
<1>1. Init => SealedStaysSettled
  BY DEF Init, SealedStaysSettled
<1>2. TypeOK /\ SealedStaysSettled /\ [Next]_vars => SealedStaysSettled'
  <2> SUFFICES ASSUME TypeOK, SealedStaysSettled, [Next]_vars, state' \in Sealed
               PROVE open' = {}
    BY DEF SealedStaysSettled, Sealed
  <2>1. CASE \E e \in Edges, commented \in BOOLEAN : PerformTransition(e, commented)
    <3> PICK e \in Edges, commented \in BOOLEAN : PerformTransition(e, commented)
      BY <2>1
    <3>1. "no_open_referrals" \in Conditions[e]
      BY DEF PerformTransition, Sealed
    <3> QED
      BY <3>1 DEF PerformTransition, RulesHold, ReferralsSettled
  <2>2. CASE state' = state /\ open' \subseteq open
    BY <2>2 DEF SealedStaysSettled
  <2>3. CASE \E t \in EventTypes : RecordEvent(t) \/ AdminDeleteEvent(t)
    BY <2>2, <2>3 DEF RecordEvent, AdminDeleteEvent
  <2>4. CASE \E r \in Referrals : Refer(r)
    BY <2>4 DEF Refer, Sealed
  <2>5. CASE \E r \in Referrals : CloseReferral(r)
    BY <2>2, <2>5 DEF CloseReferral
  <2>6. CASE \E s \in States, set \in BOOLEAN : EditRecord(s, set)
    BY <2>2, <2>6 DEF EditRecord
  <2>7. CASE \E c \in Children : ChildChanges(c)
    BY <2>2, <2>7 DEF ChildChanges
  <2>8. CASE UNCHANGED vars
    BY <2>2, <2>8 DEF vars
  <2> QED
    BY <2>1, <2>3, <2>4, <2>5, <2>6, <2>7, <2>8 DEF Next
<1> QED
  BY <1>1, <1>2, TypeInvariant, PTL DEF Spec

-----------------------------------------------------------------------------
(* Requests, statement by statement. A worker's memory is that of the      *)
(* request it runs.                                                        *)

Transitional == {"events", "referrals", "children", "save", "log", "alert"}

Job == [pc : Transitional \cup {"idle", "refer", "edit"}, edge : Edges \cup {NoEdge},
        commented : BOOLEAN, state : States, field : BOOLEAN]

Typed == /\ TypeOK
         /\ req \in [Workers -> Job]
         /\ \A w \in Workers : req[w].pc \in Transitional => req[w].edge \in Edges

Others(w) == \A v \in Workers \ {w} : req'[v] = req[v]

(* The request goes from one statement to the next; its memory stays.      *)
LEMMA StepIs ==
  ASSUME Typed, NEW w \in Workers, NEW from \in Transitional, NEW to \in Transitional,
         Step(w, from, to)
  PROVE  /\ req' \in [Workers -> Job] /\ Others(w) /\ req[w].pc = from
         /\ req'[w] = [req[w] EXCEPT !.pc = to] /\ req'[w].pc = to
         /\ req'[w].edge = req[w].edge /\ req'[w].commented = req[w].commented
         /\ req'[w].state = req[w].state /\ req'[w].field = req[w].field
         /\ req[w].edge \in Edges
BY DEF Typed, Job, Step, At, Others

LEMMA EndIs ==
  ASSUME Typed, NEW w \in Workers, End(w)
  PROVE  req' \in [Workers -> Job] /\ Others(w) /\ req'[w] = Idle /\ req'[w].pc = "idle"
BY TypeAssumption DEF Typed, Job, End, Idle, Others

LEMMA BeginIs ==
  ASSUME Typed, NEW w \in Workers, Begin(w)
  PROVE  /\ req' \in [Workers -> Job] /\ Others(w) /\ req[w].pc = "idle" /\ UNCHANGED tables
         /\ \/ /\ req'[w].pc = "events" /\ req'[w].edge \in Edges
               /\ From[req'[w].edge] = state /\ req'[w].field = field
            \/ req'[w].pc = "refer" /\ req'[w].state = state /\ state \in AllowsReferrals
            \/ /\ req'[w].pc = "edit"
               /\ \E s \in States, set \in BOOLEAN :
                    LoadEdit(w, s, set) /\ req'[w].state = s /\ req'[w].field = set
<1>1. CASE \E e \in Edges, commented \in BOOLEAN : LoadTransition(w, e, commented)
  <2> PICK e \in Edges, commented \in BOOLEAN : LoadTransition(w, e, commented)
    BY <1>1
  <2> DEFINE job == [pc |-> "events", edge |-> e, commented |-> commented, state |-> state,
                     field |-> field]
  <2>1. job \in Job /\ job.pc = "events" /\ job.edge = e /\ job.field = field
    BY DEF Job, Typed, TypeOK, Transitional
  <2>2. req' = [req EXCEPT ![w] = job] /\ UNCHANGED tables /\ req[w].pc = "idle" /\ From[e] = state
    BY DEF LoadTransition, At
  <2> HIDE DEF job
  <2> QED BY <2>1, <2>2 DEF Typed, Others
<1>2. CASE LoadRefer(w)
  <2> DEFINE job == [Idle EXCEPT !.pc = "refer", !.state = state]
  <2>1. job \in Job /\ job.pc = "refer" /\ job.state = state
    BY TypeAssumption DEF Job, Typed, TypeOK, Idle
  <2>2. /\ req' = [req EXCEPT ![w] = job] /\ UNCHANGED tables /\ req[w].pc = "idle"
        /\ state \in AllowsReferrals
    BY <1>2 DEF LoadRefer, At
  <2> HIDE DEF job
  <2> QED BY <2>1, <2>2 DEF Typed, Others
<1>3. CASE \E s \in States, set \in BOOLEAN : LoadEdit(w, s, set)
  <2> PICK s \in States, set \in BOOLEAN : LoadEdit(w, s, set)
    BY <1>3
  <2> DEFINE job == [Idle EXCEPT !.pc = "edit", !.state = s, !.field = set]
  <2>1. job \in Job /\ job.pc = "edit" /\ job.state = s /\ job.field = set
    BY DEF Job, Idle
  <2>2. /\ req' = [req EXCEPT ![w] = job] /\ UNCHANGED tables /\ req[w].pc = "idle"
    BY DEF LoadEdit, At
  <2> HIDE DEF job
  <2> QED BY <2>1, <2>2 DEF Typed, Others
<1> QED BY <1>1, <1>2, <1>3 DEF Begin

LEMMA ReadIs ==
  ASSUME Typed, NEW w \in Workers, ReadEvents(w) \/ ReadReferrals(w) \/ ReadChildren(w)
  PROVE  /\ UNCHANGED tables /\ req' \in [Workers -> Job] /\ Others(w)
         /\ req[w].edge \in Edges /\ req'[w].edge = req[w].edge /\ req'[w].field = req[w].field
         /\ req'[w].commented = req[w].commented
         /\ \/ /\ req[w].pc = "events" /\ req'[w].pc = "referrals" /\ Evidence(req[w].edge)
            \/ /\ req[w].pc = "referrals" /\ req'[w].pc = "children"
               /\ ReferralsSettled(req[w].edge)
            \/ /\ req[w].pc = "children" /\ req'[w].pc = "save"
               /\ ChildrenClosed(req[w].edge) /\ InMemory(w)
<1>1. CASE ReadEvents(w)
  BY <1>1, StepIs DEF ReadEvents, Transitional
<1>2. CASE ReadReferrals(w)
  BY <1>2, StepIs DEF ReadReferrals, Transitional
<1>3. CASE ReadChildren(w)
  BY <1>3, StepIs DEF ReadChildren, Transitional
<1> QED BY <1>1, <1>2, <1>3

LEMMA StopIs ==
  ASSUME Typed, NEW w \in Workers, Refuse(w) \/ Crash(w)
  PROVE  UNCHANGED tables /\ req' \in [Workers -> Job] /\ Others(w) /\ req'[w].pc = "idle"
BY EndIs DEF Refuse, Crash

LEMMA SaveStateIs ==
  ASSUME Typed, NEW w \in Workers, SaveState(w)
  PROVE  /\ req' \in [Workers -> Job] /\ Others(w)
         /\ req[w].edge \in Edges /\ req'[w].edge = req[w].edge
         /\ req'[w].commented = req[w].commented /\ req'[w].field = req[w].field
         /\ req[w].pc = "save" /\ req'[w].pc = "log"
         /\ state' = To[req[w].edge] /\ Len(log) < MaxLog
         /\ UNCHANGED <<field, events, open, unclosed, log, alerts, erased>>
BY StepIs DEF SaveState, Transitional

LEMMA AppendLogIs ==
  ASSUME Typed, NEW w \in Workers, AppendLog(w)
  PROVE  /\ req' \in [Workers -> Job] /\ Others(w)
         /\ req[w].edge \in Edges /\ req'[w].edge = req[w].edge
         /\ req'[w].commented = req[w].commented /\ req'[w].field = req[w].field
         /\ req[w].pc = "log" /\ req'[w].pc = "alert"
         /\ log' = Append(log, Move(req[w].edge)) /\ Len(log) < MaxLog
         /\ UNCHANGED <<state, field, events, open, unclosed, alerts, erased>>
BY StepIs DEF AppendLog, Transitional

LEMMA AlertIs ==
  ASSUME Typed, NEW w \in Workers, Alert(w)
  PROVE  /\ req' \in [Workers -> Job] /\ Others(w)
         /\ req[w].edge \in Edges /\ req[w].pc = "alert" /\ req'[w].pc = "idle"
         /\ alerts' = alerts \cup {req[w].edge}
         /\ UNCHANGED <<state, field, events, open, unclosed, log, erased>>
BY EndIs DEF Alert, Typed, At, Transitional

LEMMA SaveIs ==
  ASSUME Typed, NEW w \in Workers, SaveEdit(w) \/ \E r \in Referrals : CreateReferral(w, r)
  PROVE  /\ req' \in [Workers -> Job] /\ Others(w) /\ req'[w].pc = "idle"
         /\ UNCHANGED <<events, unclosed, log, alerts, erased>>
         /\ \/ /\ req[w].pc = "edit" /\ UNCHANGED open
               /\ state' = req[w].state /\ field' = req[w].field
            \/ /\ req[w].pc = "refer" /\ UNCHANGED <<state, field>>
               /\ \E r \in Referrals : r \notin open /\ open' = open \cup {r}
BY EndIs DEF SaveEdit, CreateReferral, At

LEMMA SingleIs ==
  ASSUME Typed, Single
  PROVE  /\ UNCHANGED <<state, field, log, alerts, req>>
         /\ events \cup erased \subseteq events' \cup erased'
         /\ events' \subseteq EventTypes /\ erased' \subseteq EventTypes
         /\ open' \subseteq Referrals /\ unclosed' \subseteq Children
         /\ ~AdminRefers => open' \subseteq open
BY DEF Single, Typed, TypeOK, RecordEvent, AdminDeleteEvent, CloseReferral, Refer, ChildChanges

LEMMA TypedInit == RequestsInit => Typed
BY TypeAssumption DEF RequestsInit, Init, Typed, TypeOK, Idle, Job, Transitional

(* Who runs what remains typed, when one worker's memory changes.          *)
LEMMA MemoryTyped ==
  ASSUME Typed, NEW w \in Workers, req' \in [Workers -> Job], Others(w),
         req'[w].pc \in Transitional => req'[w].edge \in Edges
  PROVE  \A v \in Workers : req'[v].pc \in Transitional => req'[v].edge \in Edges
BY DEF Typed, Others

LEMMA TypedNext == Typed /\ [RequestsNext]_allVars => Typed'
<1> SUFFICES ASSUME Typed, [RequestsNext]_allVars PROVE Typed'
  OBVIOUS
<1>1. ASSUME NEW w \in Workers,
             Begin(w) \/ ReadEvents(w) \/ ReadReferrals(w) \/ ReadChildren(w) \/ Refuse(w) \/ Crash(w)
      PROVE  Typed'
  <2>1. /\ UNCHANGED tables /\ req' \in [Workers -> Job] /\ Others(w)
        /\ req'[w].pc \in Transitional => req'[w].edge \in Edges
    <3>1. CASE Begin(w)
      BY <3>1, BeginIs DEF Transitional
    <3>2. CASE ReadEvents(w) \/ ReadReferrals(w) \/ ReadChildren(w)
      BY <3>2, ReadIs DEF Transitional
    <3>3. CASE Refuse(w) \/ Crash(w)
      BY <3>3, StopIs DEF Transitional
    <3> QED BY <1>1, <3>1, <3>2, <3>3
  <2> QED BY <2>1, MemoryTyped DEF Typed, TypeOK, tables
<1>2. ASSUME NEW w \in Workers, SaveState(w) PROVE Typed'
  <2>1. state' \in States
    BY <1>2, SaveStateIs, TypeAssumption
  <2> QED BY <1>2, <2>1, SaveStateIs, MemoryTyped DEF Typed, TypeOK
<1>3. ASSUME NEW w \in Workers, AppendLog(w) PROVE Typed'
  <2>1. log' \in Seq(Moves)
    BY <1>3, AppendLogIs, AppendedLog DEF Moves, Typed, TypeOK
  <2> QED BY <1>3, <2>1, AppendLogIs, MemoryTyped DEF Typed, TypeOK
<1>4. ASSUME NEW w \in Workers, Alert(w) PROVE Typed'
  <2>1. \A v \in Workers : req'[v].pc \in Transitional => req'[v].edge \in Edges
    BY <1>4, AlertIs, MemoryTyped DEF Transitional
  <2> QED BY <1>4, <2>1, AlertIs DEF Typed, TypeOK
<1>5. ASSUME NEW w \in Workers, SaveEdit(w) \/ \E r \in Referrals : CreateReferral(w, r) PROVE Typed'
  <2>1. \A v \in Workers : req'[v].pc \in Transitional => req'[v].edge \in Edges
    BY <1>5, SaveIs, MemoryTyped DEF Transitional
  <2>2. req[w].state \in States /\ req[w].field \in BOOLEAN
    BY DEF Typed, Job
  <2>3. state' \in States /\ field' \in BOOLEAN /\ open' \subseteq Referrals
    BY <1>5, <2>2, SaveIs DEF Typed, TypeOK
  <2> QED BY <1>5, <2>1, <2>3, SaveIs DEF Typed, TypeOK
<1>6. CASE Single
  BY <1>6, SingleIs DEF Typed, TypeOK
<1>7. CASE UNCHANGED allVars
  BY <1>7 DEF allVars, tables, Typed, TypeOK
<1> QED BY <1>1, <1>2, <1>3, <1>4, <1>5, <1>6, <1>7 DEF RequestsNext, Continue

-----------------------------------------------------------------------------
(* What survives every interleaving and every death: a request that has    *)
(* asked for the events found them, and one that is to alert has logged.   *)

InLog(e) == \E i \in DOMAIN log : log[i] = Move(e)

Evident(e) == Required[e] \subseteq events \cup erased

RaceInv ==
  /\ MovesHaveEvidence /\ AlertsAreLogged
  /\ \A w \in Workers :
       /\ req[w].pc \in {"referrals", "children", "save", "log"} => Evident(req[w].edge)
       /\ req[w].pc = "alert" => InLog(req[w].edge)

LEMMA LogStands ==
  ASSUME MovesHaveEvidence, log' = log, events \cup erased \subseteq events' \cup erased'
  PROVE  MovesHaveEvidence'
<1> SUFFICES ASSUME NEW i \in DOMAIN log
             PROVE  \E e \in Edges : log[i] = Move(e) /\ Required[e] \subseteq events' \cup erased'
  BY DEF MovesHaveEvidence, Move
<1>1. PICK e \in Edges : log[i] = Move(e) /\ Required[e] \subseteq events \cup erased
  BY DEF MovesHaveEvidence
<1>2. Required[e] \subseteq events' \cup erased'
  BY <1>1
<1> QED BY <1>1, <1>2

LEMMA LogGrows ==
  ASSUME log \in Seq(Moves), NEW e \in Edges, log' = Append(log, Move(e))
  PROVE  /\ \A d \in Edges : InLog(d) => InLog(d)'
         /\ InLog(e)'
         /\ \A i \in DOMAIN log' : log'[i] = Move(e) \/ (i \in DOMAIN log /\ log'[i] = log[i])
<1>1. Move(e) \in Moves
  BY DEF Moves
<1>2. /\ log' \in Seq(Moves) /\ Len(log') = Len(log) + 1 /\ log'[Len(log) + 1] = Move(e)
      /\ \A i \in 1..Len(log) : log'[i] = log[i]
      /\ Len(log) \in Nat /\ DOMAIN log = 1..Len(log) /\ DOMAIN log' = 1..(Len(log) + 1)
  BY <1>1, AppendedLog
<1>3. \A i \in DOMAIN log' : i = Len(log) + 1 \/ (i \in DOMAIN log /\ log'[i] = log[i])
  BY <1>2
<1>4. \A i \in DOMAIN log : i \in DOMAIN log' /\ log'[i] = log[i]
  BY <1>2
<1>5. Len(log) + 1 \in DOMAIN log'
  BY <1>2
<1>6. \A d : Move(d)' = Move(d)
  BY DEF Move
<1> QED BY <1>2, <1>3, <1>4, <1>5, <1>6, Zenon DEF InLog

LEMMA RaceStands ==
  ASSUME RaceInv, UNCHANGED <<log, alerts>>, events \cup erased \subseteq events' \cup erased',
         NEW w \in Workers, Others(w),
         req'[w].pc \in {"referrals", "children", "save", "log"} => Evident(req'[w].edge),
         req'[w].pc # "alert"
  PROVE  RaceInv'
<1>1. MovesHaveEvidence' /\ AlertsAreLogged'
  BY LogStands DEF RaceInv, AlertsAreLogged, Move
<1>2. \A v \in Workers : v = w \/ req'[v] = req[v]
  BY DEF Others
<1>3. ASSUME NEW v \in Workers, req'[v].pc \in {"referrals", "children", "save", "log"}
      PROVE  Required[req'[v].edge] \subseteq events' \cup erased'
  BY <1>2, <1>3 DEF RaceInv, Evident
<1>4. ASSUME NEW v \in Workers, req'[v].pc = "alert"
      PROVE  \E i \in DOMAIN log' : log'[i] = [from |-> From[req'[v].edge], to |-> To[req'[v].edge]]
  BY <1>2, <1>4 DEF RaceInv, InLog, Move
<1> QED BY <1>1, <1>3, <1>4 DEF RaceInv, Evident, InLog, Move

LEMMA RaceNext == Typed /\ RaceInv /\ [RequestsNext]_allVars => RaceInv'
<1> SUFFICES ASSUME Typed, RaceInv, [RequestsNext]_allVars PROVE RaceInv'
  OBVIOUS
<1>1. ASSUME NEW w \in Workers, Begin(w) \/ Refuse(w) \/ Crash(w) PROVE RaceInv'
  <2>1. UNCHANGED tables /\ Others(w) /\ req'[w].pc \in {"events", "refer", "edit", "idle"}
    <3>1. CASE Begin(w)
      BY <3>1, BeginIs
    <3>2. CASE Refuse(w) \/ Crash(w)
      BY <3>2, StopIs
    <3> QED BY <1>1, <3>1, <3>2
  <2> QED BY <2>1, RaceStands DEF tables
<1>2. ASSUME NEW w \in Workers, ReadEvents(w) \/ ReadReferrals(w) \/ ReadChildren(w) PROVE RaceInv'
  <2>1. /\ UNCHANGED tables /\ Others(w) /\ req'[w].edge = req[w].edge
        /\ req'[w].pc \in {"referrals", "children", "save"}
        /\ \/ Evidence(req[w].edge)
           \/ req[w].pc \in {"referrals", "children"}
    BY <1>2, ReadIs
  <2>2. Evident(req'[w].edge)
    BY <2>1 DEF Evidence, Evident, RaceInv
  <2> QED BY <2>1, <2>2, RaceStands DEF tables
<1>3. ASSUME NEW w \in Workers, SaveState(w) PROVE RaceInv'
  <2>1. /\ UNCHANGED <<log, alerts, events, erased>> /\ Others(w)
        /\ req'[w].edge = req[w].edge /\ req[w].pc = "save" /\ req'[w].pc = "log"
    BY <1>3, SaveStateIs
  <2>2. Evident(req'[w].edge)
    BY <2>1 DEF RaceInv
  <2> QED BY <2>1, <2>2, RaceStands
<1>4. ASSUME NEW w \in Workers, AppendLog(w) PROVE RaceInv'
  <2>1. PICK e : e = req[w].edge
    OBVIOUS
  <2>2. /\ e \in Edges /\ req'[w].edge = e /\ Others(w) /\ req[w].pc = "log" /\ req'[w].pc = "alert"
        /\ log' = Append(log, Move(e)) /\ UNCHANGED <<alerts, events, erased>>
    BY <1>4, <2>1, AppendLogIs
  <2>3. Evident(e) /\ log \in Seq(Moves)
    BY <2>1, <2>2 DEF RaceInv, Typed, TypeOK
  <2>4. /\ \A d \in Edges : InLog(d) => InLog(d)'
        /\ InLog(e)'
        /\ \A i \in DOMAIN log' : log'[i] = Move(e) \/ (i \in DOMAIN log /\ log'[i] = log[i])
    BY <2>2, <2>3, LogGrows
  <2>5. AlertsAreLogged'
    <3>1. \A d \in alerts : d \in Edges /\ InLog(d)
      BY DEF RaceInv, AlertsAreLogged, InLog, Typed, TypeOK
    <3>2. \A d \in alerts' : InLog(d)'
      BY <2>2, <2>4, <3>1
    <3> QED BY <3>2 DEF AlertsAreLogged, InLog
  <2>6. MovesHaveEvidence'
    <3> SUFFICES ASSUME NEW i \in DOMAIN log'
                 PROVE  \E d \in Edges : log'[i] = Move(d) /\ Required[d] \subseteq events \cup erased
      BY <2>2 DEF MovesHaveEvidence, Move
    <3>1. CASE log'[i] = Move(e)
      BY <2>2, <2>3, <3>1 DEF Evident
    <3>2. CASE i \in DOMAIN log /\ log'[i] = log[i]
      BY <3>2 DEF RaceInv, MovesHaveEvidence
    <3> QED BY <2>4, <3>1, <3>2
  <2>7. \A v \in Workers : v = w \/ req'[v] = req[v]
    BY <2>2 DEF Others
  <2>8. ASSUME NEW v \in Workers, req'[v].pc \in {"referrals", "children", "save", "log"}
        PROVE  Required[req'[v].edge] \subseteq events' \cup erased'
    BY <2>2, <2>7, <2>8 DEF RaceInv, Evident
  <2>9. ASSUME NEW v \in Workers, req'[v].pc = "alert"
        PROVE  \E i \in DOMAIN log' : log'[i] = [from |-> From[req'[v].edge], to |-> To[req'[v].edge]]
    <3>1. PICK d : d = req'[v].edge
      OBVIOUS
    <3>2. CASE v = w
      BY <2>2, <2>4, <3>1, <3>2 DEF InLog, Move
    <3>3. CASE v # w
      <4>1. d \in Edges /\ InLog(d)
        BY <2>7, <2>9, <3>1, <3>3 DEF RaceInv, Typed, Transitional
      <4> QED BY <2>4, <3>1, <4>1 DEF InLog, Move
    <3> QED BY <3>2, <3>3
  <2> QED BY <2>5, <2>6, <2>8, <2>9 DEF RaceInv, Evident, InLog, Move
<1>5. ASSUME NEW w \in Workers, Alert(w) PROVE RaceInv'
  <2>1. /\ Others(w) /\ req[w].edge \in Edges /\ req[w].pc = "alert" /\ req'[w].pc = "idle"
        /\ alerts' = alerts \cup {req[w].edge} /\ UNCHANGED <<log, events, erased>>
    BY <1>5, AlertIs
  <2>2. MovesHaveEvidence'
    BY <2>1, LogStands DEF RaceInv
  <2>3. AlertsAreLogged'
    BY <2>1 DEF RaceInv, AlertsAreLogged, InLog, Move
  <2>4. \A v \in Workers : v = w \/ req'[v] = req[v]
    BY <2>1 DEF Others
  <2> QED BY <2>1, <2>2, <2>3, <2>4 DEF RaceInv, Evident, InLog, Move
<1>6. ASSUME NEW w \in Workers, SaveEdit(w) \/ \E r \in Referrals : CreateReferral(w, r)
      PROVE  RaceInv'
  <2>1. UNCHANGED <<log, alerts, events, erased>> /\ Others(w) /\ req'[w].pc = "idle"
    BY <1>6, SaveIs
  <2> QED BY <2>1, RaceStands
<1>7. CASE Single \/ UNCHANGED allVars
  <2>1. UNCHANGED <<log, alerts, req>> /\ events \cup erased \subseteq events' \cup erased'
    BY <1>7, SingleIs DEF allVars, tables
  <2>2. MovesHaveEvidence'
    BY <2>1, LogStands DEF RaceInv
  <2> QED BY <2>1, <2>2 DEF RaceInv, AlertsAreLogged, Evident, InLog, Move
<1> QED BY <1>1, <1>2, <1>3, <1>4, <1>5, <1>6, <1>7 DEF RequestsNext, Continue

(* The tables and what each worker remembers keep their types, however the *)
(* requests interleave and wherever they die.                              *)
THEOREM RequestsTypeInvariant == RequestsSpec => []RequestsTypeOK
<1>1. Typed => RequestsTypeOK
  BY DEF Typed, RequestsTypeOK, Job
<1> QED BY <1>1, TypedInit, TypedNext, PTL DEF RequestsSpec

LEMMA Races == RequestsSpec => []RaceInv
<1>1. RequestsInit => RaceInv
  BY DEF RequestsInit, Init, RaceInv, MovesHaveEvidence, AlertsAreLogged, Idle
<1> QED BY <1>1, TypedInit, TypedNext, RaceNext, PTL DEF RequestsSpec

(* Whatever requests come between its statements and wherever they die, a  *)
(* move that is logged had its events when it asked (perform_transition).  *)
THEOREM RacingMovesAreBacked == RequestsSpec => []MovesHaveEvidence
<1>1. RaceInv => MovesHaveEvidence
  BY DEF RaceInv
<1> QED BY <1>1, Races, PTL

(* And nobody is told of a move that is not logged: the alert comes last   *)
(* (notify_transition).                                                    *)
THEOREM AlertedMovesAreLogged == RequestsSpec => []AlertsAreLogged
<1>1. RaceInv => AlertsAreLogged
  BY DEF RaceInv
<1> QED BY <1>1, Races, PTL

-----------------------------------------------------------------------------
(* One request at a time: while one runs the others rest, what it has      *)
(* asked still holds, and it is on its way along its edge.                 *)

EditMay(s, set, from, old) ==
  /\ s # from => FormsMoveState
  /\ s # from \/ set # old

Alone == \A v, w \in Workers : v # w => At(v, "idle") \/ At(w, "idle")

Standing(job) ==
  /\ job.pc \in {"events", "referrals", "children", "save"} =>
       state = From[job.edge] /\ job.field = field
  /\ job.pc \in {"referrals", "children", "save", "log", "alert"} => Evidence(job.edge)
  /\ job.pc \in {"children", "save", "log", "alert"} => ReferralsSettled(job.edge)
  /\ job.pc \in {"save", "log", "alert"} =>
       /\ ChildrenClosed(job.edge) /\ FieldSet(job.edge, field)
       /\ job.edge \in NeedsComment => job.commented
  /\ job.pc \in {"log", "alert"} => state = To[job.edge]
  /\ job.pc = "alert" => log # <<>> /\ log[Len(log)] = Move(job.edge)
  /\ job.pc = "refer" => state \in AllowsReferrals
  /\ job.pc = "edit" => EditMay(job.state, job.field, state, field)

SerialInv == Alone /\ \A w \in Workers : Standing(req[w])

(* Whoever is not idle is the only one.                                    *)
LEMMA OneRuns ==
  ASSUME Alone, NEW w \in Workers, req[w].pc # "idle", Others(w)
  PROVE  \A v \in Workers \ {w} : req[v].pc = "idle" /\ req'[v].pc = "idle"
BY DEF Alone, At, Others

LEMMA StaysAlone ==
  ASSUME NEW w \in Workers, \A v \in Workers \ {w} : req'[v].pc = "idle" PROVE Alone'
BY DEF Alone, At

LEMMA IdleStands == \A job : job.pc = "idle" => Standing(job)
BY DEF Standing

LEMMA SerialInit == RequestsInit => SerialInv
BY DEF RequestsInit, SerialInv, Alone, At, Idle, Standing

(* The step of the one that runs, and the step that begins one.            *)
LEMMA StepKeeps ==
  ASSUME SerialInv, NEW w \in Workers, Others(w),
         \A v \in Workers \ {w} : req[v].pc = "idle", Standing(req[w])'
  PROVE  SerialInv'
<1>1. \A v \in Workers \ {w} : req'[v].pc = "idle"
  BY DEF Others
<1>2. Alone'
  BY <1>1, StaysAlone
<1>3. ASSUME NEW v \in Workers, v # w PROVE Standing(req[v])'
  BY <1>1, <1>3 DEF Standing
<1> QED BY <1>2, <1>3 DEF SerialInv

LEMMA SerialStep == Typed /\ SerialInv /\ [SerialNext]_allVars => SerialInv'
<1> SUFFICES ASSUME Typed, SerialInv, [SerialNext]_allVars PROVE SerialInv'
  OBVIOUS
<1>1. ASSUME AllIdle, NEW w \in Workers, Begin(w) PROVE SerialInv'
  <2>1. \A v \in Workers \ {w} : req[v].pc = "idle"
    BY <1>1 DEF AllIdle, At
  <2>2. Others(w) /\ UNCHANGED tables
    BY <1>1, BeginIs
  <2>3. Standing(req[w])'
    <3>1. CASE \E e \in Edges, commented \in BOOLEAN : LoadTransition(w, e, commented)
      <4> PICK e \in Edges, commented \in BOOLEAN : LoadTransition(w, e, commented)
        BY <3>1
      <4>1. /\ req'[w].pc = "events" /\ req'[w].edge = e /\ req'[w].field = field /\ From[e] = state
            /\ UNCHANGED <<state, field>>
        BY DEF LoadTransition, tables, Typed
      <4> QED BY <4>1 DEF Standing
    <3>2. CASE LoadRefer(w)
      <4>1. req'[w].pc = "refer" /\ state' \in AllowsReferrals
        BY <3>2 DEF LoadRefer, tables, Typed, Idle
      <4> QED BY <4>1 DEF Standing
    <3>3. CASE \E s \in States, set \in BOOLEAN : LoadEdit(w, s, set)
      <4> PICK s \in States, set \in BOOLEAN : LoadEdit(w, s, set)
        BY <3>3
      <4>1. /\ req'[w].pc = "edit" /\ req'[w].state = s /\ req'[w].field = set
            /\ UNCHANGED <<state, field>>
        BY DEF LoadEdit, tables, Typed, Idle
      <4>2. s # state => FormsMoveState
        BY DEF LoadEdit
      <4>3. s # state \/ set # field
        BY DEF LoadEdit
      <4>4. EditMay(s, set, state, field)
        BY <4>2, <4>3 DEF EditMay
      <4>5. EditMay(req'[w].state, req'[w].field, state', field')
        BY <4>1, <4>4
      <4> QED BY <4>1, <4>5 DEF Standing
    <3> QED BY <1>1, <3>1, <3>2, <3>3 DEF Begin
  <2> QED BY <2>1, <2>2, <2>3, StepKeeps
<1>2. CASE AllIdle /\ Single
  <2>1. req' = req /\ \A w \in Workers : req[w].pc = "idle"
    BY <1>2, SingleIs DEF AllIdle, At
  <2> QED BY <2>1 DEF SerialInv, Alone, At, Standing
<1>3. ASSUME NEW w \in Workers, ReadEvents(w) \/ ReadReferrals(w) \/ ReadChildren(w) PROVE SerialInv'
  <2>1. /\ UNCHANGED tables /\ Others(w) /\ req'[w].edge = req[w].edge
        /\ req'[w].field = req[w].field /\ req'[w].commented = req[w].commented
        /\ \/ /\ req[w].pc = "events" /\ req'[w].pc = "referrals" /\ Evidence(req[w].edge)
           \/ /\ req[w].pc = "referrals" /\ req'[w].pc = "children"
              /\ ReferralsSettled(req[w].edge)
           \/ /\ req[w].pc = "children" /\ req'[w].pc = "save"
              /\ ChildrenClosed(req[w].edge) /\ InMemory(w)
    BY <1>3, ReadIs
  <2>2. \A v \in Workers \ {w} : req[v].pc = "idle"
    BY <2>1, OneRuns DEF SerialInv
  <2>3. Standing(req[w])
    BY DEF SerialInv
  <2>4. UNCHANGED <<state, field, events, open, unclosed, log>>
    BY <2>1 DEF tables
  <2>5. Standing(req[w])'
    BY <2>1, <2>3, <2>4
    DEF Standing, InMemory, Evidence, ReferralsSettled, ChildrenClosed, FieldSet
  <2> QED BY <2>1, <2>2, <2>5, StepKeeps
<1>4. ASSUME NEW w \in Workers, SaveState(w) PROVE SerialInv'
  <2>1. /\ Others(w) /\ req'[w].edge = req[w].edge /\ req'[w].commented = req[w].commented
        /\ req[w].pc = "save" /\ req'[w].pc = "log" /\ state' = To[req[w].edge]
        /\ UNCHANGED <<field, events, open, unclosed, log>>
    BY <1>4, SaveStateIs
  <2>2. \A v \in Workers \ {w} : req[v].pc = "idle"
    BY <2>1, OneRuns DEF SerialInv
  <2>3. Standing(req[w])
    BY DEF SerialInv
  <2>4. Standing(req[w])'
    BY <2>1, <2>3 DEF Standing, Evidence, ReferralsSettled, ChildrenClosed, FieldSet
  <2> QED BY <2>1, <2>2, <2>4, StepKeeps
<1>5. ASSUME NEW w \in Workers, AppendLog(w) PROVE SerialInv'
  <2>1. /\ Others(w) /\ req'[w].edge = req[w].edge /\ req'[w].commented = req[w].commented
        /\ req[w].pc = "log" /\ req'[w].pc = "alert" /\ req[w].edge \in Edges
        /\ log' = Append(log, Move(req[w].edge))
        /\ UNCHANGED <<state, field, events, open, unclosed>>
    BY <1>5, AppendLogIs
  <2>2. \A v \in Workers \ {w} : req[v].pc = "idle"
    BY <2>1, OneRuns DEF SerialInv
  <2>3. Standing(req[w])
    BY DEF SerialInv
  <2>4. log' # <<>> /\ log'[Len(log')] = Move(req[w].edge)
    <3>1. Move(req[w].edge) \in Moves /\ log \in Seq(Moves)
      BY <2>1 DEF Moves, Typed, TypeOK
    <3> QED BY <2>1, <3>1, AppendedLog
  <2>5. Move(req'[w].edge) = Move(req[w].edge)
    BY <2>1
  <2>6. Standing(req[w])'
    BY <2>1, <2>3, <2>4, <2>5
    DEF Standing, Evidence, ReferralsSettled, ChildrenClosed, FieldSet, Move
  <2> QED BY <2>1, <2>2, <2>6, StepKeeps
<1>6. ASSUME NEW w \in Workers,
             \/ Refuse(w) \/ Alert(w) \/ SaveEdit(w)
             \/ \E r \in Referrals : CreateReferral(w, r)
      PROVE  SerialInv'
  <2>1. Others(w) /\ req[w].pc # "idle" /\ req'[w].pc = "idle"
    <3>1. CASE Refuse(w)
      BY <3>1, StopIs DEF Refuse, At
    <3>2. CASE Alert(w)
      BY <3>2, AlertIs
    <3>3. CASE SaveEdit(w) \/ \E r \in Referrals : CreateReferral(w, r)
      BY <3>3, SaveIs
    <3> QED BY <1>6, <3>1, <3>2, <3>3
  <2>2. \A v \in Workers \ {w} : req[v].pc = "idle"
    BY <2>1, OneRuns DEF SerialInv
  <2>3. Standing(req[w])'
    BY <2>1 DEF Standing
  <2> QED BY <2>1, <2>2, <2>3, StepKeeps
<1>7. CASE UNCHANGED allVars
  BY <1>7 DEF allVars, tables, SerialInv, Alone, At, Standing, Evidence, ReferralsSettled,
              ChildrenClosed, FieldSet
<1> QED BY <1>1, <1>2, <1>3, <1>4, <1>5, <1>6, <1>7 DEF SerialNext, Continue

LEMMA SerialTyped == Typed /\ [SerialNext]_allVars => Typed'
BY TypedNext DEF SerialNext, RequestsNext

LEMMA Serial == SerialSpec => [](Typed /\ SerialInv)
BY TypedInit, SerialInit, SerialTyped, SerialStep, PTL DEF SerialSpec

-----------------------------------------------------------------------------
(* The log of requests that come one at a time is the path once the move   *)
(* under way is logged, and until then the path to where it left.          *)

PathInv == /\ (\A w \in Workers : ~At(w, "log")) => Leads(log, state)
           /\ \A w \in Workers : At(w, "log") => Leads(log, From[req[w].edge])

LEMMA PathStands ==
  ASSUME PathInv, UNCHANGED <<state, log>>, NEW w \in Workers, Others(w),
         req[w].pc # "log", req'[w].pc # "log"
  PROVE  PathInv'
<1>1. \A v \in Workers : (At(v, "log")' <=> At(v, "log")) /\ (At(v, "log") => req'[v] = req[v])
  BY DEF At, Others
<1>2. (\A v \in Workers : ~At(v, "log")') => Leads(log', state')
  BY <1>1 DEF PathInv
<1>3. ASSUME NEW v \in Workers, At(v, "log")' PROVE Leads(log', From[req'[v].edge])
  BY <1>1, <1>3 DEF PathInv
<1> QED BY <1>2, <1>3 DEF PathInv, Leads

LEMMA PathStep ==
  ASSUME ~FormsMoveState
  PROVE  Typed /\ SerialInv /\ PathInv /\ [SerialNext]_allVars => PathInv'
<1> SUFFICES ASSUME Typed, SerialInv, PathInv, [SerialNext]_allVars PROVE PathInv'
  OBVIOUS
<1>1. ASSUME NEW w \in Workers, AllIdle, Begin(w) PROVE PathInv'
  <2>1. Others(w) /\ UNCHANGED <<state, log>> /\ req[w].pc = "idle" /\ req'[w].pc # "log"
    BY <1>1, BeginIs DEF tables
  <2> QED BY <2>1, PathStands
<1>2. ASSUME NEW w \in Workers, ReadEvents(w) \/ ReadReferrals(w) \/ ReadChildren(w) PROVE PathInv'
  <2>1. Others(w) /\ UNCHANGED <<state, log>> /\ req[w].pc # "log" /\ req'[w].pc # "log"
    BY <1>2, ReadIs DEF tables
  <2> QED BY <2>1, PathStands
<1>3. ASSUME NEW w \in Workers, Refuse(w) \/ Alert(w) PROVE PathInv'
  <2>1. CASE Refuse(w)
    <3>1. Others(w) /\ UNCHANGED <<state, log>> /\ req[w].pc # "log" /\ req'[w].pc # "log"
      BY <2>1, StopIs DEF tables, Refuse, At
    <3> QED BY <3>1, PathStands
  <2>2. CASE Alert(w)
    <3>1. Others(w) /\ UNCHANGED <<state, log>> /\ req[w].pc # "log" /\ req'[w].pc # "log"
      BY <2>2, AlertIs
    <3> QED BY <3>1, PathStands
  <2> QED BY <1>3, <2>1, <2>2
<1>4. ASSUME NEW w \in Workers, SaveEdit(w) \/ \E r \in Referrals : CreateReferral(w, r) PROVE PathInv'
  <2>1. Others(w) /\ UNCHANGED log /\ req[w].pc # "log" /\ req'[w].pc # "log"
    BY <1>4, SaveIs
  <2>2. UNCHANGED state
    <3>1. Standing(req[w])
      BY DEF SerialInv
    <3>2. req[w].pc = "edit" => req[w].state = state
      BY <3>1 DEF Standing, EditMay
    <3> QED BY <1>4, <3>2, SaveIs
  <2> QED BY <2>1, <2>2, PathStands
<1>5. ASSUME NEW w \in Workers, SaveState(w) PROVE PathInv'
  <2>1. /\ Others(w) /\ UNCHANGED log /\ req'[w].edge = req[w].edge
        /\ req[w].pc = "save" /\ req'[w].pc = "log"
    BY <1>5, SaveStateIs
  <2>2. \A v \in Workers \ {w} : req[v].pc = "idle" /\ req'[v].pc = "idle"
    BY <2>1, OneRuns DEF SerialInv
  <2>3. state = From[req[w].edge]
    BY <2>1 DEF SerialInv, Standing
  <2>4. Leads(log, From[req[w].edge])
    BY <2>1, <2>2, <2>3 DEF PathInv, At
  <2>5. Leads(log', From[req'[w].edge])
    BY <2>1, <2>4
  <2> QED BY <2>1, <2>2, <2>5 DEF PathInv, At, Leads
<1>6. ASSUME NEW w \in Workers, AppendLog(w) PROVE PathInv'
  <2>1. /\ Others(w) /\ UNCHANGED state /\ req[w].edge \in Edges
        /\ req[w].pc = "log" /\ req'[w].pc = "alert"
        /\ log' = Append(log, Move(req[w].edge))
    BY <1>6, AppendLogIs
  <2>2. \A v \in Workers \ {w} : req'[v].pc = "idle"
    BY <2>1, OneRuns DEF SerialInv
  <2>3. state = To[req[w].edge]
    BY <2>1 DEF SerialInv, Standing
  <2>4. Leads(log, From[req[w].edge]) /\ log \in Seq(Moves)
    BY <2>1 DEF PathInv, At, Typed, TypeOK
  <2>5. Leads(Append(log, Move(req[w].edge)), To[req[w].edge])
    BY <2>1, <2>4, PathGrows
  <2>6. Leads(log', state')
    BY <2>1, <2>3, <2>5
  <2> QED BY <2>1, <2>2, <2>6 DEF PathInv, At, Leads
<1>7. CASE Single \/ UNCHANGED allVars
  <2>1. UNCHANGED <<state, log, req>>
    BY <1>7, SingleIs DEF allVars, tables
  <2> QED BY <2>1 DEF PathInv, At, Leads
<1> QED BY <1>1, <1>2, <1>3, <1>4, <1>5, <1>6, <1>7 DEF SerialNext, Continue

(* Run one at a time, requests leave a log that is the record's whole path *)
(* whenever none is under way (perform_transition).                        *)
THEOREM LogIsThePathAtRest ==
  ASSUME ~FormsMoveState PROVE SerialSpec => []LogTellsStateAtRest
<1>1. RequestsInit => PathInv
  BY DEF RequestsInit, Init, PathInv, Leads, At, Idle
<1>2. PathInv => LogTellsStateAtRest
  BY LeadsIs DEF PathInv, LogTellsStateAtRest, At
<1> QED BY <1>1, <1>2, PathStep, Serial, PTL DEF SerialSpec

(* And a record in a sealed state has no open referral, though they ask    *)
(* for referrals and write the state in statements apart.                  *)
LEMMA SealedStep ==
  ASSUME ~FormsMoveState, ~AdminRefers
  PROVE  Typed /\ SerialInv /\ SealedStaysSettled /\ [SerialNext]_allVars => SealedStaysSettled'
<1> SUFFICES ASSUME Typed, SerialInv, SealedStaysSettled, [SerialNext]_allVars, state' \in Sealed
             PROVE  open' = {}
  BY DEF SealedStaysSettled, Sealed
<1>1. CASE state' = state /\ open' \subseteq open
  BY <1>1 DEF SealedStaysSettled
<1>2. ASSUME NEW w \in Workers,
             Begin(w) \/ ReadEvents(w) \/ ReadReferrals(w) \/ ReadChildren(w) \/ Refuse(w)
      PROVE  open' = {}
  <2>1. UNCHANGED tables
    BY <1>2 DEF Begin, LoadTransition, LoadRefer, LoadEdit, ReadEvents, ReadReferrals, ReadChildren,
                Refuse
  <2> QED BY <1>1, <2>1 DEF tables
<1>3. ASSUME NEW w \in Workers, AppendLog(w) \/ Alert(w) PROVE open' = {}
  BY <1>1, <1>3 DEF AppendLog, Alert
<1>4. ASSUME NEW w \in Workers, SaveState(w) PROVE open' = {}
  <2>1. /\ req[w].pc = "save" /\ req[w].edge \in Edges
        /\ state' = To[req[w].edge] /\ UNCHANGED open
    BY <1>4, SaveStateIs
  <2>2. "no_open_referrals" \in Conditions[req[w].edge]
    BY <2>1 DEF Sealed
  <2>3. ReferralsSettled(req[w].edge)
    BY <2>1 DEF SerialInv, Standing
  <2> QED BY <2>1, <2>2, <2>3 DEF ReferralsSettled
<1>5. ASSUME NEW w \in Workers, SaveEdit(w) \/ \E r \in Referrals : CreateReferral(w, r)
      PROVE  open' = {}
  <2>1. Standing(req[w])
    BY DEF SerialInv
  <2>2. CASE req[w].pc = "edit" /\ UNCHANGED open /\ state' = req[w].state
    <3>1. state' = state
      BY <2>1, <2>2 DEF Standing, EditMay
    <3> QED BY <1>1, <2>2, <3>1
  <2>3. CASE req[w].pc = "refer" /\ UNCHANGED state
    <3>1. state \in AllowsReferrals
      BY <2>1, <2>3 DEF Standing
    <3> QED BY <2>3, <3>1 DEF Sealed
  <2> QED BY <1>5, <2>2, <2>3, SaveIs
<1>6. CASE Single
  BY <1>1, <1>6, SingleIs
<1>7. CASE UNCHANGED allVars
  BY <1>1, <1>7 DEF allVars, tables
<1> QED BY <1>2, <1>3, <1>4, <1>5, <1>6, <1>7 DEF SerialNext, Continue

(* Run one at a time, requests move the record to a sealed state only when *)
(* no referral is open and refer from none such: at no statement of any    *)
(* request is a record in a sealed state that has an open referral.        *)
THEOREM SealedStatesSettledByRequests ==
  ASSUME ~FormsMoveState, ~AdminRefers PROVE SerialSpec => []SealedStaysSettled
<1>1. RequestsInit => SealedStaysSettled
  BY DEF RequestsInit, Init, SealedStaysSettled
<1> QED BY <1>1, SealedStep, Serial, PTL DEF SerialSpec

-----------------------------------------------------------------------------
(* The refinement: what SerialRequests shows of the record moves as        *)
(* StateMachine does. A transition takes its step as it alerts; every      *)
(* other statement that only reads, saves the state or logs shows nothing. *)

Shown == IF Moving THEN Left ELSE state
ShownLog == IF Logged THEN SubSeq(log, 1, Len(log) - 1) ELSE log

LEMMA FrontOfAppend ==
  ASSUME NEW S, NEW s \in Seq(S), NEW x \in S
  PROVE  SubSeq(Append(s, x), 1, Len(Append(s, x)) - 1) = s
<1> DEFINE t == Append(s, x)
           u == SubSeq(t, 1, Len(t) - 1)
<1>1. t \in Seq(S) /\ Len(t) = Len(s) + 1 /\ Len(s) \in Nat /\ \A i \in 1..Len(s) : t[i] = s[i]
  BY AppendedLog
<1> HIDE DEF t
<1>2. \A i \in 1..(Len(t) - 1) : t[i] \in S
  BY <1>1
<1>3. /\ u \in Seq(S) /\ Len(u) = Len(s)
      /\ \A i \in 1..Len(s) : u[i] = t[i]
  BY <1>1, <1>2, SubSeqProperties
<1> HIDE DEF u
<1>4. u = s
  BY <1>1, <1>3, SeqEqual
<1> QED BY <1>4 DEF u, t

LEMMA FrontAndLast ==
  ASSUME NEW S, NEW s \in Seq(S), s # <<>>
  PROVE  /\ s = Append(SubSeq(s, 1, Len(s) - 1), s[Len(s)])
         /\ Len(SubSeq(s, 1, Len(s) - 1)) < Len(s)
         /\ SubSeq(s, 1, Len(s) - 1) \in Seq(S)
<1> DEFINE n == Len(s) - 1
           u == SubSeq(s, 1, n)
<1>1. Len(s) \in Nat /\ Len(s) > 0 /\ s[Len(s)] \in S /\ n \in Int /\ n + 1 = Len(s) /\ n >= 0
  OBVIOUS
<1>2. \A i \in 1..n : s[i] \in S
  BY <1>1
<1> HIDE DEF n
<1>3. u \in Seq(S) /\ Len(u) = Len(s) - 1 /\ \A i \in 1..(Len(s) - 1) : u[i] = s[i]
  <2>1. /\ u \in Seq(S) /\ Len(u) = IF 1 <= n THEN n - 1 + 1 ELSE 0
        /\ \A i \in 1..(n - 1 + 1) : u[i] = s[1 + i - 1]
    BY <1>1, <1>2, SubSeqProperties
  <2>2. n - 1 + 1 = n /\ Len(s) - 1 = n /\ \A i \in 1..n : 1 + i - 1 = i
    BY <1>1
  <2> HIDE DEF u
  <2> QED BY <1>1, <2>1, <2>2
<1> HIDE DEF u
<1>4. /\ Append(u, s[Len(s)]) \in Seq(S) /\ Len(Append(u, s[Len(s)])) = Len(s)
      /\ Append(u, s[Len(s)])[Len(s)] = s[Len(s)]
      /\ \A i \in 1..(Len(s) - 1) : Append(u, s[Len(s)])[i] = s[i]
  BY <1>1, <1>3, AppendedLog
<1>5. \A i \in 1..Len(s) : Append(u, s[Len(s)])[i] = s[i]
  BY <1>1, <1>4
<1>6. Append(u, s[Len(s)]) = s
  BY <1>4, <1>5, SeqEqual
<1> QED BY <1>1, <1>3, <1>6 DEF u, n

(* What is shown, by where the one request that may be under way is.       *)
ShownRight ==
  /\ (\A w \in Workers : req[w].pc \notin {"log", "alert"}) => Shown = state /\ ShownLog = log
  /\ \A w \in Workers :
       /\ req[w].pc \in {"log", "alert"} /\ From[req[w].edge] \in States
       /\ \A v \in Workers \ {w} : req[v].pc = "idle"
       => /\ Shown = From[req[w].edge]
          /\ ShownLog = IF req[w].pc = "alert" THEN SubSeq(log, 1, Len(log) - 1) ELSE log

LEMMA ShownIs == ShownRight
<1>1. ASSUME \A w \in Workers : req[w].pc \notin {"log", "alert"}
      PROVE  Shown = state /\ ShownLog = log
  BY <1>1 DEF Shown, ShownLog, Moving, Logged, At
<1>2. ASSUME NEW w \in Workers, req[w].pc \in {"log", "alert"}, From[req[w].edge] \in States,
             \A v \in Workers \ {w} : req[v].pc = "idle"
      PROVE  /\ Shown = From[req[w].edge]
             /\ ShownLog = IF req[w].pc = "alert" THEN SubSeq(log, 1, Len(log) - 1) ELSE log
  <2>1. Moving /\ (Logged <=> req[w].pc = "alert")
    BY <1>2 DEF Moving, Logged, At
  <2>2. \A s \in States : (\E v \in Workers : req[v].pc \in {"log", "alert"} /\ s = From[req[v].edge])
                           <=> s = From[req[w].edge]
    BY <1>2
  <2>3. Left = From[req[w].edge]
    BY <1>2, <2>2, Zenon DEF Left
  <2> QED BY <2>1, <2>3 DEF Shown, ShownLog
<1> QED BY <1>1, <1>2 DEF ShownRight

LEMMA ShownNext == ShownRight'
BY ShownIs, PTL

LogInBound == Len(log) <= MaxLog

LEMMA LogInBoundStep == Typed /\ LogInBound /\ [SerialNext]_allVars => LogInBound'
<1> SUFFICES ASSUME Typed, LogInBound, [SerialNext]_allVars PROVE Len(log') <= MaxLog
  BY DEF LogInBound
<1>1. CASE log' = log
  BY <1>1 DEF LogInBound
<1>2. ASSUME NEW w \in Workers, AppendLog(w) PROVE Len(log') <= MaxLog
  <2>1. Move(req[w].edge) \in Moves /\ Len(log) < MaxLog /\ log' = Append(log, Move(req[w].edge))
    BY <1>2, AppendLogIs DEF Moves
  <2>2. Len(log') = Len(log) + 1 /\ Len(log) \in Nat
    BY <2>1, AppendedLog DEF Typed, TypeOK
  <2> QED BY <2>1, <2>2, TypeAssumption
<1>3. ASSUME NEW w \in Workers, Begin(w) \/ Continue(w), ~AppendLog(w) PROVE log' = log
  BY <1>3 DEF Begin, Continue, LoadTransition, LoadRefer, LoadEdit, ReadEvents, ReadReferrals,
              ReadChildren, Refuse, SaveState, Alert, CreateReferral, SaveEdit, tables
<1>4. CASE Single \/ UNCHANGED allVars
  BY <1>1, <1>4, SingleIs DEF allVars, tables
<1> QED BY <1>1, <1>2, <1>3, <1>4 DEF SerialNext, Continue

ShownAll == <<Shown, field, events, open, unclosed, ShownLog, alerts, erased>>

LEMMA ShownInit == RequestsInit => Atomic!Init
<1> SUFFICES ASSUME RequestsInit PROVE Atomic!Init
  OBVIOUS
<1>1. \A w \in Workers : req[w].pc = "idle"
  BY DEF RequestsInit, Idle
<1>2. Shown = state /\ ShownLog = log
  BY <1>1, ShownIs DEF ShownRight
<1> QED BY <1>2 DEF RequestsInit, Init, Atomic!Init, Shown, ShownLog

(* A step between two states in which no move is under way shows as it is. *)
LEMMA ShownAsIs ==
  ASSUME NEW w \in Workers, Others(w), \A v \in Workers \ {w} : req[v].pc = "idle",
         req[w].pc \notin {"log", "alert"}, req'[w].pc \notin {"log", "alert"}
  PROVE  Shown = state /\ ShownLog = log /\ Shown' = state' /\ ShownLog' = log'
<1>1. \A v \in Workers : req[v].pc \notin {"log", "alert"} /\ req'[v].pc \notin {"log", "alert"}
  BY DEF Others
<1>2. (\A v \in Workers : req'[v].pc \notin {"log", "alert"}) => Shown' = state' /\ ShownLog' = log'
  BY ShownNext DEF ShownRight
<1> QED BY <1>1, <1>2, ShownIs DEF ShownRight

LEMMA ShownStep ==
  Typed /\ SerialInv /\ LogInBound /\ Typed' /\ [SerialNext]_allVars => [Atomic!Next]_ShownAll
<1> SUFFICES ASSUME Typed, SerialInv, LogInBound, Typed', [SerialNext]_allVars
             PROVE  Atomic!Next \/ UNCHANGED ShownAll
  OBVIOUS
<1>0. log \in Seq(Moves) /\ \A e \in Edges : From[e] \in States
  BY TypeAssumption DEF Typed, TypeOK
<1>1. ASSUME AllIdle, NEW w \in Workers, Begin(w) PROVE UNCHANGED ShownAll
  <2>1. /\ UNCHANGED tables /\ Others(w) /\ req'[w].pc \notin {"log", "alert"}
        /\ \A v \in Workers : req[v].pc = "idle"
    BY <1>1, BeginIs DEF AllIdle, At
  <2>2. Shown = state /\ ShownLog = log /\ Shown' = state' /\ ShownLog' = log'
    BY <2>1, ShownAsIs
  <2> QED BY <2>1, <2>2 DEF ShownAll, tables
<1>2. ASSUME NEW w \in Workers, ReadEvents(w) \/ ReadReferrals(w) \/ ReadChildren(w) \/ Refuse(w)
      PROVE  UNCHANGED ShownAll
  <2>1. /\ UNCHANGED tables /\ Others(w) /\ req'[w].pc \notin {"log", "alert"}
        /\ req[w].pc \notin {"log", "alert", "idle"}
    <3>1. CASE Refuse(w)
      BY <3>1, StopIs DEF Refuse, At
    <3>2. CASE ReadEvents(w) \/ ReadReferrals(w) \/ ReadChildren(w)
      BY <3>2, ReadIs
    <3> QED BY <1>2, <3>1, <3>2
  <2>2. \A v \in Workers \ {w} : req[v].pc = "idle"
    BY <2>1, OneRuns DEF SerialInv
  <2>3. Shown = state /\ ShownLog = log /\ Shown' = state' /\ ShownLog' = log'
    BY <2>1, <2>2, ShownAsIs
  <2> QED BY <2>1, <2>3 DEF ShownAll, tables
<1>3. ASSUME NEW w \in Workers, SaveState(w) PROVE UNCHANGED ShownAll
  <2>1. /\ Others(w) /\ req[w].pc = "save" /\ req'[w].pc = "log" /\ req[w].edge \in Edges
        /\ req'[w].edge = req[w].edge
        /\ UNCHANGED <<field, events, open, unclosed, log, alerts, erased>>
    BY <1>3, SaveStateIs
  <2>2. \A v \in Workers \ {w} : req[v].pc = "idle" /\ req'[v].pc = "idle"
    BY <2>1, OneRuns DEF SerialInv
  <2>3. Shown = state /\ ShownLog = log
    BY <2>1, <2>2, ShownIs DEF ShownRight
  <2>4. state = From[req[w].edge]
    BY <2>1 DEF SerialInv, Standing
  <2>5. Shown' = From[req[w].edge] /\ ShownLog' = log'
    BY <1>0, <2>1, <2>2, ShownNext DEF ShownRight
  <2> QED BY <2>1, <2>3, <2>4, <2>5 DEF ShownAll
<1>4. ASSUME NEW w \in Workers, AppendLog(w) PROVE UNCHANGED ShownAll
  <2>1. /\ Others(w) /\ req[w].pc = "log" /\ req'[w].pc = "alert" /\ req[w].edge \in Edges
        /\ req'[w].edge = req[w].edge /\ log' = Append(log, Move(req[w].edge))
        /\ UNCHANGED <<field, events, open, unclosed, alerts, erased>>
    BY <1>4, AppendLogIs
  <2>2. \A v \in Workers \ {w} : req[v].pc = "idle" /\ req'[v].pc = "idle"
    BY <2>1, OneRuns DEF SerialInv
  <2>3. Shown = From[req[w].edge] /\ ShownLog = log
    BY <1>0, <2>1, <2>2, ShownIs DEF ShownRight
  <2>4. Shown' = From[req[w].edge] /\ ShownLog' = SubSeq(log', 1, Len(log') - 1)
    BY <1>0, <2>1, <2>2, ShownNext DEF ShownRight
  <2>5. SubSeq(log', 1, Len(log') - 1) = log
    <3>1. Move(req[w].edge) \in Moves
      BY <2>1 DEF Moves
    <3> QED BY <1>0, <2>1, <3>1, FrontOfAppend
  <2> QED BY <2>1, <2>3, <2>4, <2>5 DEF ShownAll
<1>5. ASSUME NEW w \in Workers, Alert(w) PROVE Atomic!Next
  <2>1. PICK e : e = req[w].edge
    OBVIOUS
  <2>2. /\ Others(w) /\ req[w].pc = "alert" /\ req'[w].pc = "idle" /\ e \in Edges
        /\ alerts' = alerts \cup {e}
        /\ UNCHANGED <<state, field, events, open, unclosed, log, erased>>
    BY <1>5, <2>1, AlertIs
  <2>3. \A v \in Workers \ {w} : req[v].pc = "idle" /\ req'[v].pc = "idle"
    BY <2>2, OneRuns DEF SerialInv
  <2>4. Shown = From[e] /\ ShownLog = SubSeq(log, 1, Len(log) - 1)
    BY <1>0, <2>1, <2>2, <2>3, ShownIs DEF ShownRight
  <2>5. Shown' = state /\ ShownLog' = log
    <3>1. \A v \in Workers : req'[v].pc \notin {"log", "alert"}
      BY <2>2, <2>3
    <3> QED BY <2>2, <3>1, ShownNext DEF ShownRight
  <2>6. /\ Evidence(e) /\ ReferralsSettled(e) /\ ChildrenClosed(e) /\ FieldSet(e, field)
        /\ e \in NeedsComment => req[w].commented
        /\ state = To[e] /\ log # <<>> /\ log[Len(log)] = Move(e)
    BY <2>1, <2>2 DEF SerialInv, Standing
  <2>7. log = Append(ShownLog, Move(e)) /\ Len(ShownLog) < Len(log)
    BY <1>0, <2>4, <2>6, FrontAndLast
  <2>8. Len(ShownLog) < MaxLog
    <3>1. ShownLog \in Seq(Moves) /\ Len(log) \in Nat /\ Len(log) <= MaxLog /\ MaxLog \in Nat
      BY <1>0, <2>4, <2>6, FrontAndLast, TypeAssumption DEF LogInBound
    <3>2. Len(ShownLog) \in Nat
      BY <3>1
    <3> HIDE DEF ShownLog
    <3> QED BY <2>7, <3>1, <3>2
  <2>9. Atomic!PerformTransition(e, req[w].commented)
    BY <2>2, <2>4, <2>5, <2>6, <2>7, <2>8
    DEF Shown, ShownLog, Atomic!PerformTransition, Atomic!Evidence, Atomic!RulesHold,
        Atomic!ReferralsSettled, Atomic!ChildrenClosed, Atomic!FieldSet, Atomic!Move,
        Evidence, ReferralsSettled, ChildrenClosed, FieldSet, Move
  <2>10. req[w].commented \in BOOLEAN
    BY DEF Typed, Job
  <2> QED BY <2>2, <2>9, <2>10 DEF Atomic!Next
<1>6. ASSUME NEW w \in Workers, SaveEdit(w) \/ \E r \in Referrals : CreateReferral(w, r)
      PROVE  Atomic!Next
  <2>1. /\ Others(w) /\ req[w].pc \in {"edit", "refer"} /\ req'[w].pc = "idle"
        /\ UNCHANGED <<events, unclosed, log, alerts, erased>>
    BY <1>6, SaveIs
  <2>2. \A v \in Workers \ {w} : req[v].pc = "idle"
    BY <2>1, OneRuns DEF SerialInv
  <2>3. Shown = state /\ ShownLog = log /\ Shown' = state' /\ ShownLog' = log
    BY <2>1, <2>2, ShownAsIs
  <2>4. CASE SaveEdit(w)
    <3>1. PICK s \in States, set \in BOOLEAN : s = req[w].state /\ set = req[w].field
      BY DEF Typed, Job
    <3>2. req[w].pc = "edit" /\ state' = s /\ field' = set /\ UNCHANGED open
      BY <2>4, <3>1 DEF SaveEdit, At
    <3>3. EditMay(s, set, state, field)
      BY <3>1, <3>2 DEF SerialInv, Standing
    <3>4. s # state => FormsMoveState
      BY <3>3 DEF EditMay
    <3>5. <<s, set>> # <<state, field>>
      BY <3>3 DEF EditMay
    <3>6. Atomic!EditRecord(s, set)
      BY <2>1, <2>3, <3>2, <3>4, <3>5 DEF Shown, ShownLog, Atomic!EditRecord
    <3> QED BY <3>6 DEF Atomic!Next
  <2>5. ASSUME NEW r \in Referrals, CreateReferral(w, r) PROVE Atomic!Next
    <3>1. req[w].pc = "refer" /\ r \notin open /\ open' = open \cup {r} /\ UNCHANGED <<state, field>>
      BY <2>5 DEF CreateReferral, At
    <3>2. state \in AllowsReferrals
      BY <3>1 DEF SerialInv, Standing
    <3>3. Atomic!Refer(r)
      BY <2>1, <2>3, <3>1, <3>2 DEF Shown, ShownLog, Atomic!Refer
    <3> QED BY <3>3 DEF Atomic!Next
  <2> QED BY <1>6, <2>4, <2>5
<1>7. CASE AllIdle /\ Single
  <2>1. \A w \in Workers : req[w].pc = "idle" /\ req'[w].pc = "idle"
    BY <1>7, SingleIs DEF AllIdle, At
  <2>2. Shown = state /\ ShownLog = log /\ Shown' = state' /\ ShownLog' = log'
    BY <2>1, ShownIs, ShownNext DEF ShownRight
  <2>3. CASE \E t \in EventTypes : RecordEvent(t) \/ AdminDeleteEvent(t)
    BY <2>2, <2>3 DEF RecordEvent, AdminDeleteEvent, Shown, ShownLog, Atomic!RecordEvent,
                      Atomic!AdminDeleteEvent, Atomic!Next
  <2>4. CASE \E r \in Referrals : CloseReferral(r)
    BY <2>2, <2>4 DEF CloseReferral, Shown, ShownLog, Atomic!CloseReferral, Atomic!Next
  <2>5. CASE \E r \in Referrals : AdminRefers /\ Refer(r)
    BY <2>2, <2>5 DEF Refer, Shown, ShownLog, Atomic!Refer, Atomic!Next
  <2>6. CASE \E c \in Children : ChildChanges(c)
    BY <2>2, <2>6 DEF ChildChanges, Shown, ShownLog, Atomic!ChildChanges, Atomic!Next
  <2> QED BY <1>7, <2>3, <2>4, <2>5, <2>6 DEF Single
<1>8. CASE UNCHANGED allVars
  BY <1>8 DEF allVars, tables, ShownAll, Shown, ShownLog, Moving, Logged, Left, At
<1> QED BY <1>1, <1>2, <1>3, <1>4, <1>5, <1>6, <1>7, <1>8 DEF SerialNext, Continue

(* Whatever the type of the record and however many workers there are, one *)
(* request after another is one guarded step of StateMachine after         *)
(* another, and a refused one is none.                                     *)
THEOREM RequestsImplementStateMachine == SerialSpec => ImplementsStateMachine
<1>1. RequestsInit => LogInBound
  BY TypeAssumption DEF RequestsInit, Init, LogInBound
<1>2. SerialSpec => []LogInBound
  BY <1>1, LogInBoundStep, Serial, PTL DEF SerialSpec
<1>3. [Atomic!Next]_ShownAll => [Atomic!Next]_Atomic!vars
  BY DEF ShownAll, Shown, ShownLog, Atomic!vars
<1> QED BY <1>2, <1>3, ShownInit, ShownStep, Serial, PTL
    DEF SerialSpec, ImplementsStateMachine, Atomic!Spec

=============================================================================
