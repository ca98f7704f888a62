------------------------- MODULE TransitionRequests -------------------------
(***************************************************************************)
(* StateMachine's operations as web requests run them: each loads the      *)
(* record, checks what it loaded and what it queries, and writes later, in *)
(* statements other requests come between (no ATOMIC_REQUESTS, no lock).   *)
(* `copy` in a request's memory is the record it loaded; requests made of  *)
(* a single write are StateMachine's own actions.                          *)
(***************************************************************************)
EXTENDS StateMachine

CONSTANTS Workers,
          NoEdge,
          Crashes  \* whether a worker may die between two statements

ASSUME RequestsAssumption == NoEdge \notin Edges /\ Crashes \in BOOLEAN

VARIABLE req

tables == <<state, field, events, open, unclosed, log, alerts, erased>>
allVars == <<tables, req>>

Idle == [pc |-> "idle", edge |-> NoEdge, commented |-> FALSE, state |-> Initial, field |-> FALSE]

At(w, pc) == req[w].pc = pc

Step(w, from, to) == /\ At(w, from)
                     /\ req' = [req EXCEPT ![w].pc = to]

End(w) == req' = [req EXCEPT ![w] = Idle]

-----------------------------------------------------------------------------
(* workflow_transition and perform_transition *)

(* _transition_or_404 offers the edges out of the loaded state, which is   *)
(* what perform_transition compares again: the copy does not change.       *)
(* Mutation: the edge is not looked for among those out of the state. *)
LoadAnyEdge(w, e, commented) ==
  /\ At(w, "idle")
  /\ req' = [req EXCEPT ![w] = [pc |-> "events", edge |-> e, commented |-> commented,
                                state |-> state, field |-> field]]
  /\ UNCHANGED tables

LoadTransition(w, e, commented) ==
  /\ At(w, "idle")
  /\ From[e] = state
  /\ req' = [req EXCEPT ![w] = [pc |-> "events", edge |-> e, commented |-> commented,
                                state |-> state, field |-> field]]
  /\ UNCHANGED tables

(* Mutation: the required events are not asked for. *)
ReadEventsNot(w) == Step(w, "events", "referrals") /\ UNCHANGED tables

ReadEvents(w) == /\ At(w, "events")
                 /\ Evidence(req[w].edge)
                 /\ Step(w, "events", "referrals")
                 /\ UNCHANGED tables

(* Mutation: open referrals are not asked for. *)
ReadReferralsNot(w) == Step(w, "referrals", "children") /\ UNCHANGED tables

ReadReferrals(w) == /\ At(w, "referrals")
                    /\ ReferralsSettled(req[w].edge)
                    /\ Step(w, "referrals", "children")
                    /\ UNCHANGED tables

(* What needs no query: the field of the copy, and the comment.            *)
InMemory(w) == /\ FieldSet(req[w].edge, req[w].field)
               /\ req[w].edge \in NeedsComment => req[w].commented

ReadChildren(w) == /\ At(w, "children")
                   /\ ChildrenClosed(req[w].edge)
                   /\ InMemory(w)
                   /\ Step(w, "children", "save")
                   /\ UNCHANGED tables

(* A guard is unmet: the page comes back with the reasons.                 *)
Refuse(w) == /\ \/ At(w, "events") /\ ~Evidence(req[w].edge)
                \/ At(w, "referrals") /\ ~ReferralsSettled(req[w].edge)
                \/ At(w, "children") /\ ~(ChildrenClosed(req[w].edge) /\ InMemory(w))
             /\ End(w)
             /\ UNCHANGED tables

(* save(update_fields=["current_state", "updated_at"])                     *)
(* Mutation: stakeholders are told before the log entry is written. *)
SaveAndAlert(w) == /\ At(w, "save")
                   /\ Len(log) < MaxLog
                   /\ state' = To[req[w].edge]
                   /\ alerts' = alerts \cup {req[w].edge}
                   /\ Step(w, "save", "log")
                   /\ UNCHANGED <<field, events, open, unclosed, log, erased>>

SaveState(w) == /\ At(w, "save")
                /\ Len(log) < MaxLog
                /\ state' = To[req[w].edge]
                /\ Step(w, "save", "log")
                /\ UNCHANGED <<field, events, open, unclosed, log, alerts, erased>>

(* Mutation: the state left is read after the save. *)
AppendLogAfter(w) == /\ At(w, "log")
                     /\ Len(log) < MaxLog
                     /\ log' = Append(log, [from |-> state, to |-> state])
                     /\ Step(w, "log", "alert")
                     /\ UNCHANGED <<state, field, events, open, unclosed, alerts, erased>>

AppendLog(w) == /\ At(w, "log")
                /\ Len(log) < MaxLog
                /\ log' = Append(log, Move(req[w].edge))
                /\ Step(w, "log", "alert")
                /\ UNCHANGED <<state, field, events, open, unclosed, alerts, erased>>

Alert(w) == /\ At(w, "alert")
            /\ alerts' = alerts \cup {req[w].edge}
            /\ End(w)
            /\ UNCHANGED <<state, field, events, open, unclosed, log, erased>>

-----------------------------------------------------------------------------
(* referral_create: the state asked is the loaded one *)

LoadRefer(w) == /\ At(w, "idle")
                /\ state \in AllowsReferrals
                /\ req' = [req EXCEPT ![w] = [Idle EXCEPT !.pc = "refer", !.state = state]]
                /\ UNCHANGED tables

CreateReferral(w, r) == /\ At(w, "refer")
                        /\ r \notin open
                        /\ open' = open \cup {r}
                        /\ End(w)
                        /\ UNCHANGED <<state, field, events, unclosed, log, alerts, erased>>

(* The edit form: save() writes every column of the copy, current_state    *)
(* among them even where the form shows it read-only.                      *)
LoadEdit(w, s, set) ==
  /\ At(w, "idle")
  /\ s # state => FormsMoveState
  /\ <<s, set>> # <<state, field>>
  /\ req' = [req EXCEPT ![w] = [Idle EXCEPT !.pc = "edit", !.state = s, !.field = set]]
  /\ UNCHANGED tables

SaveEdit(w) == /\ At(w, "edit")
               /\ state' = req[w].state
               /\ field' = req[w].field
               /\ End(w)
               /\ UNCHANGED <<events, open, unclosed, log, alerts, erased>>

Crash(w) == /\ Crashes
            /\ ~At(w, "idle")
            /\ End(w)
            /\ UNCHANGED tables

-----------------------------------------------------------------------------
RequestsInit == Init /\ req = [w \in Workers |-> Idle]

Continue(w) ==
  \/ ReadEvents(w) \/ ReadReferrals(w) \/ ReadChildren(w) \/ Refuse(w)
  \/ SaveState(w) \/ AppendLog(w) \/ Alert(w)
  \/ \E r \in Referrals : CreateReferral(w, r)
  \/ SaveEdit(w)

Begin(w) == \/ \E e \in Edges, commented \in BOOLEAN : LoadTransition(w, e, commented)
            \/ LoadRefer(w)
            \/ \E s \in States, set \in BOOLEAN : LoadEdit(w, s, set)

(* Requests and other records' handlers that write one row and are done.   *)
Single == /\ \/ \E t \in EventTypes : RecordEvent(t) \/ AdminDeleteEvent(t)
             \/ \E r \in Referrals : CloseReferral(r)
             \/ \E r \in Referrals : AdminRefers /\ Refer(r)
             \/ \E c \in Children : ChildChanges(c)
          /\ UNCHANGED req

RequestsNext == (\E w \in Workers : Begin(w) \/ Continue(w) \/ Crash(w)) \/ Single

RequestsSpec == RequestsInit /\ [][RequestsNext]_allVars

-----------------------------------------------------------------------------
RequestsTypeOK == /\ TypeOK
                  /\ \A w \in Workers : /\ req[w].edge \in Edges \cup {NoEdge}
                                        /\ req[w].state \in States

(* The record moves along an edge of its machine, out of the state it is   *)
(* in ("a hand-crafted request cannot name an edge the record has already  *)
(* passed. perform_transition() re-checks the same thing", views.py).      *)
MovesAlongEdges ==
  [][\A w \in Workers : At(w, "save") /\ At(w, "log")' =>
       From[req[w].edge] = state]_allVars

(* "state changes must go through the transition machine instead" of the   *)
(* edit form (forms.py, of the forms that protect current_state).          *)
EditsLeaveState ==
  [][\A w \in Workers : At(w, "edit") /\ At(w, "idle")' => state' = state]_allVars

(* Conditions "block perform_transition() until satisfied" (TransitionCon- *)
(* dition): the record never moves with one of them unmet.                 *)
MovesSettled ==
  [][\A w \in Workers : At(w, "save") /\ At(w, "log")' => RulesHold(req[w].edge)]_allVars

(* Referrals are "gated by State.allows_referrals" (docs/Functional        *)
(* Design.md).                                                             *)
ReferredWhereAllowed == [][open' \subseteq open \/ state \in AllowsReferrals]_allVars

(* Stakeholders are told of no move the log does not show, whatever dies   *)
(* or comes in between.                                                    *)
AlertsAreLogged == \A e \in alerts : \E i \in DOMAIN log : log[i] = Move(e)

(* With every request ended the log leads to the state the record is in    *)
(* ("Every workflow instance has a complete history", docs/Functional      *)
(* Design.md).                                                             *)
LogTellsStateAtRest == (\A w \in Workers : At(w, "idle")) => LogTellsState

=============================================================================
