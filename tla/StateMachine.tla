---------------------------- MODULE StateMachine ----------------------------
(***************************************************************************)
(* One legislative record moving through the states of its workflow type,  *)
(* each operation run to its end before the next begins.                   *)
(*                                                                         *)
(* The type is data (State, Transition, TransitionCondition) and therefore *)
(* constant here.  `state` and `field` are columns of the record: its      *)
(* current_state, and whether the attribute a field_set rule names is set. *)
(* `events` are the types on its timeline, `open` its open referrals,      *)
(* `unclosed` its children in a state that is not terminal, `log` its      *)
(* TransitionLog and `alerts` the transitions stakeholders were told of.   *)
(* `erased` is history: the event types an administrator deleted.          *)
(***************************************************************************)
EXTENDS Naturals, Sequences

CONSTANTS
  States, Initial, AllowsReferrals,   \* State
  Edges, From, To,                    \* Transition
  Required, Conditions, NeedsComment, \* its guards
  EventTypes, Referrals, Children,
  FormsMoveState,  \* whether current_state is written by a form or the admin
  AdminRefers,     \* whether the admin adds or reopens referrals
  MaxLog           \* bound on the transitions taken

Rules == {"no_open_referrals", "all_children_closed", "field_set"}

ASSUME TypeAssumption ==
  /\ Initial \in States
  /\ AllowsReferrals \subseteq States
  /\ From \in [Edges -> States]
  /\ To \in [Edges -> States]
  /\ Required \in [Edges -> SUBSET EventTypes]
  /\ Conditions \in [Edges -> SUBSET Rules]
  /\ NeedsComment \subseteq Edges
  /\ {FormsMoveState, AdminRefers} \subseteq BOOLEAN
  /\ MaxLog \in Nat

VARIABLES state, field, events, open, unclosed, log, alerts, erased

vars == <<state, field, events, open, unclosed, log, alerts, erased>>

Move(e) == [from |-> From[e], to |-> To[e]]

-----------------------------------------------------------------------------
(* unmet_transition_conditions is empty *)

Evidence(e) == Required[e] \subseteq events

(* Mutation: an open referral blocks only while children are open too. *)
ReferralsSettledOrClosed(e) ==
  "no_open_referrals" \in Conditions[e] => open = {} \/ unclosed = {}

ReferralsSettled(e) == "no_open_referrals" \in Conditions[e] => open = {}

ChildrenClosed(e) == "all_children_closed" \in Conditions[e] => unclosed = {}

FieldSet(e, value) == "field_set" \in Conditions[e] => value

RulesHold(e) == ReferralsSettled(e) /\ ChildrenClosed(e) /\ FieldSet(e, field)

(* Mutation: the state the record has left is not checked. *)
TakeFromAnywhere(e, commented) ==
  /\ Evidence(e)
  /\ RulesHold(e)
  /\ e \in NeedsComment => commented
  /\ Len(log) < MaxLog
  /\ state' = To[e]
  /\ log' = Append(log, Move(e))
  /\ alerts' = alerts \cup {e}
  /\ UNCHANGED <<field, events, open, unclosed, erased>>

(* perform_transition *)
PerformTransition(e, commented) ==
  /\ From[e] = state
  /\ Evidence(e)
  /\ RulesHold(e)
  /\ e \in NeedsComment => commented
  /\ Len(log) < MaxLog
  /\ state' = To[e]
  /\ log' = Append(log, Move(e))
  /\ alerts' = alerts \cup {e}
  /\ UNCHANGED <<field, events, open, unclosed, erased>>

-----------------------------------------------------------------------------
RecordEvent(t) == /\ t \notin events
                  /\ events' = events \cup {t}
                  /\ UNCHANGED <<state, field, open, unclosed, log, alerts, erased>>

(* refer(); the admin's forms do not ask the state.                        *)
Refer(r) == /\ r \notin open
            /\ state \in AllowsReferrals \/ AdminRefers
            /\ open' = open \cup {r}
            /\ UNCHANGED <<state, field, events, unclosed, log, alerts, erased>>

CloseReferral(r) == /\ r \in open
                    /\ open' = open \ {r}
                    /\ UNCHANGED <<state, field, events, unclosed, log, alerts, erased>>

(* The edit form of the record, or its page in the admin.                  *)
EditRecord(s, set) == /\ s # state => FormsMoveState
                      /\ <<s, set>> # <<state, field>>
                      /\ state' = s
                      /\ field' = set
                      /\ UNCHANGED <<events, open, unclosed, log, alerts, erased>>

(* A child is attached, detached, closed or reopened: its own record's     *)
(* business, never this one's.                                             *)
ChildChanges(c) == /\ unclosed' = IF c \in unclosed THEN unclosed \ {c} ELSE unclosed \cup {c}
                   /\ UNCHANGED <<state, field, events, open, log, alerts, erased>>

(* The admin shows the event log read-only but lets a row be deleted.      *)
AdminDeleteEvent(t) == /\ t \in events
                       /\ events' = events \ {t}
                       /\ erased' = erased \cup {t}
                       /\ UNCHANGED <<state, field, open, unclosed, log, alerts>>

-----------------------------------------------------------------------------
Init == /\ state = Initial
        /\ field \in BOOLEAN
        /\ events = {}
        /\ open = {}
        /\ unclosed = {}
        /\ log = <<>>
        /\ alerts = {}
        /\ erased = {}

Next == \/ \E e \in Edges, commented \in BOOLEAN : PerformTransition(e, commented)
        \/ \E t \in EventTypes : RecordEvent(t) \/ AdminDeleteEvent(t)
        \/ \E r \in Referrals : Refer(r) \/ CloseReferral(r)
        \/ \E s \in States, set \in BOOLEAN : EditRecord(s, set)
        \/ \E c \in Children : ChildChanges(c)

Spec == Init /\ [][Next]_vars

-----------------------------------------------------------------------------
Moves == {Move(e) : e \in Edges}

TypeOK == /\ state \in States
          /\ field \in BOOLEAN
          /\ events \subseteq EventTypes
          /\ open \subseteq Referrals
          /\ unclosed \subseteq Children
          /\ log \in Seq(Moves)
          /\ alerts \subseteq Edges
          /\ erased \subseteq EventTypes

(* Where the log says the record is.                                       *)
LoggedState == IF log = <<>> THEN Initial ELSE log[Len(log)].to

(* The log is a path of the machine from the initial state to the state    *)
(* the record is in: replaying it tells where the record has been, as long *)
(* as nothing but perform_transition writes current_state.                 *)
LogTellsState ==
  /\ LoggedState = state
  /\ log # <<>> => log[1].from = Initial
  /\ \A i \in DOMAIN log : i < Len(log) => log[i].to = log[i + 1].from

(* Every transition logged was backed, through some edge between its two   *)
(* states, by all the events it requires; they are still on the timeline   *)
(* but for those an administrator deleted.                                 *)
MovesHaveEvidence ==
  \A i \in DOMAIN log : \E e \in Edges :
    log[i] = Move(e) /\ Required[e] \subseteq events \cup erased

(* States that take no referrals and that every transition into them asks  *)
(* to have none open.                                                      *)
Sealed == {s \in States \ AllowsReferrals :
             \A e \in Edges : To[e] = s => "no_open_referrals" \in Conditions[e]}

(* A record in such a state has no open referral: the check on the way in  *)
(* and the refusal to refer once there add up.                             *)
SealedStaysSettled == state \in Sealed => open = {}

(* The timeline only ever grows ("Read-only view of the append-only domain *)
(* event log", admin.py).                                                  *)
AppendOnly == [][events \subseteq events']_vars

=============================================================================
