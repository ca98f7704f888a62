--------------------------- MODULE SerialRequests ---------------------------
(***************************************************************************)
(* TransitionRequests with nothing between the statements of a request:    *)
(* the single step StateMachine gives each operation is then what happens. *)
(***************************************************************************)
EXTENDS TransitionRequests

AllIdle == \A w \in Workers : At(w, "idle")

SerialNext == \/ AllIdle /\ (Single \/ \E w \in Workers : Begin(w))
              \/ \E w \in Workers : Continue(w)

SerialSpec == RequestsInit /\ [][SerialNext]_allVars

-----------------------------------------------------------------------------
(* A transition under way shows once its alert is out: until then the      *)
(* state and the log are those before it wrote them.                       *)
Moving == \E w \in Workers : req[w].pc \in {"log", "alert"}
Logged == \E w \in Workers : At(w, "alert")

Left == CHOOSE s \in States : \E w \in Workers :
  req[w].pc \in {"log", "alert"} /\ s = From[req[w].edge]

Atomic == INSTANCE StateMachine WITH
  state <- IF Moving THEN Left ELSE state,
  log <- IF Logged THEN SubSeq(log, 1, Len(log) - 1) ELSE log

(* Run one at a time, a transition request moves the record, logs the move *)
(* and alerts as perform_transition in one step does, under all its guards *)
(* at once, and a refused one leaves nothing behind.                       *)
ImplementsStateMachine == Atomic!Spec

=============================================================================
