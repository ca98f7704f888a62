--------------------------- MODULE SerialHierarchy ---------------------------
(***************************************************************************)
(* HierarchyRequests with nothing between the statements of a request,     *)
(* beside the operations of Hierarchy that have no form of their own.      *)
(***************************************************************************)
EXTENDS HierarchyRequests

Underway == {q \in Requests : req[q].pc \in {"check", "delete", "recheck", "insert"}}

(* add_sub_workflow, the removals and the admin's change form: the rows    *)
(* they write are none of a request's.                                     *)
Whole == /\ \/ \E p, c \in Records, k \in Kinds : AddSub(p, c, k)
            \/ \E c, p, d \in Records, k \in Kinds : ChangeLink(c, p, d, k)
            \/ \E c \in Records : Detach(c)
         /\ row' = [c \in Records |-> IF parent'[c] = NoRecord THEN NoRow
                                      ELSE IF parent'[c] = parent[c] THEN row[c] ELSE OldRow]
         /\ UNCHANGED req

SerialNext == \/ Underway = {} /\ (\/ \E q \in Requests : Starts(q)
                                   \/ \E r \in Records : Delete(r)
                                   \/ Whole)
              \/ \E q \in Requests : Continue(q)

SerialSpec == RequestsInit /\ [][SerialNext]_allVars

-----------------------------------------------------------------------------
(* A link is replaced when its successor is in; until then it is there.    *)
Parent == [c \in Records |->
  IF \E q \in Underway : Child(q) = c /\ req[q].removed # NoRecord
  THEN req[CHOOSE q \in Underway : Child(q) = c].removed ELSE parent[c]]

Forest == INSTANCE Hierarchy WITH parent <- Parent

(* Run one at a time, a request walks up, replaces the link and keeps the  *)
(* records a forest as one guarded step does.                              *)
ImplementsHierarchy == [][Forest!Next]_<<existing, Parent, kind>>

=============================================================================
