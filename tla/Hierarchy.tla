----------------------------- MODULE Hierarchy -----------------------------
(***************************************************************************)
(* The hierarchy of records: WorkflowRelationship rows, at most one per    *)
(* child (a unique constraint), each operation as one step.                *)
(*                                                                         *)
(* parent[c] is the record the row of child c names, and kind[c] its       *)
(* relationship_type; a row names records by type and key, so it outlives  *)
(* them.  Keys are not used again: a record deleted never comes back, and  *)
(* one still to be created is a record without links.                      *)
(***************************************************************************)
EXTENDS Naturals

CONSTANTS Records, NoRecord, Kinds,
          Allows  \* the pairs <<parent, child>> that the declared types permit

ASSUME HierarchyAssumption ==
  /\ NoRecord \notin Records
  /\ Allows \subseteq Records \X Records

VARIABLES existing, parent, kind

vars == <<existing, parent, kind>>

-----------------------------------------------------------------------------
(* parent_workflow: None for a root, and when the parent was deleted.      *)
Above(r) == IF parent[r] \in existing THEN parent[r] ELSE NoRecord

ClosedUp(S) == \A r \in S : Above(r) \in S \cup {NoRecord}

(* p and its ancestors: the records the walk up from p meets.              *)
Chain(p) == {a \in Records : \A S \in SUBSET Records : p \in S /\ ClosedUp(S) => a \in S}

(* The walk meets the child, or goes round without an end.                 *)
CreatesCycle(p, c) == c \in Chain(p) \/ \A a \in Chain(p) : Above(a) # NoRecord

Clean(p, c) == /\ {p, c} \subseteq existing
               /\ p # c
               /\ ~CreatesCycle(p, c)
               /\ <<p, c>> \in Allows

-----------------------------------------------------------------------------
SetParent(c, p, k) == /\ Clean(p, c)
                      /\ parent' = [parent EXCEPT ![c] = p]
                      /\ kind' = [kind EXCEPT ![c] = k]
                      /\ UNCHANGED existing

(* add_sub_workflow: a child that has a link keeps its parent.             *)
AddSub(p, c, k) == /\ Clean(IF parent[c] = NoRecord THEN p ELSE parent[c], c)
                   /\ parent' = [parent EXCEPT ![c] = IF @ = NoRecord THEN p ELSE @]
                   /\ kind' = [kind EXCEPT ![c] = k]
                   /\ UNCHANGED existing

(* clear_parent_workflow, remove_sub_workflow and the admin's delete.      *)
Detach(c) == /\ parent[c] # NoRecord
             /\ parent' = [parent EXCEPT ![c] = NoRecord]
             /\ UNCHANGED <<existing, kind>>

(* Mutant: the row is checked for the child it was for.                    *)
ChangeLinkUnchecked(c, p, d, k) == /\ parent[c] # NoRecord
                                   /\ d = c \/ parent[d] = NoRecord
                                   /\ Clean(p, c)
                                   /\ parent' = [parent EXCEPT ![c] = NoRecord, ![d] = p]
                                   /\ kind' = [kind EXCEPT ![d] = k]
                                   /\ UNCHANGED existing

(* The admin's change form may turn a row into one for another child.      *)
ChangeLink(c, p, d, k) == /\ parent[c] # NoRecord
                          /\ d = c \/ parent[d] = NoRecord
                          /\ Clean(p, d)
                          /\ parent' = [parent EXCEPT ![c] = NoRecord, ![d] = p]
                          /\ kind' = [kind EXCEPT ![d] = k]
                          /\ UNCHANGED existing

(* The rows that name the record are left.                                 *)
DeleteRecord(r) == /\ r \in existing
                   /\ existing' = existing \ {r}
                   /\ UNCHANGED <<parent, kind>>

-----------------------------------------------------------------------------
Init == /\ existing = Records
        /\ parent = [r \in Records |-> NoRecord]
        /\ kind \in {[r \in Records |-> k] : k \in Kinds}

Next == \/ \E p, c \in Records, k \in Kinds : SetParent(c, p, k) \/ AddSub(p, c, k)
        \/ \E c, p, d \in Records, k \in Kinds : ChangeLink(c, p, d, k)
        \/ \E r \in Records : Detach(r) \/ DeleteRecord(r)

Spec == Init /\ [][Next]_vars

-----------------------------------------------------------------------------
TypeOK == /\ existing \subseteq Records
          /\ parent \in [Records -> Records \cup {NoRecord}]
          /\ \A r \in Records : parent[r] # r
          /\ kind \in [Records -> Kinds]

(* "The links form a tree" (models/workflows.py, WorkflowRelationship): no *)
(* records stand above one another in a ring, so every walk up ends.       *)
Acyclic == \A S \in SUBSET existing : S # {} => \E r \in S : parent[r] \notin S

(* "Child instances": a link joins two records, so sub_workflows holds no  *)
(* None and what reads a child's state can.                                *)
LinksJoinRecords ==
  \A c \in Records : parent[c] # NoRecord => {c, parent[c]} \subseteq existing

(* "Attach child under this instance (re-parenting it if needed)": what    *)
(* add_sub_workflow accepted is a child of the instance.                   *)
AddedIsChild ==
  [][\A p, c \in Records, k \in Kinds : AddSub(p, c, k) /\ p # parent[c] => parent'[c] = p]_vars

=============================================================================
