-------------------------- MODULE HierarchyRequests --------------------------
(***************************************************************************)
(* Hierarchy, statement by statement: set_parent_workflow, from the form   *)
(* of a resolution, and the admin's form for a new link, which makes the   *)
(* same checks and replaces nothing.  The walk up reads one link at a      *)
(* time, and the old link, the new one and the checks before each are in   *)
(* no common transaction.                                                  *)
(*                                                                         *)
(* Each request runs once, so that the one that wrote a row names the row. *)
(***************************************************************************)
EXTENDS Hierarchy

CONSTANTS Requests, NoRow, OldRow, Deletes

ASSUME RequestsAssumption == /\ Records # {}
                             /\ {NoRow, OldRow} \cap Requests = {}
                             /\ NoRow # OldRow
                             /\ Deletes \in BOOLEAN

VARIABLES row,  \* the row of each child, named by the request that wrote it
          req

allVars == <<existing, parent, kind, row, req>>

At(q, pc) == req[q].pc = pc
Child(q) == req[q].child

-----------------------------------------------------------------------------
(* The form caches the child's link when it is built; the admin has none.  *)
Begin(q, c, p, cached) ==
  /\ At(q, "idle")
  /\ {c, p} \subseteq existing
  /\ req' = [req EXCEPT ![q] =
       [pc |-> "check", child |-> c, to |-> p, node |-> p, seen |-> {}, removed |-> NoRecord,
        old |-> IF cached THEN row[c] ELSE NoRow]]
  /\ UNCHANGED <<existing, parent, kind, row>>

(* Mutant: any type may be a child.                                        *)
TypesUnchecked(q) == req[q].to # Child(q)

(* _validate_types, when the walk has come to a root.                      *)
TypesAllow(q) == <<req[q].to, Child(q)>> \in Allows

(* Mutant: the walk looks for the child at its start only.                 *)
InvalidShallow(q) ==
  \/ req[q].seen = {} /\ (~({req[q].to, Child(q)} \subseteq existing) \/ req[q].node = Child(q))
  \/ Above(req[q].node) = NoRecord /\ ~TypesAllow(q)

Invalid(q) == \/ req[q].seen = {} /\ ~({req[q].to, Child(q)} \subseteq existing)
              \/ req[q].node \in req[q].seen \cup {Child(q)}
              \/ Above(req[q].node) = NoRecord /\ ~TypesAllow(q)

Refuse(q) == /\ req[q].pc \in {"check", "recheck"}
             /\ Invalid(q)
             /\ req' = [req EXCEPT ![q].pc = "refused"]
             /\ UNCHANGED <<existing, parent, kind, row>>

(* One link of the walk in _creates_cycle.                                 *)
Climb(q) ==
  LET up == Above(req[q].node) IN
  /\ req[q].pc \in {"check", "recheck"}
  /\ ~Invalid(q)
  /\ req' = [req EXCEPT
       ![q].seen = @ \cup {req[q].node},
       ![q].node = up,
       ![q].pc = IF up # NoRecord THEN @ ELSE IF @ = "check" THEN "delete" ELSE "insert"]
  /\ UNCHANGED <<existing, parent, kind, row>>

(* Mutant: whatever link the child has goes, not the one that was read.    *)
DeleteAny(q) ==
  /\ At(q, "delete")
  /\ parent' = [parent EXCEPT ![Child(q)] = NoRecord]
  /\ row' = [row EXCEPT ![Child(q)] = NoRow]
  /\ req' = [req EXCEPT ![q].pc = "recheck", ![q].node = req[q].to, ![q].seen = {},
                        ![q].removed = parent[Child(q)]]
  /\ UNCHANGED <<existing, kind>>

(* existing.delete(), by the key of the row read: nothing when it is gone. *)
DeleteOld(q) ==
  LET c == Child(q)
      there == req[q].old # NoRow /\ row[c] = req[q].old
  IN
  /\ At(q, "delete")
  /\ parent' = [parent EXCEPT ![c] = IF there THEN NoRecord ELSE @]
  /\ row' = [row EXCEPT ![c] = IF there THEN NoRow ELSE @]
  /\ req' = [req EXCEPT ![q].pc = "recheck", ![q].node = req[q].to, ![q].seen = {},
                        ![q].removed = IF there THEN parent[c] ELSE NoRecord]
  /\ UNCHANGED <<existing, kind>>

Insert(q) == /\ At(q, "insert")
             /\ row[Child(q)] = NoRow
             /\ parent' = [parent EXCEPT ![Child(q)] = req[q].to]
             /\ row' = [row EXCEPT ![Child(q)] = q]
             /\ req' = [req EXCEPT ![q].pc = "done"]
             /\ UNCHANGED <<existing, kind>>

(* The unique constraint: IntegrityError.                                  *)
InsertTwice(q) == /\ At(q, "insert")
                  /\ row[Child(q)] # NoRow
                  /\ req' = [req EXCEPT ![q].pc = "refused"]
                  /\ UNCHANGED <<existing, parent, kind, row>>

Delete(r) == /\ Deletes
             /\ DeleteRecord(r)
             /\ UNCHANGED <<row, req>>

-----------------------------------------------------------------------------
Idle == [pc |-> "idle", child |-> CHOOSE r \in Records : TRUE, to |-> CHOOSE r \in Records : TRUE,
         node |-> NoRecord, seen |-> {}, removed |-> NoRecord, old |-> NoRow]

RequestsInit ==
  /\ existing = Records
  /\ parent \in {f \in [Records -> Records \cup {NoRecord}] :
                   \A r \in Records : f[r] # NoRecord => <<f[r], r>> \in Allows}
  /\ Acyclic
  /\ kind \in {[r \in Records |-> k] : k \in Kinds}
  /\ row = [r \in Records |-> IF parent[r] = NoRecord THEN NoRow ELSE OldRow]
  /\ req = [q \in Requests |-> Idle]

Starts(q) == \E c, p \in Records, cached \in BOOLEAN : Begin(q, c, p, cached)

Continue(q) == Refuse(q) \/ Climb(q) \/ DeleteOld(q) \/ Insert(q) \/ InsertTwice(q)

RequestsNext == \/ \E q \in Requests : Starts(q) \/ Continue(q)
                \/ \E r \in Records : Delete(r)

RequestsSpec == RequestsInit /\ [][RequestsNext]_allVars

-----------------------------------------------------------------------------
RequestsTypeOK ==
  /\ TypeOK
  /\ \A c \in Records : row[c] = NoRow <=> parent[c] = NoRecord
  /\ \A q \in Requests : row[Child(q)] = q => parent[Child(q)] = req[q].to
  /\ row \in [Records -> Requests \cup {OldRow, NoRow}]
  /\ req \in [Requests ->
       [pc : {"idle", "check", "delete", "recheck", "insert", "done", "refused"},
        child : Records, to : Records, node : Records \cup {NoRecord}, seen : SUBSET Records,
        removed : Records \cup {NoRecord}, old : Requests \cup {OldRow, NoRow}]]

(* A link once written is replaced only by a request that was built when   *)
(* it was there: a later form never undoes a choice it did not show.       *)
AcceptedStays ==
  \A q \in Requests : At(q, "done") =>
    \/ row[Child(q)] = q
    \/ \E r \in Requests : Child(r) = Child(q) /\ req[r].old = q

(* "The link is validated before the old one is removed so an invalid      *)
(* request never destroys existing hierarchy" (set_parent_workflow).       *)
RefusedKeepsLink ==
  \A q \in Requests : At(q, "refused") => req[q].removed = NoRecord \/ parent[Child(q)] # NoRecord

=============================================================================
