-------------------------- MODULE Hierarchy_proofs --------------------------
(***************************************************************************)
(* The links stay a forest, for any set of records and any declared types, *)
(* and what becomes of a link while the requests' statements interleave.   *)
(*                                                                         *)
(* A ring is a nonempty set of records that each have their parent in it.  *)
(* If a step that puts c under p made one, S, both c and p would be in S.  *)
(* The check passed, so some set T closed under "parent of" holds p and    *)
(* not c: S \cap T would then have been a ring already.                    *)
(*                                                                         *)
(* Statement by statement the walk may be stale, and only types that nest  *)
(* one way keep rings out.  A request run alone is one step of Hierarchy:  *)
(* what its walk has seen is closed upwards but for the record it stands   *)
(* at, so the walk ends in such a T, and finds the same the second time.   *)
(***************************************************************************)
EXTENDS SerialHierarchy, TLAPS

IInv == TypeOK /\ Acyclic

(* What a passed check finds: a set closed upwards from p and without c.   *)
LEMMA CheckedWalk ==
  ASSUME NEW p \in Records, NEW c \in Records, Clean(p, c)
  PROVE  \E T \in SUBSET Records : p \in T /\ ClosedUp(T) /\ c \notin T
BY DEF Clean, CreatesCycle, Chain

(* Links that were removed make no ring.                                   *)
LEMMA FewerLinks ==
  ASSUME TypeOK, Acyclic,
         NEW f \in [Records -> Records \cup {NoRecord}],
         \A r \in Records : f[r] = parent[r] \/ f[r] = NoRecord,
         NEW S \in SUBSET existing, S # {}
  PROVE  \E r \in S : f[r] \notin S
<1>1. PICK r \in S : parent[r] \notin S
  BY DEF Acyclic
<1>2. r \in Records /\ NoRecord \notin S
  BY HierarchyAssumption DEF TypeOK
<1>3. QED
  BY <1>1, <1>2

(* A link from c to p after a passed check makes no ring, whatever link    *)
(* the step removes.                                                       *)
LEMMA CheckedLink ==
  ASSUME TypeOK, Acyclic,
         NEW p \in Records, NEW c \in Records, Clean(p, c),
         NEW f \in [Records -> Records \cup {NoRecord}],
         \A r \in Records \ {c} : f[r] = parent[r] \/ f[r] = NoRecord,
         f[c] = p,
         NEW S \in SUBSET existing, S # {}
  PROVE  \E r \in S : f[r] \notin S
<1> SUFFICES ASSUME \A r \in S : f[r] \in S
             PROVE  FALSE
  OBVIOUS
<1>1. PICK T \in SUBSET Records : p \in T /\ ClosedUp(T) /\ c \notin T
  BY CheckedWalk
<1>2. S \subseteq Records /\ NoRecord \notin S
  BY HierarchyAssumption DEF TypeOK
<1>3. ASSUME NEW r \in S \ {c}
      PROVE  parent[r] = f[r]
  <2>1. r \in Records \ {c} /\ f[r] # NoRecord
    BY <1>2
  <2>2. QED
    BY <2>1
<1>4. CASE c \notin S
  <2>1. \A r \in S : parent[r] \in S
    BY <1>3, <1>4
  <2>2. QED
    BY <2>1 DEF Acyclic
<1>5. CASE c \in S
  <2> DEFINE R == S \cap T
  <2>1. p \in R
    BY <1>1, <1>5
  <2>2. ASSUME NEW r \in R
        PROVE  parent[r] \in R
    <3>1. parent[r] \in S
      BY <1>1, <1>3
    <3>2. Above(r) = parent[r]
      BY <3>1 DEF Above
    <3>3. parent[r] # NoRecord
      BY <3>1, <1>2
    <3>4. QED
      BY <1>1, <3>1, <3>2, <3>3 DEF ClosedUp
  <2>3. R \in SUBSET existing /\ R # {}
    BY <2>1
  <2>4. QED
    BY <2>2, <2>3 DEF Acyclic
<1>6. QED
  BY <1>4, <1>5

LEMMA InitIInv == Init => IInv
<1> SUFFICES ASSUME Init PROVE IInv
  OBVIOUS
<1>1. TypeOK
  BY HierarchyAssumption DEF Init, TypeOK
<1>2. Acyclic
  BY HierarchyAssumption DEF Init, Acyclic
<1>3. QED
  BY <1>1, <1>2 DEF IInv

(* The steps keep the types, and no record becomes its own parent.         *)
LEMMA NextTypeOK == TypeOK /\ [Next]_vars => TypeOK'
<1> SUFFICES ASSUME TypeOK, [Next]_vars PROVE TypeOK'
  OBVIOUS
<1> USE HierarchyAssumption DEF TypeOK
<1>1. ASSUME NEW c \in Records, NEW p \in Records, NEW k \in Kinds, SetParent(c, p, k)
      PROVE  TypeOK'
  BY <1>1 DEF SetParent, Clean
<1>2. ASSUME NEW c \in Records, NEW p \in Records, NEW k \in Kinds, AddSub(p, c, k)
      PROVE  TypeOK'
  <2>1. CASE parent[c] = NoRecord
    BY <1>2, <2>1 DEF AddSub, Clean
  <2>2. CASE parent[c] # NoRecord
    BY <1>2, <2>2 DEF AddSub
  <2>3. QED
    BY <2>1, <2>2
<1>3. ASSUME NEW c \in Records, NEW p \in Records, NEW d \in Records, NEW k \in Kinds,
             ChangeLink(c, p, d, k)
      PROVE  TypeOK'
  BY <1>3 DEF ChangeLink, Clean
<1>4. ASSUME NEW r \in Records, Detach(r)
      PROVE  TypeOK'
  BY <1>4 DEF Detach
<1>5. ASSUME NEW r \in Records, DeleteRecord(r)
      PROVE  TypeOK'
  BY <1>5 DEF DeleteRecord
<1>6. CASE UNCHANGED vars
  BY <1>6 DEF vars
<1>7. QED
  BY <1>1, <1>2, <1>3, <1>4, <1>5, <1>6 DEF Next

LEMMA NextAcyclic == IInv /\ [Next]_vars => Acyclic'
<1> SUFFICES ASSUME IInv, [Next]_vars, NEW S \in SUBSET existing', S # {}
             PROVE  \E r \in S : parent'[r] \notin S
  BY DEF Acyclic
<1>0. TypeOK /\ Acyclic /\ TypeOK'
  BY NextTypeOK DEF IInv
<1>1. ASSUME NEW c \in Records, NEW p \in Records, NEW k \in Kinds, SetParent(c, p, k)
      PROVE  \E r \in S : parent'[r] \notin S
  <2>1. /\ Clean(p, c) /\ parent' \in [Records -> Records \cup {NoRecord}]
        /\ \A r \in Records \ {c} : parent'[r] = parent[r] \/ parent'[r] = NoRecord
        /\ parent'[c] = p /\ S \in SUBSET existing
    BY <1>0, <1>1 DEF SetParent, TypeOK
  <2>2. QED
    BY <1>0, <2>1, CheckedLink
<1>2. ASSUME NEW c \in Records, NEW p \in Records, NEW k \in Kinds, AddSub(p, c, k)
      PROVE  \E r \in S : parent'[r] \notin S
  <2>0. parent' \in [Records -> Records \cup {NoRecord}] /\ S \in SUBSET existing
    BY <1>0, <1>2 DEF AddSub, TypeOK
  <2>1. CASE parent[c] = NoRecord
    <3>1. /\ Clean(p, c) /\ parent'[c] = p
          /\ \A r \in Records \ {c} : parent'[r] = parent[r] \/ parent'[r] = NoRecord
      BY <1>0, <1>2, <2>1 DEF AddSub, TypeOK
    <3>2. QED
      BY <1>0, <2>0, <3>1, CheckedLink
  <2>2. CASE parent[c] # NoRecord
    <3>1. \A r \in Records : parent'[r] = parent[r] \/ parent'[r] = NoRecord
      BY <1>0, <1>2, <2>2 DEF AddSub, TypeOK
    <3>2. QED
      BY <1>0, <2>0, <3>1, FewerLinks
  <2>3. QED
    BY <2>1, <2>2
<1>3. ASSUME NEW c \in Records, NEW p \in Records, NEW d \in Records, NEW k \in Kinds,
             ChangeLink(c, p, d, k)
      PROVE  \E r \in S : parent'[r] \notin S
  <2>1. /\ Clean(p, d) /\ parent' \in [Records -> Records \cup {NoRecord}]
        /\ \A r \in Records \ {d} : parent'[r] = parent[r] \/ parent'[r] = NoRecord
        /\ parent'[d] = p /\ S \in SUBSET existing
    BY <1>0, <1>3 DEF ChangeLink, TypeOK
  <2>2. QED
    BY <1>0, <2>1, CheckedLink
<1>4. ASSUME NEW r \in Records, Detach(r) \/ DeleteRecord(r)
      PROVE  \E s \in S : parent'[s] \notin S
  <2>1. /\ parent' \in [Records -> Records \cup {NoRecord}]
        /\ \A s \in Records : parent'[s] = parent[s] \/ parent'[s] = NoRecord
        /\ S \in SUBSET existing
    BY <1>0, <1>4 DEF Detach, DeleteRecord, TypeOK
  <2>2. QED
    BY <1>0, <2>1, FewerLinks
<1>5. CASE UNCHANGED vars
  BY <1>0, <1>5 DEF vars, Acyclic
<1>6. QED
  BY <1>1, <1>2, <1>3, <1>4, <1>5 DEF Next

-----------------------------------------------------------------------------
(* Every reachable hierarchy is well typed, and no record is its own       *)
(* parent: the checks of WorkflowRelationship.clean before every save.     *)
THEOREM TypeInvariant == Spec => []TypeOK
<1>1. Init => TypeOK
  BY InitIInv DEF IInv
<1>2. QED
  BY <1>1, NextTypeOK, PTL DEF Spec

(* No sequence of attaching, re-parenting, detaching, changing links and   *)
(* deleting records, each as one step, puts records in a ring: the check   *)
(* of _creates_cycle is enough, for any number of records and any types.   *)
THEOREM AlwaysForest == Spec => []Acyclic
<1>1. IInv /\ [Next]_vars => IInv'
  BY NextTypeOK, NextAcyclic DEF IInv
<1>2. IInv => Acyclic
  BY DEF IInv
<1>3. QED
  BY InitIInv, <1>1, <1>2, PTL DEF Spec

-----------------------------------------------------------------------------
(* Requests, statement by statement.                                       *)

Job == [pc : {"idle", "check", "delete", "recheck", "insert", "done", "refused"},
        child : Records, to : Records, node : Records \cup {NoRecord}, seen : SUBSET Records,
        removed : Records \cup {NoRecord}, old : Requests \cup {OldRow, NoRow}]

Climbing == {"check", "recheck"}

Typed ==
  /\ TypeOK
  /\ row \in [Records -> Requests \cup {OldRow, NoRow}]
  /\ req \in [Requests -> Job]
  /\ \A c \in Records : row[c] = NoRow <=> parent[c] = NoRecord
  /\ \A q \in Requests :
       /\ req[q].pc \in Climbing => req[q].node \in Records
       /\ req[q].pc = "idle" => req[q].old = NoRow
       /\ req[q].pc \in {"delete", "recheck", "insert"} => req[q].to # Child(q)
       /\ req[q].pc = "check" => req[q].to # Child(q) \/ req[q].node = req[q].to

Others(q) == \A r \in Requests \ {q} : req'[r] = req[r]

Kept(q) == /\ req'[q].child = req[q].child /\ req'[q].to = req[q].to
           /\ req'[q].old = req[q].old

LEMMA BeginIs ==
  ASSUME Typed, NEW q \in Requests, NEW c \in Records, NEW p \in Records, NEW cached \in BOOLEAN,
         Begin(q, c, p, cached)
  PROVE  /\ req' \in [Requests -> Job] /\ Others(q) /\ UNCHANGED <<existing, parent, kind, row>>
         /\ req[q].pc = "idle" /\ req'[q].pc = "check" /\ {c, p} \subseteq existing
         /\ req'[q].child = c /\ req'[q].to = p /\ req'[q].node = p /\ req'[q].seen = {}
         /\ req'[q].removed = NoRecord
<1> DEFINE job == [pc |-> "check", child |-> c, to |-> p, node |-> p, seen |-> {},
                   removed |-> NoRecord, old |-> IF cached THEN row[c] ELSE NoRow]
<1>1. /\ job \in Job /\ job.pc = "check" /\ job.child = c /\ job.to = p /\ job.node = p
      /\ job.seen = {} /\ job.removed = NoRecord
  BY DEF Job, Typed
<1>2. /\ req' = [req EXCEPT ![q] = job] /\ UNCHANGED <<existing, parent, kind, row>>
      /\ req[q].pc = "idle" /\ {c, p} \subseteq existing
  BY DEF Begin, At
<1> HIDE DEF job
<1> QED BY <1>1, <1>2 DEF Typed, Others

LEMMA RefuseIs ==
  ASSUME Typed, NEW q \in Requests, Refuse(q) \/ InsertTwice(q)
  PROVE  /\ req' \in [Requests -> Job] /\ Others(q) /\ Kept(q)
         /\ UNCHANGED <<existing, parent, kind, row>> /\ req'[q].pc = "refused"
         /\ req'[q].removed = req[q].removed
         /\ \/ req[q].pc \in Climbing /\ Invalid(q)
            \/ req[q].pc = "insert" /\ row[Child(q)] # NoRow
BY DEF Typed, Job, Refuse, InsertTwice, At, Others, Kept, Climbing

LEMMA ClimbIs ==
  ASSUME Typed, NEW q \in Requests, Climb(q)
  PROVE  /\ req' \in [Requests -> Job] /\ Others(q) /\ Kept(q)
         /\ UNCHANGED <<existing, parent, kind, row>> /\ req[q].pc \in Climbing /\ ~Invalid(q)
         /\ req'[q].removed = req[q].removed
         /\ req'[q].seen = req[q].seen \cup {req[q].node}
         /\ req'[q].node = Above(req[q].node)
         /\ req'[q].pc = IF Above(req[q].node) # NoRecord THEN req[q].pc
                         ELSE IF req[q].pc = "check" THEN "delete" ELSE "insert"
<1>1. PICK up : up = Above(req[q].node)
  OBVIOUS
<1>2. req[q] \in Job /\ req[q].pc \in Climbing /\ ~Invalid(q) /\ UNCHANGED <<existing, parent, kind, row>>
  BY DEF Typed, Climb, Climbing
<1>3. req[q].node \in Records
  BY <1>2 DEF Typed
<1>4. up \in Records \cup {NoRecord}
  BY <1>1, <1>3 DEF Above, Typed, TypeOK
<1> DEFINE job == [req[q] EXCEPT !.seen = @ \cup {req[q].node}, !.node = up,
                    !.pc = IF up # NoRecord THEN @ ELSE IF @ = "check" THEN "delete" ELSE "insert"]
<1>5. req' = [req EXCEPT ![q] = job]
  BY <1>1 DEF Climb, Typed
<1>6. /\ job \in Job /\ job.child = req[q].child /\ job.to = req[q].to /\ job.old = req[q].old
      /\ job.removed = req[q].removed /\ job.seen = req[q].seen \cup {req[q].node}
      /\ job.node = up
      /\ job.pc = IF up # NoRecord THEN req[q].pc
                  ELSE IF req[q].pc = "check" THEN "delete" ELSE "insert"
  BY <1>2, <1>3, <1>4 DEF Job, Climbing
<1> HIDE DEF job
<1> QED BY <1>1, <1>2, <1>5, <1>6 DEF Typed, Others, Kept

LEMMA DeleteOldIs ==
  ASSUME Typed, NEW q \in Requests, DeleteOld(q)
  PROVE  /\ req' \in [Requests -> Job] /\ Others(q) /\ Kept(q) /\ UNCHANGED <<existing, kind>>
         /\ req[q].pc = "delete" /\ req'[q].pc = "recheck"
         /\ req'[q].node = req[q].to /\ req'[q].seen = {}
         /\ \/ /\ req[q].old # NoRow /\ row[Child(q)] = req[q].old
               /\ parent' = [parent EXCEPT ![Child(q)] = NoRecord]
               /\ row' = [row EXCEPT ![Child(q)] = NoRow]
               /\ req'[q].removed = parent[Child(q)]
            \/ UNCHANGED <<parent, row>> /\ req'[q].removed = NoRecord
<1>1. req[q] \in Job /\ Child(q) \in Records /\ parent[Child(q)] \in Records \cup {NoRecord}
  BY DEF Typed, TypeOK, Job, Child
<1>2. CASE req[q].old # NoRow /\ row[Child(q)] = req[q].old
  <2> DEFINE job == [req[q] EXCEPT !.pc = "recheck", !.node = req[q].to, !.seen = {},
                                    !.removed = parent[Child(q)]]
  <2>1. /\ req' = [req EXCEPT ![q] = job] /\ UNCHANGED <<existing, kind>> /\ req[q].pc = "delete"
        /\ parent' = [parent EXCEPT ![Child(q)] = NoRecord]
        /\ row' = [row EXCEPT ![Child(q)] = NoRow]
    BY <1>2 DEF DeleteOld, At, Typed, TypeOK
  <2>2. /\ job \in Job /\ job.child = req[q].child /\ job.to = req[q].to /\ job.old = req[q].old
        /\ job.pc = "recheck" /\ job.node = req[q].to /\ job.seen = {}
        /\ job.removed = parent[Child(q)]
    BY <1>1 DEF Job
  <2> HIDE DEF job
  <2> QED BY <1>2, <2>1, <2>2 DEF Typed, Others, Kept
<1>3. CASE ~(req[q].old # NoRow /\ row[Child(q)] = req[q].old)
  <2> DEFINE job == [req[q] EXCEPT !.pc = "recheck", !.node = req[q].to, !.seen = {},
                                    !.removed = NoRecord]
  <2>1. /\ req' = [req EXCEPT ![q] = job] /\ UNCHANGED <<existing, kind>> /\ req[q].pc = "delete"
        /\ parent' = parent /\ row' = row
    BY <1>1, <1>3 DEF DeleteOld, At, Typed, TypeOK
  <2>2. /\ job \in Job /\ job.child = req[q].child /\ job.to = req[q].to /\ job.old = req[q].old
        /\ job.pc = "recheck" /\ job.node = req[q].to /\ job.seen = {}
        /\ job.removed = NoRecord
    BY <1>1 DEF Job
  <2> HIDE DEF job
  <2> QED BY <2>1, <2>2 DEF Typed, Others, Kept
<1> QED BY <1>2, <1>3

LEMMA InsertIs ==
  ASSUME Typed, NEW q \in Requests, Insert(q)
  PROVE  /\ req' \in [Requests -> Job] /\ Others(q) /\ Kept(q) /\ UNCHANGED <<existing, kind>>
         /\ req[q].pc = "insert" /\ req'[q].pc = "done" /\ row[Child(q)] = NoRow
         /\ parent' = [parent EXCEPT ![Child(q)] = req[q].to]
         /\ row' = [row EXCEPT ![Child(q)] = q]
BY DEF Typed, Job, Insert, At, Others, Kept

LEMMA AllIdle == RequestsInit => \A q \in Requests : req[q].pc = "idle" /\ req[q].old = NoRow
<1>1. Idle.pc = "idle" /\ Idle.old = NoRow
  BY DEF Idle
<1> QED BY <1>1 DEF RequestsInit

LEMMA TypedInit == RequestsInit => Typed
<1> SUFFICES ASSUME RequestsInit PROVE Typed
  OBVIOUS
<1>1. parent \in [Records -> Records \cup {NoRecord}] /\ existing = Records
      /\ kind \in [Records -> Kinds]
  BY DEF RequestsInit
<1>2. \A r \in Records : parent[r] # r
  <2> SUFFICES ASSUME NEW r \in Records, parent[r] = r PROVE FALSE
    OBVIOUS
  <2>1. {r} \in SUBSET existing /\ {r} # {}
    BY <1>1
  <2>2. \E x \in {r} : parent[x] \notin {r}
    BY <2>1 DEF RequestsInit, Acyclic
  <2> QED BY <2>2
<1>3. row \in [Records -> Requests \cup {OldRow, NoRow}]
      /\ \A c \in Records : row[c] = NoRow <=> parent[c] = NoRecord
  BY <1>1, RequestsAssumption DEF RequestsInit
<1>4. req \in [Requests -> Job] /\ \A q \in Requests : req[q].pc = "idle" /\ req[q].old = NoRow
  <2>1. Idle \in Job
    BY RequestsAssumption DEF Idle, Job
  <2> QED BY <2>1 DEF RequestsInit, Idle
<1> QED BY <1>1, <1>2, <1>3, <1>4 DEF Typed, TypeOK, Climbing

(* Each statement keeps the types, and row and parent in step.             *)
LEMMA TypedNext == Typed /\ [RequestsNext]_allVars => Typed'
<1> SUFFICES ASSUME Typed, [RequestsNext]_allVars PROVE Typed'
  OBVIOUS
<1> USE HierarchyAssumption, RequestsAssumption
<1>1. ASSUME NEW q \in Requests, NEW c \in Records, NEW p \in Records, NEW cached \in BOOLEAN,
             Begin(q, c, p, cached)
      PROVE  Typed'
  BY <1>1, BeginIs DEF Typed, TypeOK, Others, Climbing, Child
<1>2. ASSUME NEW q \in Requests, Refuse(q) \/ InsertTwice(q)
      PROVE  Typed'
  BY <1>2, RefuseIs DEF Typed, TypeOK, Others, Kept, Climbing, Child
<1>3. ASSUME NEW q \in Requests, Climb(q)
      PROVE  Typed'
  <2>1. req[q].node \in Records /\ Above(req[q].node) \in Records \cup {NoRecord}
    BY <1>3, ClimbIs DEF Typed, TypeOK, Above
  <2>2. req[q].to # Child(q)
    BY <1>3, ClimbIs DEF Typed, Climbing, Invalid, Child
  <2> QED BY <1>3, <2>1, <2>2, ClimbIs DEF Typed, TypeOK, Others, Kept, Climbing, Child
<1>4. ASSUME NEW q \in Requests, DeleteOld(q)
      PROVE  Typed'
  <2>1. Child(q) \in Records /\ req[q].to \in Records /\ req[q].to # Child(q)
    BY <1>4, DeleteOldIs DEF Typed, Job, Child
  <2>2. TypeOK' /\ row' \in [Records -> Requests \cup {OldRow, NoRow}]
        /\ \A c \in Records : row'[c] = NoRow <=> parent'[c] = NoRecord
    BY <1>4, <2>1, DeleteOldIs DEF Typed, TypeOK
  <2> QED BY <1>4, <2>1, <2>2, DeleteOldIs DEF Typed, Others, Kept, Climbing, Child
<1>5. ASSUME NEW q \in Requests, Insert(q)
      PROVE  Typed'
  <2>1. Child(q) \in Records /\ req[q].to \in Records /\ req[q].to # Child(q)
    BY <1>5, InsertIs DEF Typed, Job, Child
  <2>2. TypeOK' /\ row' \in [Records -> Requests \cup {OldRow, NoRow}]
        /\ \A c \in Records : row'[c] = NoRow <=> parent'[c] = NoRecord
    BY <1>5, <2>1, InsertIs DEF Typed, TypeOK
  <2> QED BY <1>5, <2>1, <2>2, InsertIs DEF Typed, Others, Kept, Climbing, Child
<1>6. ASSUME NEW r \in Records, Delete(r)
      PROVE  Typed'
  BY <1>6 DEF Typed, TypeOK, Delete, DeleteRecord, Climbing, Child
<1>7. CASE UNCHANGED allVars
  BY <1>7 DEF allVars, Typed, TypeOK, Climbing, Child
<1> QED BY <1>1, <1>2, <1>3, <1>4, <1>5, <1>6, <1>7 DEF RequestsNext, Starts, Continue

(* The same with the whole operations beside the statements.               *)
LEMMA TypedSerial == Typed /\ [SerialNext]_allVars => Typed'
<1> SUFFICES ASSUME Typed, SerialNext, Whole PROVE Typed'
  BY TypedNext DEF SerialNext, RequestsNext
<1>1. Next /\ UNCHANGED <<existing, req>>
  BY DEF Whole, Next, AddSub, ChangeLink, Detach
<1>2. TypeOK'
  BY <1>1, NextTypeOK DEF Typed
<1>3. /\ row' \in [Records -> Requests \cup {OldRow, NoRow}]
      /\ \A c \in Records : row'[c] = NoRow <=> parent'[c] = NoRecord
  BY RequestsAssumption DEF Whole, Typed
<1> QED BY <1>1, <1>2, <1>3 DEF Typed, Climbing, Child

(* What was accepted stays until a form that showed it replaces it.        *)
LEMMA AcceptedNext == Typed /\ AcceptedStays /\ [RequestsNext]_allVars => AcceptedStays'
<1> SUFFICES ASSUME Typed, AcceptedStays, [RequestsNext]_allVars, NEW q \in Requests,
                    req'[q].pc = "done"
             PROVE  \/ row'[req'[q].child] = q
                    \/ \E r \in Requests : req'[r].child = req'[q].child /\ req'[r].old = q
  BY DEF AcceptedStays, At, Child
<1> USE RequestsAssumption
<1>0. /\ q # NoRow
      /\ \A r \in Requests : Child(r) \in Records
      /\ req[q].pc = "done" => \/ row[Child(q)] = q
                               \/ \E r \in Requests : Child(r) = Child(q) /\ req[r].old = q
      /\ \A r \in Requests : req[r].old = q => req[r].pc # "idle"
  BY DEF AcceptedStays, At, Typed, Job, Child
<1>1. ASSUME NEW s \in Requests, NEW c \in Records, NEW p \in Records, NEW cached \in BOOLEAN,
             Begin(s, c, p, cached)
      PROVE  \/ row'[req'[q].child] = q
             \/ \E r \in Requests : req'[r].child = req'[q].child /\ req'[r].old = q
  BY <1>0, <1>1, BeginIs DEF Others, Child
<1>2. ASSUME NEW s \in Requests, Refuse(s) \/ InsertTwice(s) \/ Climb(s)
      PROVE  \/ row'[req'[q].child] = q
             \/ \E r \in Requests : req'[r].child = req'[q].child /\ req'[r].old = q
  <2>1. Others(s) /\ Kept(s) /\ row' = row /\ req'[s].pc # "done"
    BY <1>2, RefuseIs, ClimbIs DEF Climbing
  <2> QED BY <1>0, <2>1 DEF Others, Kept, Child
<1>3. ASSUME NEW s \in Requests, DeleteOld(s)
      PROVE  \/ row'[req'[q].child] = q
             \/ \E r \in Requests : req'[r].child = req'[q].child /\ req'[r].old = q
  <2>1. q # s /\ req[q].pc = "done" /\ req'[q] = req[q]
        /\ \A r \in Requests : req'[r].child = Child(r) /\ req'[r].old = req[r].old
    BY <1>3, DeleteOldIs DEF Others, Kept, Child
  <2>2. row'[Child(q)] = row[Child(q)]
        \/ (Child(s) = Child(q) /\ row[Child(q)] = req[s].old)
    <3>1. CASE row' = row
      BY <3>1
    <3>2. CASE row' # row
      BY <1>0, <1>3, <3>2, DeleteOldIs DEF Typed
    <3> QED BY <3>1, <3>2
  <2> QED BY <1>0, <2>1, <2>2 DEF Child
<1>4. ASSUME NEW s \in Requests, Insert(s)
      PROVE  \/ row'[req'[q].child] = q
             \/ \E r \in Requests : req'[r].child = req'[q].child /\ req'[r].old = q
  <2>1. \A r \in Requests : req'[r].child = Child(r) /\ req'[r].old = req[r].old
    BY <1>4, InsertIs DEF Others, Kept, Child
  <2>2. row' = [row EXCEPT ![Child(s)] = s] /\ row[Child(s)] = NoRow
    BY <1>4, InsertIs
  <2>3. CASE q = s
    BY <1>0, <2>1, <2>2, <2>3 DEF Typed, Child
  <2>4. CASE q # s
    <3>1. req[q].pc = "done"
      BY <1>4, <2>4, InsertIs DEF Others
    <3>2. row[Child(q)] = q => Child(q) # Child(s) /\ row'[Child(q)] = q
      BY <1>0, <2>2 DEF Typed
    <3> QED BY <1>0, <2>1, <3>1, <3>2 DEF Child
  <2> QED BY <2>3, <2>4
<1>5. ASSUME NEW r \in Records, Delete(r)
      PROVE  \/ row'[req'[q].child] = q
             \/ \E s \in Requests : req'[s].child = req'[q].child /\ req'[s].old = q
  BY <1>0, <1>5 DEF Delete, Child
<1>6. CASE UNCHANGED allVars
  BY <1>0, <1>6 DEF allVars, Child
<1> QED BY <1>1, <1>2, <1>3, <1>4, <1>5, <1>6 DEF RequestsNext, Starts, Continue

(* Links, and requests past their walk, are between types that nest.       *)
LinksAllowed ==
  /\ \A c \in Records : parent[c] # NoRecord => <<parent[c], c>> \in Allows
  /\ \A q \in Requests : req[q].pc \in {"delete", "recheck", "insert"} => TypesAllow(q)

(* No set of records, each of which may stand under another of the set.    *)
TypesNest == \A S \in SUBSET Records : S # {} => \E r \in S : \A p \in S : <<p, r>> \notin Allows

LEMMA AllowedNext == Typed /\ LinksAllowed /\ [RequestsNext]_allVars => LinksAllowed'
<1> SUFFICES ASSUME Typed, LinksAllowed, [RequestsNext]_allVars PROVE LinksAllowed'
  OBVIOUS
<1>0. \A q \in Requests : Child(q) \in Records
  BY DEF Typed, Job, Child
<1>1. ASSUME NEW q \in Requests, NEW c \in Records, NEW p \in Records, NEW cached \in BOOLEAN,
             Begin(q, c, p, cached)
      PROVE  LinksAllowed'
  BY <1>1, BeginIs DEF LinksAllowed, Others, TypesAllow, Child
<1>2. ASSUME NEW q \in Requests, Refuse(q) \/ InsertTwice(q)
      PROVE  LinksAllowed'
  BY <1>2, RefuseIs DEF LinksAllowed, Others, TypesAllow, Child
<1>3. ASSUME NEW q \in Requests, Climb(q)
      PROVE  LinksAllowed'
  <2>1. ASSUME req'[q].pc \in {"delete", "recheck", "insert"}
        PROVE  TypesAllow(q)
    BY <1>3, <2>1, ClimbIs DEF LinksAllowed, Climbing, Invalid
  <2>2. \A r \in Requests : req'[r].pc \in {"delete", "recheck", "insert"}
          => <<req'[r].to, req'[r].child>> \in Allows
    BY <1>3, <2>1, ClimbIs DEF LinksAllowed, Others, Kept, TypesAllow, Child
  <2> QED BY <1>3, <2>2, ClimbIs DEF LinksAllowed, TypesAllow, Child
<1>4. ASSUME NEW q \in Requests, DeleteOld(q)
      PROVE  LinksAllowed'
  <2>1. \A c \in Records : parent'[c] # NoRecord => <<parent'[c], c>> \in Allows
    BY <1>0, <1>4, DeleteOldIs DEF LinksAllowed, Typed, TypeOK
  <2> QED BY <1>4, <2>1, DeleteOldIs DEF LinksAllowed, Others, Kept, TypesAllow, Child
<1>5. ASSUME NEW q \in Requests, Insert(q)
      PROVE  LinksAllowed'
  <2>1. TypesAllow(q)
    BY <1>5, InsertIs DEF LinksAllowed
  <2>2. \A c \in Records : parent'[c] # NoRecord => <<parent'[c], c>> \in Allows
    BY <1>0, <1>5, <2>1, InsertIs DEF LinksAllowed, Typed, TypeOK, TypesAllow
  <2> QED BY <1>5, <2>2, InsertIs DEF LinksAllowed, Others, Kept, TypesAllow, Child
<1>6. ASSUME NEW r \in Records, Delete(r)
      PROVE  LinksAllowed'
  BY <1>6 DEF Delete, DeleteRecord, LinksAllowed, TypesAllow, Child
<1>7. CASE UNCHANGED allVars
  BY <1>7 DEF allVars, LinksAllowed, TypesAllow, Child
<1> QED BY <1>1, <1>2, <1>3, <1>4, <1>5, <1>6, <1>7 DEF RequestsNext, Starts, Continue

-----------------------------------------------------------------------------
(* Requests one at a time: the walk, the delete, the second walk and the   *)
(* insert are one guarded step of Hierarchy, the insert.                   *)

(* Clean, of the links f between the records E.                            *)
UpIn(f, E, r) == IF f[r] \in E THEN f[r] ELSE NoRecord
ClosedIn(f, E, S) == \A r \in S : UpIn(f, E, r) \in S \cup {NoRecord}
ChainIn(f, E, p) == {a \in Records : \A S \in SUBSET Records : p \in S /\ ClosedIn(f, E, S) => a \in S}
CleanIn(f, E, p, c) == /\ {p, c} \subseteq E
                       /\ p # c
                       /\ ~(c \in ChainIn(f, E, p) \/ \A a \in ChainIn(f, E, p) : UpIn(f, E, a) # NoRecord)
                       /\ <<p, c>> \in Allows

(* The walk up from p has met the records of seen, and stands at node.     *)
WalkIn(f, E, p, c, node, seen) ==
  /\ {p, c} \subseteq E
  /\ c \notin seen
  /\ p \in seen \cup {node}
  /\ seen \cup {node} \subseteq ChainIn(f, E, p)
  /\ \A r \in seen : UpIn(f, E, r) \in seen \cup {node}

LEMMA CleanIs == ASSUME NEW p, NEW c PROVE Clean(p, c) <=> CleanIn(parent, existing, p, c)
BY DEF Clean, CreatesCycle, Chain, ClosedUp, Above, CleanIn, ChainIn, ClosedIn, UpIn

LEMMA ForestCleanIs ==
  ASSUME NEW p, NEW c PROVE Forest!Clean(p, c) <=> CleanIn(Parent, existing, p, c)
BY DEF Forest!Clean, Forest!CreatesCycle, Forest!Chain, Forest!ClosedUp, Forest!Above,
       CleanIn, ChainIn, ClosedIn, UpIn

LEMMA WalkStarts ==
  ASSUME NEW f, NEW E \in SUBSET Records, NEW p \in E, NEW c \in E
  PROVE  WalkIn(f, E, p, c, p, {})
BY DEF WalkIn, ChainIn

LEMMA WalkGoesOn ==
  ASSUME NEW f \in [Records -> Records \cup {NoRecord}], NEW E \in SUBSET Records,
         NEW p \in Records, NEW c \in Records, NEW node \in Records, NEW seen \in SUBSET Records,
         WalkIn(f, E, p, c, node, seen), node # c, UpIn(f, E, node) # NoRecord
  PROVE  WalkIn(f, E, p, c, UpIn(f, E, node), seen \cup {node})
<1>1. PICK up : up = UpIn(f, E, node)
  OBVIOUS
<1>2. up \in Records
  BY <1>1 DEF UpIn
<1>3. up \in ChainIn(f, E, p)
  <2> SUFFICES ASSUME NEW S \in SUBSET Records, p \in S, ClosedIn(f, E, S) PROVE up \in S
    BY <1>2 DEF ChainIn
  <2>1. node \in S
    BY DEF WalkIn, ChainIn
  <2> QED BY <1>1, <2>1 DEF ClosedIn
<1>4. \A r \in seen \cup {node} : UpIn(f, E, r) \in (seen \cup {node}) \cup {up}
  BY <1>1 DEF WalkIn
<1>5. WalkIn(f, E, p, c, up, seen \cup {node})
  BY <1>3, <1>4 DEF WalkIn
<1> QED BY <1>1, <1>5

LEMMA WalkEnds ==
  ASSUME NEW f \in [Records -> Records \cup {NoRecord}], NEW E \in SUBSET Records,
         NEW p \in Records, NEW c \in Records, NEW node \in Records, NEW seen \in SUBSET Records,
         WalkIn(f, E, p, c, node, seen), node # c, UpIn(f, E, node) = NoRecord,
         <<p, c>> \in Allows
  PROVE  CleanIn(f, E, p, c)
<1> DEFINE T == seen \cup {node}
<1>1. T \in SUBSET Records /\ p \in T /\ c \notin T /\ node \in ChainIn(f, E, p)
  BY DEF WalkIn
<1>2. ClosedIn(f, E, T)
  BY DEF ClosedIn, WalkIn
<1>3. c \notin ChainIn(f, E, p)
  BY <1>1, <1>2 DEF ChainIn
<1> QED BY <1>1, <1>3 DEF CleanIn, WalkIn

-----------------------------------------------------------------------------
Single == \A q, r \in Underway : q = r

(* What the request under way has made sure of.                            *)
Sure ==
  \A q \in Underway :
    /\ req[q].pc \in {"check", "delete"} => req[q].removed = NoRecord
    /\ req[q].removed # NoRecord => parent[req[q].child] = NoRecord
    /\ req[q].pc = "check"
         => WalkIn(parent, existing, req[q].to, req[q].child, req[q].node, req[q].seen)
    /\ req[q].pc # "check" => CleanIn(Parent, existing, req[q].to, req[q].child)

(* The links with the one that is being replaced still there.              *)
ReadParent ==
  /\ Underway = {} => Parent = parent
  /\ \A q \in Underway :
       Parent = IF req[q].removed = NoRecord THEN parent
                ELSE [parent EXCEPT ![req[q].child] = req[q].removed]

LEMMA ParentIs == Typed /\ Single => ReadParent
<1> SUFFICES ASSUME Typed, Single PROVE ReadParent
  OBVIOUS
<1>0. parent \in [Records -> Records \cup {NoRecord}]
  BY DEF Typed, TypeOK
<1>1. CASE Underway = {}
  BY <1>0, <1>1 DEF ReadParent, Parent
<1>2. ASSUME NEW q \in Underway
      PROVE  Parent = IF req[q].removed = NoRecord THEN parent
                      ELSE [parent EXCEPT ![req[q].child] = req[q].removed]
  <2>1. Underway = {q}
    BY <1>2 DEF Single
  <2>2. ASSUME NEW c \in Records
        PROVE  Parent[c] = IF req[q].child = c /\ req[q].removed # NoRecord
                           THEN req[q].removed ELSE parent[c]
    <3>1. CASE req[q].child = c
      <4>1. (CHOOSE r \in Underway : Child(r) = c) = q
        BY <2>1, <3>1 DEF Child
      <4> QED BY <2>1, <3>1, <4>1 DEF Parent, Child
    <3>2. CASE req[q].child # c
      BY <2>1, <3>2 DEF Parent, Child
    <3> QED BY <3>1, <3>2
  <2>3. Parent = [c \in Records |-> Parent[c]]
    BY DEF Parent
  <2> HIDE DEF Parent
  <2>4. CASE req[q].removed = NoRecord
    BY <1>0, <2>2, <2>3, <2>4
  <2>5. CASE req[q].removed # NoRecord
    <3>1. Parent = [parent EXCEPT ![req[q].child] = req[q].removed]
      BY <1>0, <2>2, <2>3, <2>5
    <3> QED BY <2>5, <3>1
  <2> QED BY <2>4, <2>5
<1> QED BY <1>1, <1>2 DEF ReadParent

LEMMA ReadParentNext == (Typed /\ Single)' => ReadParent'
BY ParentIs, PTL

(* What is run whole, while no request is under way, is an operation of    *)
(* Hierarchy.                                                              *)
LEMMA WholeMaps ==
  ASSUME Typed, Typed', Single, Underway = {}, Whole \/ \E r \in Records : Delete(r)
  PROVE  Single' /\ Sure' /\ Forest!Next
<1>1. Underway' = {}
  BY DEF Whole, Delete, Underway
<1>2. Single' /\ Sure'
  BY <1>1 DEF Single, Sure
<1>3. Parent = parent /\ Parent' = parent'
  BY <1>1, <1>2, ParentIs, ReadParentNext DEF ReadParent
<1>4. ASSUME NEW r \in Records, Delete(r)
      PROVE  Forest!Next
  <2>1. Forest!DeleteRecord(r)
    BY <1>3, <1>4 DEF Delete, DeleteRecord, Forest!DeleteRecord
  <2> QED BY <2>1 DEF Forest!Next
<1>5. ASSUME NEW p \in Records, NEW c \in Records, NEW k \in Kinds, AddSub(p, c, k)
      PROVE  Forest!Next
  <2>1. PICK up : up = IF parent[c] = NoRecord THEN p ELSE parent[c]
    OBVIOUS
  <2>2. Clean(up, c)
    BY <1>5, <2>1 DEF AddSub
  <2>3. Forest!Clean(up, c)
    BY <1>3, <2>2, CleanIs, ForestCleanIs
  <2>4. Forest!AddSub(p, c, k)
    BY <1>3, <1>5, <2>1, <2>3 DEF AddSub, Forest!AddSub
  <2> QED BY <2>4 DEF Forest!Next
<1>6. ASSUME NEW c \in Records, NEW p \in Records, NEW d \in Records, NEW k \in Kinds,
             ChangeLink(c, p, d, k)
      PROVE  Forest!Next
  <2>1. Forest!Clean(p, d)
    BY <1>3, <1>6, CleanIs, ForestCleanIs DEF ChangeLink
  <2>2. Forest!ChangeLink(c, p, d, k)
    BY <1>3, <1>6, <2>1 DEF ChangeLink, Forest!ChangeLink
  <2> QED BY <2>2 DEF Forest!Next
<1>7. ASSUME NEW c \in Records, Detach(c)
      PROVE  Forest!Next
  <2>1. Forest!Detach(c)
    BY <1>3, <1>7 DEF Detach, Forest!Detach
  <2> QED BY <2>1 DEF Forest!Next
<1> QED BY <1>2, <1>4, <1>5, <1>6, <1>7 DEF Whole

LEMMA BeginMaps ==
  ASSUME Typed, Typed', Single, Underway = {},
         NEW q \in Requests, NEW c \in Records, NEW p \in Records, NEW cached \in BOOLEAN,
         Begin(q, c, p, cached)
  PROVE  Single' /\ Sure' /\ UNCHANGED <<existing, Parent, kind>>
<1>1. Underway' = {q}
  BY BeginIs DEF Underway, Others
<1>2. Single'
  BY <1>1 DEF Single
<1>3. Parent' = Parent
  BY <1>1, <1>2, ParentIs, ReadParentNext, BeginIs DEF ReadParent
<1>4. WalkIn(parent, existing, p, c, p, {})
  BY BeginIs, WalkStarts DEF Typed, TypeOK
<1>5. Sure'
  <2>1. req'[q].pc = "check" /\ req'[q].removed = NoRecord
    BY BeginIs
  <2>2. WalkIn(parent', existing', req'[q].to, req'[q].child, req'[q].node, req'[q].seen)
    <3>1. /\ req'[q].to = p /\ req'[q].child = c /\ req'[q].node = p /\ req'[q].seen = {}
          /\ UNCHANGED <<existing, parent>>
      BY BeginIs
    <3> QED BY <1>4, <3>1
  <2> QED BY <1>1, <2>1, <2>2 DEF Sure
<1> QED BY <1>2, <1>3, <1>5, BeginIs

(* A request that is refused after it removed a link leaves none: Detach.  *)
LEMMA RefuseMaps ==
  ASSUME Typed, Typed', Single, Sure, NEW q \in Requests, Refuse(q) \/ InsertTwice(q)
  PROVE  Single' /\ Sure' /\ [Forest!Next]_<<existing, Parent, kind>>
<1>1. q \in Underway
  BY RefuseIs DEF Underway, Climbing
<1>2. Underway' = {}
  BY <1>1, RefuseIs DEF Underway, Single, Others
<1>3. Single' /\ Sure'
  BY <1>2 DEF Single, Sure
<1>4. Parent' = parent
  BY <1>2, <1>3, ReadParentNext, RefuseIs DEF ReadParent
<1>5. CASE req[q].removed = NoRecord
  BY <1>1, <1>3, <1>4, <1>5, ParentIs, RefuseIs DEF ReadParent
<1>6. CASE req[q].removed # NoRecord
  <2>1. PICK c \in Records : c = req[q].child
    BY DEF Typed, Job
  <2>2. parent[c] = NoRecord /\ Parent = [parent EXCEPT ![c] = req[q].removed]
    BY <1>1, <1>6, <2>1, ParentIs DEF ReadParent, Sure
  <2>3. Parent[c] # NoRecord /\ parent = [Parent EXCEPT ![c] = NoRecord]
    BY <1>6, <2>2 DEF Typed, TypeOK
  <2>4. Forest!Detach(c)
    BY <1>4, <2>3, RefuseIs DEF Forest!Detach
  <2> QED BY <1>3, <2>4 DEF Forest!Next
<1> QED BY <1>5, <1>6

(* A step of the walk shows nothing; the first walk ends in a clean link.  *)
LEMMA ClimbMaps ==
  ASSUME Typed, Typed', Single, Sure, NEW q \in Requests, Climb(q)
  PROVE  Single' /\ Sure' /\ UNCHANGED <<existing, Parent, kind>>
<1>1. q \in Underway /\ Underway' = {q}
  BY ClimbIs DEF Underway, Climbing, Single, Others
<1>2. Single'
  BY <1>1 DEF Single
<1>3. Parent' = Parent
  BY <1>1, <1>2, ParentIs, ReadParentNext, ClimbIs DEF ReadParent, Kept
<1>4. /\ req[q].node \in Records /\ req[q].seen \in SUBSET Records
      /\ req[q].to \in Records /\ req[q].child \in Records
      /\ existing \in SUBSET Records /\ parent \in [Records -> Records \cup {NoRecord}]
      /\ req[q].node # req[q].child
    BY ClimbIs DEF Typed, TypeOK, Job, Climbing, Invalid, Child
<1>5. Above(req[q].node) = UpIn(parent, existing, req[q].node)
  BY DEF Above, UpIn
<1>6. CASE req[q].pc = "recheck"
  BY <1>1, <1>3, <1>6, ClimbIs, <1>2 DEF Sure, Kept
<1>7. CASE req[q].pc = "check" /\ Above(req[q].node) # NoRecord
  <2>1. WalkIn(parent, existing, req[q].to, req[q].child, Above(req[q].node),
               req[q].seen \cup {req[q].node})
    BY <1>1, <1>4, <1>5, <1>7, WalkGoesOn DEF Sure
  <2>2. /\ req'[q].pc = "check" /\ req'[q].removed = NoRecord
        /\ UNCHANGED <<existing, parent, kind>>
    BY <1>1, <1>7, ClimbIs DEF Sure
  <2>3. WalkIn(parent', existing', req'[q].to, req'[q].child, req'[q].node, req'[q].seen)
    BY <2>1, <2>2, ClimbIs DEF Kept
  <2> QED BY <1>1, <1>2, <1>3, <2>2, <2>3 DEF Sure
<1>8. CASE req[q].pc = "check" /\ Above(req[q].node) = NoRecord
  <2>1. CleanIn(parent, existing, req[q].to, req[q].child)
    BY <1>1, <1>4, <1>5, <1>8, WalkEnds, ClimbIs DEF Sure, Invalid, TypesAllow, Child
  <2>2. Parent = parent
    BY <1>1, <1>8, ParentIs DEF ReadParent, Sure
  <2> QED BY <1>1, <1>2, <1>3, <1>8, <2>1, <2>2, ClimbIs DEF Sure, Kept
<1> QED BY <1>6, <1>7, <1>8, ClimbIs DEF Climbing

(* The link that goes is shown until its successor is in.                  *)
LEMMA DeleteMaps ==
  ASSUME Typed, Typed', Single, Sure, NEW q \in Requests, DeleteOld(q)
  PROVE  Single' /\ Sure' /\ UNCHANGED <<existing, Parent, kind>>
<1>1. q \in Underway /\ Underway' = {q}
  BY DeleteOldIs DEF Underway, Single, Others
<1>2. Single'
  BY <1>1 DEF Single
<1>3. PICK c \in Records : c = req[q].child
  BY DEF Typed, Job
<1>4. Parent = parent /\ parent \in [Records -> Records \cup {NoRecord}]
  BY <1>1, DeleteOldIs, ParentIs DEF ReadParent, Sure, Typed, TypeOK
<1>5. Parent' = IF req'[q].removed = NoRecord THEN parent'
                ELSE [parent' EXCEPT ![c] = req'[q].removed]
  BY <1>1, <1>2, <1>3, ReadParentNext, DeleteOldIs DEF ReadParent, Kept
<1>6. Parent' = parent /\ (req'[q].removed # NoRecord => parent'[c] = NoRecord)
  <2>1. CASE UNCHANGED parent /\ req'[q].removed = NoRecord
    BY <1>5, <2>1
  <2>2. CASE parent' = [parent EXCEPT ![c] = NoRecord] /\ req'[q].removed = parent[c]
    BY <1>4, <1>5, <2>2
  <2> QED BY <1>3, <2>1, <2>2, DeleteOldIs DEF Child
<1>7. CleanIn(Parent, existing, req[q].to, req[q].child)
  BY <1>1, DeleteOldIs DEF Sure
<1>8. Sure'
  BY <1>1, <1>3, <1>4, <1>6, <1>7, DeleteOldIs DEF Sure, Kept
<1> QED BY <1>2, <1>4, <1>6, <1>8, DeleteOldIs

(* The insert is the step: SetParent.                                      *)
LEMMA InsertMaps ==
  ASSUME Typed, Typed', Single, Sure, NEW q \in Requests, Insert(q)
  PROVE  Single' /\ Sure' /\ Forest!Next
<1>1. q \in Underway /\ Underway' = {}
  BY InsertIs DEF Underway, Single, Others
<1>2. Single' /\ Sure'
  BY <1>1 DEF Single, Sure
<1>3. PICK c \in Records, p \in Records : c = req[q].child /\ p = req[q].to
  BY DEF Typed, Job
<1>4. parent \in [Records -> Records \cup {NoRecord}] /\ kind \in [Records -> Kinds]
  BY DEF Typed, TypeOK
<1>5. Parent' = [parent EXCEPT ![c] = p]
  BY <1>1, <1>2, <1>3, ReadParentNext, InsertIs DEF ReadParent, Child
<1>6. Parent' = [Parent EXCEPT ![c] = p]
  <2>1. Parent = parent \/ Parent = [parent EXCEPT ![c] = req[q].removed]
    BY <1>1, <1>3, ParentIs DEF ReadParent
  <2> QED BY <1>4, <1>5, <2>1
<1>7. Forest!Clean(p, c)
  BY <1>1, <1>3, InsertIs, ForestCleanIs DEF Sure
<1>8. kind' = [kind EXCEPT ![c] = kind[c]] /\ kind[c] \in Kinds
  BY <1>4, InsertIs
<1>9. Forest!SetParent(c, p, kind[c])
  BY <1>6, <1>7, <1>8, InsertIs DEF Forest!SetParent
<1> QED BY <1>2, <1>8, <1>9 DEF Forest!Next

LEMMA SerialMaps ==
  Typed /\ Typed' /\ Single /\ Sure /\ [SerialNext]_allVars
    => Single' /\ Sure' /\ [Forest!Next]_<<existing, Parent, kind>>
<1> SUFFICES ASSUME Typed, Typed', Single, Sure, [SerialNext]_allVars
             PROVE  Single' /\ Sure' /\ [Forest!Next]_<<existing, Parent, kind>>
  OBVIOUS
<1>1. CASE Underway = {} /\ ((\E q \in Requests : Starts(q)) \/ (\E r \in Records : Delete(r)) \/ Whole)
  BY <1>1, BeginMaps, WholeMaps DEF Starts
<1>2. ASSUME NEW q \in Requests, Continue(q)
      PROVE  Single' /\ Sure' /\ [Forest!Next]_<<existing, Parent, kind>>
  BY <1>2, RefuseMaps, ClimbMaps, DeleteMaps, InsertMaps DEF Continue
<1>3. CASE UNCHANGED allVars
  <2>1. Underway' = Underway /\ Parent' = Parent /\ UNCHANGED <<existing, parent, kind, req>>
    BY <1>3 DEF allVars, Underway, Parent, Child
  <2> QED BY <2>1 DEF Single, Sure
<1> QED BY <1>1, <1>2, <1>3 DEF SerialNext

-----------------------------------------------------------------------------
(* Run alone, the second walk finds what the first one found.              *)

LEMMA StillClean ==
  ASSUME NEW f \in [Records -> Records \cup {NoRecord}], NEW g \in [Records -> Records \cup {NoRecord}],
         NEW E \in SUBSET Records, NEW p \in Records, NEW c \in Records,
         \A r \in Records \ {c} : f[r] = g[r], CleanIn(g, E, p, c)
  PROVE  CleanIn(f, E, p, c)
<1>1. PICK T \in SUBSET Records : p \in T /\ ClosedIn(g, E, T) /\ c \notin T
  BY DEF CleanIn, ChainIn
<1>2. PICK a \in ChainIn(g, E, p) : UpIn(g, E, a) = NoRecord
  BY DEF CleanIn
<1>3. a \in T
  BY <1>1, <1>2 DEF ChainIn
<1>4. ASSUME NEW r \in T PROVE UpIn(f, E, r) = UpIn(g, E, r)
  <2>1. f[r] = g[r]
    BY <1>1
  <2> QED BY <2>1 DEF UpIn
<1>5. c \notin ChainIn(f, E, p)
  BY <1>1, <1>4 DEF ChainIn, ClosedIn
<1>6. a \in ChainIn(f, E, p)
  <2> SUFFICES ASSUME NEW S \in SUBSET Records, p \in S, ClosedIn(f, E, S) PROVE a \in S
    BY <1>1, <1>3 DEF ChainIn
  <2>1. ClosedIn(g, E, S \cap T) /\ p \in S \cap T /\ S \cap T \in SUBSET Records
    BY <1>1, <1>4 DEF ClosedIn
  <2> QED BY <1>2, <2>1 DEF ChainIn
<1> QED BY <1>2, <1>3, <1>4, <1>5, <1>6 DEF CleanIn

LEMMA CleanWalk ==
  ASSUME NEW f, NEW E, NEW p, NEW c, NEW node, NEW seen \in SUBSET Records,
         CleanIn(f, E, p, c), WalkIn(f, E, p, c, node, seen)
  PROVE  node \notin seen \cup {c}
<1>1. node # c
  BY DEF CleanIn, WalkIn
<1>2. ASSUME node \in seen PROVE FALSE
  <2>1. p \in seen /\ ClosedIn(f, E, seen) /\ \A r \in seen : UpIn(f, E, r) \in seen
    BY <1>2 DEF WalkIn, ClosedIn
  <2>2. \A a \in ChainIn(f, E, p) : a \in seen
    BY <2>1 DEF ChainIn
  <2> QED BY HierarchyAssumption, <2>1, <2>2 DEF CleanIn
<1> QED BY <1>1, <1>2

(* The second walk, and what is left of a refused request.                 *)
Undisturbed ==
  \A q \in Requests :
    /\ req[q].pc = "refused" => req[q].removed = NoRecord
    /\ req[q].pc = "recheck" /\ req[q].removed # NoRecord
         => WalkIn(parent, existing, req[q].to, req[q].child, req[q].node, req[q].seen)

LEMMA NotRefused ==
  ASSUME Typed, Single, Sure, Undisturbed, NEW q \in Requests, req[q].pc \in {"recheck", "insert"},
         req[q].removed # NoRecord
  PROVE  ~(Refuse(q) \/ InsertTwice(q))
<1>1. q \in Underway /\ req[q] \in Job
  BY DEF Underway, Typed
<1>2. PICK c \in Records, p \in Records : c = req[q].child /\ p = req[q].to
  BY <1>1 DEF Job
<1>3. Parent = [parent EXCEPT ![c] = req[q].removed] /\ CleanIn(Parent, existing, p, c)
      /\ parent[c] = NoRecord /\ row[c] = NoRow
  BY <1>1, <1>2, ParentIs DEF ReadParent, Sure, Typed
<1>4. Parent \in [Records -> Records \cup {NoRecord}] /\ parent \in [Records -> Records \cup {NoRecord}]
      /\ existing \in SUBSET Records /\ \A r \in Records \ {c} : Parent[r] = parent[r]
  BY <1>1, <1>3 DEF Typed, TypeOK, Job
<1>5. CleanIn(parent, existing, p, c)
  BY <1>3, <1>4, StillClean
<1>6. ASSUME Refuse(q) PROVE FALSE
  <2>1. req[q].pc = "recheck" /\ Invalid(q)
    BY <1>6 DEF Refuse
  <2>2. WalkIn(parent, existing, p, c, req[q].node, req[q].seen)
    BY <1>2, <2>1 DEF Undisturbed
  <2>3. req[q].node \notin req[q].seen \cup {c}
    BY <1>1, <1>5, <2>2, CleanWalk DEF Job
  <2>4. {p, c} \subseteq existing /\ <<p, c>> \in Allows
    BY <1>5 DEF CleanIn
  <2> QED BY <1>2, <2>1, <2>3, <2>4 DEF Invalid, TypesAllow, Child
<1>7. ASSUME InsertTwice(q) PROVE FALSE
  BY <1>2, <1>3, <1>7 DEF InsertTwice, Child
<1> QED BY <1>6, <1>7

LEMMA UndisturbedNext ==
  Typed /\ Single /\ Sure /\ Undisturbed /\ [SerialNext]_allVars => Undisturbed'
<1> SUFFICES ASSUME Typed, Single, Sure, Undisturbed, [SerialNext]_allVars PROVE Undisturbed'
  OBVIOUS
<1>1. ASSUME Underway = {}, NEW q \in Requests, NEW c \in Records, NEW p \in Records,
             NEW cached \in BOOLEAN, Begin(q, c, p, cached)
      PROVE  Undisturbed'
  BY <1>1, BeginIs DEF Undisturbed, Underway, Others
<1>2. ASSUME Underway = {}, Whole \/ \E r \in Records : Delete(r)
      PROVE  Undisturbed'
  <2>1. req' = req /\ \A q \in Requests : req[q].pc # "recheck"
    BY <1>2 DEF Whole, Delete, Underway
  <2> QED BY <2>1 DEF Undisturbed
<1>3. ASSUME NEW q \in Requests, Refuse(q) \/ InsertTwice(q)
      PROVE  Undisturbed'
  <2>1. req[q].removed = NoRecord
    <3>1. q \in Underway
      BY <1>3, RefuseIs DEF Underway, Climbing
    <3> QED BY <1>3, <3>1, NotRefused, RefuseIs DEF Sure, Climbing
  <2> QED BY <1>3, <2>1, RefuseIs DEF Undisturbed, Others
<1>4. ASSUME NEW q \in Requests, Climb(q)
      PROVE  Undisturbed'
  <2>1. CASE req[q].pc = "recheck" /\ req[q].removed # NoRecord /\ Above(req[q].node) # NoRecord
    <3>1. /\ req[q].node \in Records /\ req[q].seen \in SUBSET Records
          /\ req[q].to \in Records /\ req[q].child \in Records
          /\ existing \in SUBSET Records /\ parent \in [Records -> Records \cup {NoRecord}]
          /\ req[q].node # req[q].child
      BY <1>4, ClimbIs DEF Typed, TypeOK, Job, Climbing, Invalid, Child
    <3>2. Above(req[q].node) = UpIn(parent, existing, req[q].node)
      BY DEF Above, UpIn
    <3>3. WalkIn(parent, existing, req[q].to, req[q].child, Above(req[q].node),
                 req[q].seen \cup {req[q].node})
      BY <2>1, <3>1, <3>2, WalkGoesOn DEF Undisturbed
    <3>4. WalkIn(parent', existing', req'[q].to, req'[q].child, req'[q].node, req'[q].seen)
      BY <1>4, <3>3, ClimbIs DEF Kept
    <3> QED BY <1>4, <2>1, <3>4, ClimbIs DEF Undisturbed, Others
  <2>2. CASE ~(req[q].pc = "recheck" /\ req[q].removed # NoRecord /\ Above(req[q].node) # NoRecord)
    <3>1. req'[q].pc # "refused" /\ (req'[q].pc = "recheck" => req'[q].removed = NoRecord)
      BY <1>4, <2>2, ClimbIs DEF Climbing
    <3> QED BY <1>4, <3>1, ClimbIs DEF Undisturbed, Others
  <2> QED BY <2>1, <2>2
<1>5. ASSUME NEW q \in Requests, DeleteOld(q)
      PROVE  Undisturbed'
  <2>1. q \in Underway
    BY <1>5, DeleteOldIs DEF Underway
  <2>2. PICK c \in existing, p \in existing : c = req[q].child /\ p = req[q].to
    BY <1>5, <2>1, DeleteOldIs DEF Sure, CleanIn
  <2>3. existing \in SUBSET Records
    BY DEF Typed, TypeOK
  <2>4. WalkIn(parent', existing, p, c, p, {})
    BY <2>3, WalkStarts
  <2>5. /\ req'[q].to = p /\ req'[q].child = c /\ req'[q].node = p /\ req'[q].seen = {}
        /\ UNCHANGED existing /\ req'[q].pc = "recheck"
    BY <1>5, <2>2, DeleteOldIs DEF Kept
  <2>6. WalkIn(parent', existing', req'[q].to, req'[q].child, req'[q].node, req'[q].seen)
    BY <2>4, <2>5
  <2>7. ASSUME NEW r \in Requests \ {q}
        PROVE  req'[r] = req[r] /\ req[r].pc # "recheck"
    BY <1>5, <2>1, DeleteOldIs DEF Others, Single, Underway
  <2> QED BY <2>5, <2>6, <2>7 DEF Undisturbed
<1>6. ASSUME NEW q \in Requests, Insert(q)
      PROVE  Undisturbed'
  <2>1. ASSUME NEW r \in Requests \ {q}
        PROVE  req'[r] = req[r] /\ req[r].pc # "recheck"
    BY <1>6, InsertIs DEF Others, Single, Underway
  <2> QED BY <1>6, <2>1, InsertIs DEF Undisturbed
<1>7. CASE UNCHANGED allVars
  BY <1>7 DEF allVars, Undisturbed
<1> QED BY <1>1, <1>2, <1>3, <1>4, <1>5, <1>6, <1>7 DEF SerialNext, Starts, Continue

-----------------------------------------------------------------------------
(* However the forms and the admin's requests interleave, a link once      *)
(* written is replaced only by a request that was built when it was there. *)
THEOREM AcceptedLinksStay == RequestsSpec => []AcceptedStays
<1>1. RequestsInit => Typed /\ AcceptedStays
  BY TypedInit, AllIdle DEF AcceptedStays, At
<1> QED BY <1>1, TypedNext, AcceptedNext, PTL DEF RequestsSpec

(* Where the declared types nest one way only, as the shipped ones do, no  *)
(* interleaving of requests makes a ring, though the walk of one does not  *)
(* see what another writes after it.                                       *)
THEOREM RacesKeepForest ==
  ASSUME TypesNest
  PROVE  RequestsSpec => []Acyclic
<1>1. RequestsInit => LinksAllowed
  <2> SUFFICES ASSUME RequestsInit PROVE LinksAllowed
    OBVIOUS
  <2>1. \A c \in Records : parent[c] # NoRecord => <<parent[c], c>> \in Allows
    BY DEF RequestsInit
  <2> QED BY <2>1, AllIdle DEF LinksAllowed
<1>2. Typed /\ LinksAllowed => Acyclic
  <2> SUFFICES ASSUME Typed, LinksAllowed, NEW S \in SUBSET existing, S # {}
               PROVE  \E r \in S : parent[r] \notin S
    BY DEF Acyclic
  <2>1. S \in SUBSET Records /\ NoRecord \notin S
    BY HierarchyAssumption DEF Typed, TypeOK
  <2>2. PICK r \in S : \A p \in S : <<p, r>> \notin Allows
    BY <2>1 DEF TypesNest
  <2> QED BY <2>1, <2>2 DEF LinksAllowed
<1> QED BY TypedInit, TypedNext, AllowedNext, <1>1, <1>2, PTL DEF RequestsSpec

LEMMA SerialInit == RequestsInit => Typed /\ Single /\ Sure /\ Undisturbed
<1> SUFFICES ASSUME RequestsInit PROVE Single /\ Sure /\ Undisturbed
  BY TypedInit
<1>1. Underway = {}
  BY AllIdle DEF Underway
<1> QED BY <1>1, AllIdle DEF Single, Sure, Undisturbed

(* Requests and whole operations, one at a time, keep the links typed.     *)
THEOREM RequestsTypeInvariant == SerialSpec => []TypeOK
<1>1. Typed => TypeOK
  BY DEF Typed
<1> QED BY <1>1, TypedInit, TypedSerial, PTL DEF SerialSpec

(* A form run without another request among its statements, its two walks, *)
(* its delete and its insert, is one guarded SetParent, checked of the     *)
(* links as they stood before it.                                          *)
THEOREM RequestsImplementHierarchy == SerialSpec => ImplementsHierarchy
BY SerialInit, TypedSerial, SerialMaps, PTL DEF SerialSpec, ImplementsHierarchy

(* "An invalid request never destroys existing hierarchy"                  *)
(* (set_parent_workflow): so it is while requests do not interleave, for   *)
(* then the check that save repeats after the delete cannot fail.          *)
THEOREM RefusedAloneKeepsLink == SerialSpec => []RefusedKeepsLink
<1>1. Undisturbed => RefusedKeepsLink
  BY DEF Undisturbed, RefusedKeepsLink, At
<1> QED BY SerialInit, TypedSerial, SerialMaps, UndisturbedNext, <1>1, PTL DEF SerialSpec

=============================================================================
