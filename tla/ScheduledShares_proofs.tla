----------------------- MODULE ScheduledShares_proofs -----------------------
(***************************************************************************)
(* Proofs about ScheduledShares, for any shares, drains and interval, and  *)
(* however the drains run beside each other and die.                       *)
(***************************************************************************)
EXTENDS ScheduledShares, TLAPS

-----------------------------------------------------------------------------
(* The memory of the drains.  TypeOK says of it what the system promises;  *)
(* the proofs need that it is made of these.                               *)

Batches == UNION {[S -> Moments] : S \in SUBSET Shares}

DrainRow == [pc : {"idle", "send", "book"}, now : 0..Horizon, at : Shares \cup {NoShare},
             batch : Batches]

Typed == TypeOK /\ drain \in [Drains -> DrainRow]

LEMMA BatchMade ==
  ASSUME NEW S \in SUBSET Shares, NEW b \in [S -> Moments] PROVE b \in Batches /\ DOMAIN b = S
BY DEF Batches

(* What is left of a batch is a batch.                                     *)
LEMMA BatchWithout ==
  ASSUME NEW b \in Batches, NEW S \in SUBSET DOMAIN b
  PROVE  [t \in S |-> b[t]] \in Batches
<1>1. PICK T \in SUBSET Shares : b \in [T -> Moments]
  BY DEF Batches
<1>2. [t \in S |-> b[t]] \in [S -> Moments] /\ S \in SUBSET Shares
  BY <1>1
<1> QED BY <1>2, BatchMade

LEMMA RestingTyped ==
  Resting \in DrainRow /\ DOMAIN Resting.batch = {} /\ Resting.pc = "idle" /\ Resting.now = 0
  /\ Resting.at = NoShare
<1>1. [s \in {} |-> 0] \in [{} -> Moments] /\ {} \in SUBSET Shares
  OBVIOUS
<1>2. [s \in {} |-> 0] \in Batches /\ DOMAIN [s \in {} |-> 0] = {}
  BY <1>1, BatchMade
<1> QED BY <1>2, ShareAssumption DEF Resting, DrainRow

(* What each step of a drain makes of the drain that takes it.             *)
Others(d) == \A e \in Drains \ {d} : drain'[e] = drain[e]

LEMMA Started ==
  ASSUME Typed, NEW d \in Drains, Start(d)
  PROVE  LET due == {s \in Shares : Here(s) /\ Due(share[s], clock)} IN
         /\ drain' \in [Drains -> DrainRow] /\ Others(d)
         /\ drain[d].pc = "idle" /\ InHand(d) = {}
         /\ drain'[d].pc = "send" /\ drain'[d].now = clock /\ drain'[d].at = NoShare
         /\ DOMAIN drain'[d].batch = due /\ due # {}
<1> DEFINE due == {s \in Shares : Here(s) /\ Due(share[s], clock)}
           batch == [s \in due |-> share[s].next]
<1>1. batch \in [due -> Moments] /\ due \in SUBSET Shares
  BY DEF Typed, TypeOK, Here, ShareRow
<1>2. batch \in Batches /\ DOMAIN batch = due
  BY <1>1, BatchMade
<1>3. /\ drain' = [drain EXCEPT ![d] = [pc |-> "send", now |-> clock, at |-> NoShare, batch |-> batch]]
      /\ drain[d].pc = "idle" /\ due # {}
  BY DEF Start
<1> HIDE DEF due, batch
<1>4. clock \in 0..Horizon /\ InHand(d) = {}
  BY <1>3 DEF Typed, TypeOK
<1>5. drain' \in [Drains -> DrainRow] /\ Others(d)
  BY <1>2, <1>3, <1>4 DEF Typed, DrainRow, Others
<1>6. drain'[d] = [pc |-> "send", now |-> clock, at |-> NoShare, batch |-> batch]
  BY <1>3 DEF Typed
<1> QED BY <1>2, <1>3, <1>4, <1>5, <1>6 DEF due

LEMMA Sending ==
  ASSUME Typed, NEW d \in Drains, NEW s \in Shares, NEW failed \in BOOLEAN, Send(d, s, failed)
  PROVE  /\ drain' \in [Drains -> DrainRow] /\ Others(d)
         /\ drain[d].pc = "send" /\ s \in InHand(d) /\ drain'[d].pc = "book" /\ drain'[d].at = s
         /\ drain'[d].now = drain[d].now /\ drain'[d].batch = drain[d].batch
<1>1. drain' = [drain EXCEPT ![d] = Mailing(d, s)] /\ drain[d] \in DrainRow
  BY DEF Send, Typed
<1>2. Mailing(d, s) \in DrainRow
  BY <1>1 DEF Mailing, DrainRow
<1>3. drain' \in [Drains -> DrainRow] /\ Others(d) /\ drain'[d] = Mailing(d, s)
  BY <1>1, <1>2 DEF Typed, Others
<1> QED BY <1>3 DEF Send, Mailing

LEMMA Stops ==
  ASSUME Typed, NEW d \in Drains, drain' = [drain EXCEPT ![d] = Resting]
  PROVE  /\ drain' \in [Drains -> DrainRow] /\ Others(d)
         /\ drain'[d] = Resting /\ drain'[d].pc = "idle" /\ DOMAIN drain'[d].batch = {}
BY RestingTyped DEF Typed, Others

LEMMA Advances ==
  ASSUME Typed, NEW d \in Drains, drain[d].pc = "book", Advance(d)
  PROVE  /\ drain' \in [Drains -> DrainRow] /\ Others(d)
         /\ DOMAIN drain'[d].batch = InHand(d) \ {drain[d].at}
         /\ drain'[d].pc \in {"idle", "send"} /\ drain'[d].at = NoShare
         /\ drain'[d].pc = "idle" <=> DOMAIN drain'[d].batch = {}
         /\ drain'[d].pc = "send" => drain'[d].now = drain[d].now
<1> DEFINE s == drain[d].at
<1>1. /\ drain[d] \in DrainRow /\ drain[d].batch \in Batches /\ s \in InHand(d)
  BY DEF Typed, TypeOK, DrainRow
<1>2. CASE InHand(d) = {s}
  BY <1>1, <1>2, Stops, RestingTyped DEF Advance
<1>3. CASE InHand(d) # {s}
  <2>1. drain' = [drain EXCEPT ![d] = Rest(d)] /\ InHand(d) \ {s} # {}
    BY <1>1, <1>3 DEF Advance
  <2>2. [t \in InHand(d) \ {s} |-> drain[d].batch[t]] \in Batches
    BY <1>1, BatchWithout DEF InHand
  <2>3. Rest(d) \in DrainRow
    BY <1>1, <2>2 DEF Rest, DrainRow
  <2>4. drain' \in [Drains -> DrainRow] /\ Others(d) /\ drain'[d] = Rest(d)
    BY <2>1, <2>3 DEF Typed, Others
  <2> QED BY <2>1, <2>4 DEF Rest
<1> QED BY <1>2, <1>3

-----------------------------------------------------------------------------
(* Types *)

LEMMA TypedInit == Init => Typed
<1> SUFFICES ASSUME Init PROVE Typed
  OBVIOUS
<1>1. clock = 0 /\ faults = 0 /\ 0 \in 0..Horizon /\ 0 \in 0..MaxFaults
  BY ShareAssumption DEF Init
<1>2. share \in [Shares -> ShareRow \cup {NoShare}]
  BY ShareAssumption DEF Init, ShareRow, Moments
<1>3. drain = [d \in Drains |-> Resting]
  BY DEF Init
<1>4. \A d \in Drains : /\ InHand(d) = {} /\ drain[d].pc = "idle" /\ drain[d].at = NoShare
  BY <1>3, RestingTyped DEF InHand
<1>5. drain \in [Drains -> DrainRow]
  BY <1>3, RestingTyped
<1> QED BY <1>1, <1>2, <1>4, <1>5 DEF Init, Typed, TypeOK

(* The rows of a step that changes them keep their columns' types.         *)
LEMMA RowTyped ==
  ASSUME NEW row \in ShareRow, NEW m \in Moments
  PROVE  /\ [row EXCEPT !.next = m] \in ShareRow
         /\ [row EXCEPT !.revoked = m] \in ShareRow
BY DEF ShareRow

LEMMA TypedNext == Typed /\ [Next]_vars => Typed'
<1> SUFFICES ASSUME Typed, [Next]_vars PROVE Typed'
  OBVIOUS
<1> USE DEF Typed, TypeOK
<1> DEFINE Alike(d) == /\ InHand(d)' \subseteq Shares
                       /\ drain'[d].pc = "idle" <=> InHand(d)' = {}
                       /\ drain'[d].pc = "book" <=> drain'[d].at \in InHand(d)'
<1>0. \A m \in 0..Horizon : m \in Moments /\ m + Interval \in Moments
  BY ShareAssumption DEF Moments
<1>1. ASSUME NEW s \in Shares, Revoke(s) PROVE Typed'
  <2>1. share[s] \in ShareRow /\ share' = [share EXCEPT ![s] = [share[s] EXCEPT !.revoked = clock]]
    BY <1>1 DEF Revoke, Here
  <2>2. share' \in [Shares -> ShareRow \cup {NoShare}]
    BY <1>0, <2>1, RowTyped
  <2> QED BY <1>1, <2>2 DEF Revoke, InHand, history
<1>2. ASSUME NEW s \in Shares, Delete(s) PROVE Typed'
  BY <1>2 DEF Delete, InHand, history
<1>3. CASE Tick
  BY <1>3, ShareAssumption DEF Tick, InHand, history
<1>4. ASSUME NEW d \in Drains, Start(d) PROVE Typed'
  <2>1. \A e \in Drains : Alike(e)
    BY <1>4, Started, NoShareAssumption DEF InHand, Others
  <2>2. crossed' \subseteq Shares
    BY <1>4 DEF Start
  <2> QED BY <1>4, <2>1, <2>2, Started DEF Start
<1>5. ASSUME NEW d \in Drains, Book(d) PROVE Typed'
  <2> DEFINE s == drain[d].at
  <2>1. s \in Shares /\ drain[d].now \in 0..Horizon /\ drain[d].pc = "book"
    BY <1>5 DEF Book, DrainRow
  <2>2. CASE Here(s)
    <3>1. Advance(d) /\ share' = [share EXCEPT ![s] = [share[s] EXCEPT !.next = drain[d].now + Interval]]
      BY <1>5, <2>2 DEF Book
    <3>2. share' \in [Shares -> ShareRow \cup {NoShare}]
      BY <1>0, <2>1, <2>2, <3>1, RowTyped DEF Here
    <3>3. drain' \in [Drains -> DrainRow] /\ \A e \in Drains : Alike(e)
      BY <2>1, <3>1, Advances, NoShareAssumption DEF InHand, Others
    <3> QED BY <1>5, <3>2, <3>3 DEF Book, history
  <2>3. CASE ~Here(s)
    <3>1. drain' = [drain EXCEPT ![d] = Resting]
      BY <1>5, <2>3 DEF Book
    <3>2. drain' \in [Drains -> DrainRow] /\ \A e \in Drains : Alike(e)
      BY <3>1, Stops, RestingTyped DEF InHand, Others
    <3> QED BY <1>5, <2>3, <3>2 DEF Book, history
  <2> QED BY <2>2, <2>3
<1>6. ASSUME NEW d \in Drains, NEW s \in Shares, NEW failed \in BOOLEAN, Send(d, s, failed)
      PROVE Typed'
  <2>1. drain' \in [Drains -> DrainRow] /\ \A e \in Drains : Alike(e)
    BY <1>6, Sending DEF InHand, Others
  <2>2. drain[d].now \in Moments
    BY <1>0 DEF DrainRow
  <2>3. sent' \in [Shares -> Moments \cup {Never}] /\ tooSoon' \subseteq Shares
    BY <1>6, <2>2 DEF Send
  <2> QED BY <1>6, <2>1, <2>3 DEF Send
<1>7. ASSUME NEW d \in Drains, Die(d) PROVE Typed'
  <2>1. drain' \in [Drains -> DrainRow] /\ \A e \in Drains : Alike(e)
    BY <1>7, Stops, RestingTyped DEF InHand, Others, Die
  <2>2. faults' \in 0..MaxFaults
    BY <1>7, ShareAssumption DEF Die
  <2>3. crossed' \subseteq Shares
    BY <1>7 DEF Die
  <2> QED BY <1>7, <2>1, <2>2, <2>3 DEF Die
<1>8. CASE UNCHANGED vars
  BY <1>8 DEF vars, history, InHand
<1> QED BY <1>1, <1>2, <1>3, <1>4, <1>5, <1>6, <1>7, <1>8 DEF Next, Step

(* Each column of a share and each memory of a drain stays what it is: a   *)
(* drain is idle exactly while it holds nothing, and books what it holds.  *)
THEOREM TypeInvariant == Spec => []TypeOK
<1>1. Typed => TypeOK
  BY DEF Typed
<1> QED BY <1>1, TypedInit, TypedNext, PTL DEF Spec

-----------------------------------------------------------------------------
(* Once an interval.  Of a share that was never in two drains at once, nor *)
(* in one that died with its mail unbooked:                                *)

Booking(d, s) == drain[d].pc = "book" /\ drain[d].at = s

Alone(s) == \A d, e \in Drains : s \in InHand(d) /\ s \in InHand(e) => d = e

Booked(s) == sent[s] # Never /\ Here(s) /\ (\A d \in Drains : ~Booking(d, s))
               => sent[s] + Interval <= share[s].next

Ripe(s) == \A d \in Drains : s \in InHand(d) /\ ~Booking(d, s) /\ sent[s] # Never
                               => sent[s] + Interval <= drain[d].now

Fresh(s) == \A d \in Drains : Booking(d, s) /\ sent[s] # Never => sent[s] <= drain[d].now

Spaced(s) == s \in crossed \/ (Alone(s) /\ Booked(s) /\ Ripe(s) /\ Fresh(s))

AllSpaced == tooSoon \subseteq crossed /\ \A s \in Shares : Spaced(s)

(* What a drain remembers was true when it began, which is not later than  *)
(* now, and can have ended only since.                                     *)
Past == \A d \in Drains : drain[d].now <= clock

WasActive(d, s) == Here(s) => /\ share[s].revoked = Never \/ drain[d].now <= share[s].revoked
                              /\ share[s].expires = Never \/ drain[d].now < share[s].expires

IInv == Typed /\ AllSpaced /\ Past /\ \A d \in Drains : \A s \in InHand(d) : WasActive(d, s)

LEMMA IInvInit == Init => IInv
<1> SUFFICES ASSUME Init PROVE IInv
  OBVIOUS
<1>1. Typed
  BY TypedInit
<1>2. \A d \in Drains : drain[d].pc = "idle" /\ InHand(d) = {} /\ drain[d].now = 0
  BY RestingTyped DEF Init, InHand
<1>3. tooSoon = {} /\ clock = 0 /\ \A s \in Shares : sent[s] = Never
  BY DEF Init
<1> QED BY <1>1, <1>2, <1>3 DEF IInv, AllSpaced, Spaced, Alone, Booked, Ripe, Fresh, Booking, Past

(* Of what the steps of a drain leave alone, it is enough to know:         *)
LEMMA Kept ==
  ASSUME IInv, Typed', NEW s \in Shares, sent'[s] = sent[s], crossed' = crossed,
         Here(s)' => Here(s) /\ share'[s].next = share[s].next,
         \A d \in Drains : /\ s \in InHand(d)' => s \in InHand(d) /\ drain'[d].now = drain[d].now
                           /\ Booking(d, s)' <=> Booking(d, s)
  PROVE  Spaced(s)'
<1> SUFFICES ASSUME s \notin crossed PROVE (Alone(s) /\ Booked(s) /\ Ripe(s) /\ Fresh(s))'
  BY DEF Spaced
<1>1. Alone(s) /\ Booked(s) /\ Ripe(s) /\ Fresh(s)
  BY DEF IInv, AllSpaced, Spaced
<1>2. \A d \in Drains : Booking(d, s)' => s \in InHand(d)'
  BY DEF Booking, Typed, TypeOK
<1>3. Alone(s)' /\ Ripe(s)'
  BY <1>1 DEF Alone, Ripe
<1>4. Booked(s)'
  BY <1>1 DEF Booked
<1>5. Fresh(s)'
  BY <1>1, <1>2 DEF Fresh
<1> QED BY <1>3, <1>4, <1>5

LEMMA IInvNext == IInv /\ [Next]_vars => IInv'
<1> SUFFICES ASSUME IInv, [Next]_vars PROVE IInv'
  OBVIOUS
<1> DEFINE Was == \A d \in Drains : \A s \in InHand(d) : WasActive(d, s)
<1>0. Typed /\ Typed' /\ AllSpaced /\ Past /\ Was
  BY TypedNext DEF IInv
<1>t. /\ Interval \in Nat /\ clock \in Nat /\ Never \notin Nat
      /\ \A d \in Drains : drain[d] \in DrainRow /\ drain[d].now \in Nat
      /\ \A s \in Shares : /\ share[s] \in ShareRow \cup {NoShare} /\ sent[s] \in Nat \cup {Never}
                           /\ Here(s) => /\ share[s] \in ShareRow /\ share[s].next \in Nat
                                         /\ share[s].revoked \in Nat \cup {Never}
                                         /\ share[s].expires \in Nat \cup {Never}
  BY <1>0, ShareAssumption DEF Typed, TypeOK, DrainRow, Here, ShareRow, Moments
<1> SUFFICES AllSpaced' /\ Past' /\ Was'
  BY <1>0 DEF IInv
<1>1. ASSUME NEW x \in Shares, Revoke(x) PROVE AllSpaced' /\ Past' /\ Was'
  <2>1. /\ UNCHANGED <<clock, drain, sent, tooSoon, crossed>>
        /\ share' = [share EXCEPT ![x] = [share[x] EXCEPT !.revoked = clock]]
        /\ Here(x) /\ share[x].revoked = Never
    BY <1>1 DEF Revoke, history
  <2>2. \A s \in Shares : /\ Here(s)' => Here(s) /\ share'[s].next = share[s].next
                          /\ Here(s)' => share'[s].expires = share[s].expires
                          /\ Here(s)' => share'[s].revoked = IF s = x THEN clock ELSE share[s].revoked
    BY <1>0, <1>t, <2>1 DEF Typed, TypeOK, Here, ShareRow
  <2>3. \A s \in Shares : Spaced(s)'
    BY <1>0, <2>1, <2>2, Kept DEF InHand, Booking
  <2>4. Was'
    BY <1>0, <1>t, <2>1, <2>2 DEF WasActive, InHand, Past, Typed, TypeOK
  <2> QED BY <1>0, <2>1, <2>3, <2>4 DEF AllSpaced, Past
<1>2. ASSUME NEW x \in Shares, Delete(x) PROVE AllSpaced' /\ Past' /\ Was'
  <2>1. /\ UNCHANGED <<clock, drain, sent, tooSoon, crossed>>
        /\ share' = [share EXCEPT ![x] = NoShare]
    BY <1>2 DEF Delete, history
  <2>2. \A s \in Shares : Here(s)' => Here(s) /\ share'[s] = share[s]
    BY <1>0, <2>1 DEF Typed, TypeOK, Here
  <2>3. \A s \in Shares : Spaced(s)'
    BY <1>0, <2>1, <2>2, Kept DEF InHand, Booking
  <2>4. Was'
    BY <1>0, <2>1, <2>2 DEF WasActive, InHand, Typed, TypeOK
  <2> QED BY <1>0, <2>1, <2>3, <2>4 DEF AllSpaced, Past
<1>3. CASE Tick
  <2>1. UNCHANGED <<drain, share, sent, tooSoon, crossed>> /\ clock' = clock + 1
    BY <1>3 DEF Tick, history
  <2>2. \A s \in Shares : Spaced(s)'
    BY <1>0, <2>1, Kept DEF InHand, Booking, Here
  <2>3. Was'
    BY <1>0, <2>1 DEF WasActive, InHand, Here
  <2> QED BY <1>0, <1>t, <2>1, <2>2, <2>3 DEF AllSpaced, Past
<1>4. ASSUME NEW d \in Drains, Start(d) PROVE AllSpaced' /\ Past' /\ Was'
  <2> DEFINE due == {s \in Shares : Here(s) /\ Due(share[s], clock)}
  <2>1. /\ UNCHANGED <<clock, share, sent, tooSoon>>
        /\ crossed' = crossed \cup {s \in due : \E e \in Drains \ {d} : s \in InHand(e)}
    BY <1>4 DEF Start
  <2>2. /\ drain[d].pc = "idle" /\ InHand(d) = {} /\ Others(d)
        /\ drain'[d].pc = "send" /\ drain'[d].now = clock /\ InHand(d)' = due
    BY <1>0, <1>4, Started DEF InHand
  <2>3. \A e \in Drains \ {d} : InHand(e)' = InHand(e) /\ drain'[e] = drain[e]
    BY <2>2 DEF Others, InHand
  <2>4. Was'
    BY <1>0, <1>t, <2>1, <2>2, <2>3 DEF WasActive, Here, Due, Active, Typed, TypeOK
  <2>5. Past'
    BY <1>0, <1>t, <2>1, <2>2, <2>3 DEF Past
  <2>6. ASSUME NEW s \in Shares, s \notin crossed' PROVE Spaced(s)'
    <3>1. s \notin crossed /\ Alone(s) /\ Booked(s) /\ Ripe(s) /\ Fresh(s)
      BY <1>0, <2>1, <2>6 DEF AllSpaced, Spaced
    <3>2. ~Booking(d, s) /\ ~Booking(d, s)' /\ \A e \in Drains \ {d} : Booking(e, s)' <=> Booking(e, s)
      BY <2>2, <2>3 DEF Booking
    <3>3. CASE s \in due
      <4>1. \A e \in Drains \ {d} : s \notin InHand(e)
        BY <2>1, <2>6, <3>3
      <4>2. \A e \in Drains : ~Booking(e, s) /\ ~Booking(e, s)'
        BY <1>0, <3>2, <4>1 DEF Booking, Typed, TypeOK
      <4>3. sent[s] # Never => sent[s] + Interval <= clock
        BY <1>t, <3>1, <3>3, <4>2 DEF Booked, Due
      <4> QED BY <2>1, <2>2, <2>3, <3>1, <4>1, <4>2, <4>3 DEF Spaced, Alone, Booked, Ripe, Fresh, Here
    <3>4. CASE s \notin due
      BY <2>1, <2>2, <2>3, <3>1, <3>2, <3>4 DEF Spaced, Alone, Booked, Ripe, Fresh, Here
    <3> QED BY <3>3, <3>4
  <2>7. \A s \in Shares : Spaced(s)'
    BY <2>6 DEF Spaced
  <2> QED BY <1>0, <2>1, <2>4, <2>5, <2>7 DEF AllSpaced
<1>5. ASSUME NEW d \in Drains, Book(d) PROVE AllSpaced' /\ Past' /\ Was'
  <2> DEFINE x == drain[d].at
  <2>1. /\ UNCHANGED <<clock, sent, tooSoon, crossed>>
        /\ drain[d].pc = "book" /\ x \in InHand(d) /\ x \in Shares
    BY <1>0, <1>5 DEF Book, history, Typed, TypeOK
  <2>2. CASE Here(x)
    <3>1. Advance(d) /\ share' = [share EXCEPT ![x] = [share[x] EXCEPT !.next = drain[d].now + Interval]]
      BY <1>5, <2>2 DEF Book
    <3>2. /\ Others(d) /\ InHand(d)' = InHand(d) \ {x} /\ drain'[d].at = NoShare
          /\ drain'[d].pc \in {"idle", "send"}
          /\ drain'[d].pc = "idle" <=> InHand(d)' = {}
          /\ drain'[d].pc = "send" => drain'[d].now = drain[d].now
      BY <1>0, <2>1, <3>1, Advances DEF InHand
    <3>3. \A e \in Drains \ {d} : InHand(e)' = InHand(e) /\ drain'[e] = drain[e]
      BY <3>2 DEF Others, InHand
    <3>4. \A s \in Shares : /\ Here(s)' <=> Here(s)
                            /\ Here(s) => share'[s].expires = share[s].expires
                            /\ Here(s) => share'[s].revoked = share[s].revoked
                            /\ s # x => share'[s] = share[s]
      <4> DEFINE row == [share[x] EXCEPT !.next = drain[d].now + Interval]
      <4>1. /\ row \in ShareRow /\ row.expires = share[x].expires
            /\ row.revoked = share[x].revoked
        BY <1>0, <1>t, <2>1, <2>2, RowTyped, ShareAssumption DEF ShareRow, Moments, DrainRow
      <4>2. share'[x] = row /\ \A s \in Shares \ {x} : share'[s] = share[s]
        BY <1>0, <2>1, <3>1 DEF Typed, TypeOK
      <4> HIDE DEF row
      <4> QED BY <2>2, <4>1, <4>2, NoShareAssumption DEF Here
    <3>5. share'[x].next = drain[d].now + Interval
      BY <1>0, <1>t, <2>1, <2>2, <3>1 DEF Typed, TypeOK, ShareRow
    <3>6. \A s \in InHand(d)' : drain'[d].now = drain[d].now /\ s # x
      BY <3>2
    <3>7. Was'
      <4>1. ASSUME NEW e \in Drains, NEW s \in InHand(e)' PROVE WasActive(e, s)'
        <5>1. s \in InHand(e) /\ drain'[e].now = drain[e].now /\ s \in Shares
          BY <1>0, <3>2, <3>3, <3>6, <4>1 DEF Typed, TypeOK
        <5> QED BY <1>0, <3>4, <5>1 DEF WasActive
      <4> QED BY <4>1
    <3>8. Past'
      <4>1. drain'[d].now \in {0, drain[d].now}
        BY <3>1, <3>2, RestingTyped DEF Advance, Rest
      <4> QED BY <1>0, <1>t, <2>1, <3>3, <4>1 DEF Past
    <3>9. ASSUME NEW s \in Shares, s \notin crossed PROVE Spaced(s)'
      <4>1. Alone(s) /\ Booked(s) /\ Ripe(s) /\ Fresh(s)
        BY <1>0, <3>9 DEF AllSpaced, Spaced
      <4>2. ~Booking(d, s)' /\ \A e \in Drains \ {d} : Booking(e, s)' <=> Booking(e, s)
        BY <3>2, <3>3 DEF Booking
      <4>3. Alone(s)' /\ Fresh(s)'
        BY <2>1, <3>2, <3>3, <4>1, <4>2 DEF Alone, Fresh
      <4>4. Ripe(s)'
        BY <2>1, <3>2, <3>3, <3>6, <4>1, <4>2 DEF Ripe, Booking
      <4>5. CASE s = x
        <5>1. sent[s] # Never => sent[s] <= drain[d].now
          BY <2>1, <4>1, <4>5 DEF Fresh, Booking
        <5>2. Booked(s)'
          BY <1>t, <2>1, <3>5, <4>5, <5>1 DEF Booked
        <5> QED BY <4>3, <4>4, <5>2 DEF Spaced
      <4>6. CASE s # x
        <5>1. ~Booking(d, s)
          BY <4>6 DEF Booking
        <5>2. Booked(s)'
          BY <2>1, <3>4, <4>1, <4>2, <4>6, <5>1 DEF Booked
        <5> QED BY <4>3, <4>4, <5>2 DEF Spaced
      <4> QED BY <4>5, <4>6
    <3>10. \A s \in Shares : Spaced(s)'
      BY <2>1, <3>9 DEF Spaced
    <3> QED BY <1>0, <2>1, <3>7, <3>8, <3>10 DEF AllSpaced
  <2>3. CASE ~Here(x)
    <3>1. drain' = [drain EXCEPT ![d] = Resting] /\ UNCHANGED share
      BY <1>5, <2>3 DEF Book
    <3>2. /\ InHand(d)' = {} /\ drain'[d].pc = "idle" /\ drain'[d].now = 0
          /\ \A e \in Drains \ {d} : InHand(e)' = InHand(e) /\ drain'[e] = drain[e]
      BY <1>0, <3>1, Stops, RestingTyped DEF Others, InHand
    <3>3. Was' /\ Past'
      BY <1>0, <1>t, <2>1, <3>1, <3>2 DEF WasActive, Here, Past
    <3>4. ASSUME NEW s \in Shares, s \notin crossed PROVE Spaced(s)'
      <4>1. Alone(s) /\ Booked(s) /\ Ripe(s) /\ Fresh(s)
        BY <1>0, <3>4 DEF AllSpaced, Spaced
      <4>2. ~Booking(d, s)' /\ \A e \in Drains \ {d} : Booking(e, s)' <=> Booking(e, s)
        BY <3>2 DEF Booking
      <4>3. Here(s)' => Here(s) /\ ~Booking(d, s)
        BY <2>3, <3>1 DEF Here, Booking
      <4>4. Alone(s)' /\ Ripe(s)' /\ Fresh(s)'
        BY <2>1, <3>2, <4>1, <4>2 DEF Alone, Ripe, Fresh
      <4>5. Booked(s)'
        BY <2>1, <3>1, <4>1, <4>2, <4>3 DEF Booked
      <4> QED BY <4>4, <4>5 DEF Spaced
    <3>5. \A s \in Shares : Spaced(s)'
      BY <2>1, <3>4 DEF Spaced
    <3> QED BY <1>0, <2>1, <3>3, <3>5 DEF AllSpaced
  <2> QED BY <2>2, <2>3
<1>6. ASSUME NEW d \in Drains, NEW x \in Shares, NEW failed \in BOOLEAN, Send(d, x, failed)
      PROVE AllSpaced' /\ Past' /\ Was'
  <2>1. /\ UNCHANGED <<clock, share, crossed>>
        /\ Others(d) /\ drain[d].pc = "send" /\ x \in InHand(d)
        /\ drain'[d].pc = "book" /\ drain'[d].at = x
        /\ drain'[d].now = drain[d].now /\ drain'[d].batch = drain[d].batch
    BY <1>0, <1>6, Sending DEF Send
  <2>2. /\ \A e \in Drains : InHand(e)' = InHand(e) /\ drain'[e].now = drain[e].now
        /\ \A e \in Drains \ {d} : drain'[e] = drain[e]
    BY <2>1 DEF Others, InHand
  <2>3. Was' /\ Past'
    BY <1>0, <2>1, <2>2 DEF WasActive, Here, Past
  <2>4. /\ \A s \in Shares \ {x} : sent'[s] = sent[s]
        /\ sent'[x] \in {sent[x], drain[d].now}
    BY <1>0, <1>6 DEF Send, Typed, TypeOK
  <2>5. ASSUME NEW s \in Shares, s \notin crossed, s # x PROVE Spaced(s)'
    <3>1. \A e \in Drains : Booking(e, s)' <=> Booking(e, s)
      BY <2>1, <2>2, <2>5 DEF Booking
    <3> QED BY <1>0, <2>1, <2>2, <2>4, <2>5, <3>1, Kept DEF Here
  <2>6. ASSUME x \notin crossed PROVE Spaced(x)' /\ tooSoon' = tooSoon
    <3>1. Alone(x) /\ Ripe(x)
      BY <1>0, <2>6 DEF AllSpaced, Spaced
    <3>2. sent[x] # Never => sent[x] + Interval <= drain[d].now
      BY <2>1, <3>1 DEF Ripe, Booking
    <3>3. \A e \in Drains \ {d} : x \notin InHand(e)'
      BY <2>1, <2>2, <3>1 DEF Alone
    <3>4. Booking(d, x)' /\ \A e \in Drains \ {d} : ~Booking(e, x)'
      BY <1>0, <2>1, <3>3 DEF Booking, Typed, TypeOK
    <3>5. sent'[x] # Never => sent'[x] <= drain'[d].now
      BY <1>t, <2>1, <2>4, <3>2
    <3>6. Alone(x)' /\ Booked(x)' /\ Ripe(x)' /\ Fresh(x)'
      BY <3>3, <3>4, <3>5 DEF Alone, Booked, Ripe, Fresh
    <3>7. tooSoon' = tooSoon
      <4>1. ~(sent[x] # Never /\ drain[d].now < sent[x] + Interval)
        BY <1>t, <3>2
      <4> QED BY <1>6, <4>1 DEF Send
    <3> QED BY <3>6, <3>7 DEF Spaced
  <2>7. tooSoon' \subseteq tooSoon \cup {x}
    BY <1>6 DEF Send
  <2>8. \A s \in Shares : Spaced(s)'
    BY <2>1, <2>5, <2>6 DEF Spaced
  <2>9. tooSoon' \subseteq crossed'
    BY <1>0, <2>1, <2>6, <2>7 DEF AllSpaced
  <2> QED BY <2>3, <2>8, <2>9 DEF AllSpaced
<1>7. ASSUME NEW d \in Drains, Die(d) PROVE AllSpaced' /\ Past' /\ Was'
  <2>1. /\ UNCHANGED <<clock, share, sent, tooSoon>>
        /\ drain' = [drain EXCEPT ![d] = Resting]
        /\ crossed' = IF drain[d].pc = "book" THEN crossed \cup {drain[d].at} ELSE crossed
    BY <1>7 DEF Die
  <2>2. /\ InHand(d)' = {} /\ drain'[d].pc = "idle" /\ drain'[d].now = 0
        /\ \A e \in Drains \ {d} : InHand(e)' = InHand(e) /\ drain'[e] = drain[e]
    BY <1>0, <2>1, Stops, RestingTyped DEF Others, InHand
  <2>3. Was' /\ Past'
    BY <1>0, <1>t, <2>1, <2>2 DEF WasActive, Here, Past
  <2>4. ASSUME NEW s \in Shares, s \notin crossed' PROVE Spaced(s)'
    <3>1. s \notin crossed /\ Alone(s) /\ Booked(s) /\ Ripe(s) /\ Fresh(s)
      BY <1>0, <2>1, <2>4 DEF AllSpaced, Spaced
    <3>2. \A e \in Drains : Booking(e, s)' <=> Booking(e, s)
      BY <2>1, <2>2, <2>4 DEF Booking
    <3>3. Alone(s)'
      BY <2>2, <3>1 DEF Alone
    <3>4. Ripe(s)'
      BY <2>1, <2>2, <3>1, <3>2 DEF Ripe
    <3>5. Fresh(s)'
      BY <2>1, <2>2, <3>1, <3>2 DEF Fresh, Booking
    <3>6. Booked(s)'
      BY <2>1, <3>1, <3>2 DEF Booked, Here
    <3> QED BY <3>3, <3>4, <3>5, <3>6 DEF Spaced
  <2>5. \A s \in Shares : Spaced(s)'
    BY <2>4 DEF Spaced
  <2>6. tooSoon' \subseteq crossed'
    BY <1>0, <2>1 DEF AllSpaced
  <2> QED BY <2>3, <2>5, <2>6 DEF AllSpaced
<1>8. CASE UNCHANGED vars
  <2>1. UNCHANGED <<clock, share, drain, sent, tooSoon, crossed>>
    BY <1>8 DEF vars, history
  <2>2. \A s \in Shares : Spaced(s)'
    BY <1>0, <2>1, Kept DEF InHand, Booking, Here
  <2> QED BY <1>0, <2>1, <2>2 DEF AllSpaced, Past, WasActive, InHand, Here
<1> QED BY <1>1, <1>2, <1>3, <1>4, <1>5, <1>6, <1>7, <1>8 DEF Next, Step

(* A share is mailed once an interval, unless two drains held it at once   *)
(* or one died between its mail and its booking (send_scheduled_shares,    *)
(* ReportShare.record_delivery).                                           *)
THEOREM MailedOncePerInterval == Spec => []OncePerInterval
<1>1. IInv => OncePerInterval
  BY DEF IInv, AllSpaced, OncePerInterval
<1> QED BY <1>1, IInvInit, IInvNext, PTL DEF Spec

(* What a drain mails was active when it began, and no step takes a        *)
(* revocation back (deliver_scheduled_share, ReportShare.revoke).          *)
THEOREM OnlyActiveIsSent == Spec => SentWhileActive
<1> DEFINE Good == \A d \in Drains : drain[d].pc = "send" /\ drain'[d].pc = "book" =>
                     LET s == drain'[d].at IN
                     Here(s) => /\ share[s].revoked = Never \/ drain[d].now <= share[s].revoked
                                /\ share[s].expires = Never \/ drain[d].now < share[s].expires
           Stays == \A s \in Shares : Here(s) /\ Here(s)' /\ share[s].revoked # Never
                                        => share'[s].revoked = share[s].revoked
<1>1. ASSUME IInv, [Next]_vars PROVE Good /\ Stays
  <2>1. Typed /\ \A d \in Drains : \A s \in InHand(d) : WasActive(d, s)
    BY <1>1 DEF IInv
  <2>2. ASSUME NEW x \in Shares, Revoke(x) \/ Delete(x) PROVE Good /\ Stays
    BY <2>1, <2>2 DEF Revoke, Delete, Typed, TypeOK, Here, ShareRow
  <2>3. CASE Tick
    BY <2>3 DEF Tick
  <2>4. ASSUME NEW d \in Drains, Start(d) PROVE Good /\ Stays
    <3>1. drain[d].pc = "idle" /\ Others(d) /\ UNCHANGED share
      BY <2>1, <2>4, Started DEF Start
    <3> QED BY <3>1 DEF Others
  <2>5. ASSUME NEW d \in Drains, Book(d) PROVE Good /\ Stays
    <3>1. drain[d].pc = "book" /\ Others(d)
      BY <2>1, <2>5, Advances, Stops DEF Book
    <3>2. Stays
      BY <2>1, <2>5 DEF Book, Typed, TypeOK, Here, ShareRow
    <3> QED BY <3>1, <3>2 DEF Others
  <2>6. ASSUME NEW d \in Drains, NEW x \in Shares, NEW failed \in BOOLEAN, Send(d, x, failed)
        PROVE Good /\ Stays
    <3>1. drain'[d].at = x /\ x \in InHand(d) /\ Others(d) /\ UNCHANGED share
      BY <2>1, <2>6, Sending DEF Send
    <3> QED BY <2>1, <3>1 DEF Others, WasActive
  <2>7. ASSUME NEW d \in Drains, Die(d) PROVE Good /\ Stays
    <3>1. drain'[d].pc = "idle" /\ Others(d) /\ UNCHANGED share
      BY <2>1, <2>7, Stops DEF Die
    <3> QED BY <3>1 DEF Others
  <2>8. CASE UNCHANGED vars
    BY <2>8 DEF vars
  <2> QED BY <1>1, <2>2, <2>3, <2>4, <2>5, <2>6, <2>7, <2>8 DEF Next, Step
<1>2. IInv /\ [Next]_vars => [Good /\ Stays]_vars
  BY <1>1
<1> QED BY <1>2, IInvInit, IInvNext, PTL DEF Spec, SentWhileActive

=============================================================================
