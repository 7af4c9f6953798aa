-------------------------- MODULE EscrowOutboxProofs ------------------------
(***************************************************************************)
(* Proofs about EscrowOutbox, for every set of names, retry time, length   *)
(* of a handler and number of failures.  Tracked says what the contents    *)
(* that are under way have to do with the use of their names, Covered what *)
(* the handler has taken over from the alarm, Timely how the alarm and the *)
(* handler share the time that a record may wait.                          *)
(***************************************************************************)
EXTENDS EscrowOutbox, TLAPS

Tracked ==
  /\ \A k \in Keys : source[k] = None \/ source[k] \in 1 .. uses[k]
  /\ \A l \in late : l.content \in 1 .. uses[l.key]
  /\ \A a \in accepted : a.content \in 1 .. uses[a.key]
  /\ \A k \in owed \cup Queued : uses[k] >= 1
  /\ \A rec \in drain.todo : uses[rec.key] >= 1
  /\ At("push") => drain.rec \in drain.todo /\ drain.body \in 1 .. uses[drain.rec.key]

Draining == At("drain") \/ At("push")

(* What is queued is listed, or comes again: something is left, or an alarm
   is set. *)
Covered ==
  Draining => alarm # None \/ drain.left \/ \A k \in Queued : \E rec \in drain.todo : rec.key = k

Timely ==
  /\ At("idle") => \A k \in Queued \ moved : alarm # None /\ waited[k] + alarm <= Retry + DrainMax
  /\ At("events") \/ At("list") => \A k \in Queued \ moved : waited[k] <= Retry + DrainMax + drain.age
  /\ Draining => \A k \in Keys : waited[k] <= drain.age

IInv == TypeOK /\ Tracked /\ Covered /\ AlarmWhileRecords /\ NameUsedOnceIsKept /\ Timely

Handlers == {"idle", "events", "list", "drain", "push"}
DrainType == [pc : Handlers, todo : SUBSET Records, rec : Records \cup {None},
              body : 1 .. MaxUses \cup {None}, left : BOOLEAN, age : 0 .. DrainMax]
-----------------------------------------------------------------------------
(* The parts of the type invariant, with the arithmetic of the constants. *)
LEMMA Types ==
  ASSUME TypeOK
  PROVE  /\ Retry \in Nat /\ Retry > 0 /\ AlertAfter \in Nat /\ DrainMax \in Nat /\ MaxUses \in Nat
         /\ MaxFaults \in Nat /\ None \notin Nat /\ Inline \subseteq Keys
         /\ drain \in DrainType
         /\ drain.pc \in Handlers /\ drain.todo \in SUBSET Records /\ drain.left \in BOOLEAN
         /\ drain.age \in 0 .. DrainMax /\ drain.rec \in Records \cup {None}
         /\ drain.body \in 1 .. MaxUses \cup {None}
         /\ WaitMax = Retry + 2 * DrainMax /\ WaitMax \in Nat
BY OutboxAssumption DEF TypeOK, DrainType, Handlers, WaitMax

(* A record of the handler with some fields replaced is one. *)
LEMMA DrainTypes ==
  ASSUME NEW d \in DrainType, NEW pc \in Handlers
  PROVE  /\ \A todo \in SUBSET Records : \A left \in BOOLEAN :
              /\ [d EXCEPT !.pc = pc, !.todo = todo] \in DrainType
              /\ [d EXCEPT !.pc = pc, !.left = left] \in DrainType
         /\ \A rec \in Records : \A body \in 1 .. MaxUses \cup {None} :
              [d EXCEPT !.pc = pc, !.rec = rec, !.body = body] \in DrainType
         /\ \A todo \in SUBSET Records :
              [d EXCEPT !.pc = pc, !.todo = todo, !.rec = None, !.body = None] \in DrainType
         /\ \A left \in BOOLEAN : [d EXCEPT !.left = left] \in DrainType
<1> DEFINE one == [d EXCEPT !.pc = pc]
<1>1. one \in DrainType BY DEF DrainType
<1> HIDE DEF one
<1>2. ASSUME NEW todo \in SUBSET Records
      PROVE  [one EXCEPT !.todo = todo] \in DrainType
  BY <1>1 DEF DrainType
<1>3. ASSUME NEW rec \in Records \cup {None}, NEW e \in DrainType
      PROVE  [e EXCEPT !.rec = rec] \in DrainType
  BY <1>1 DEF DrainType
<1>4. ASSUME NEW body \in 1 .. MaxUses \cup {None}, NEW e \in DrainType
      PROVE  [e EXCEPT !.body = body] \in DrainType
  BY DEF DrainType
<1>5. ASSUME NEW left \in BOOLEAN, NEW e \in DrainType
      PROVE  [e EXCEPT !.left = left] \in DrainType
  BY DEF DrainType
<1>6. ASSUME NEW rec \in Records, NEW body \in 1 .. MaxUses \cup {None}
      PROVE  [[one EXCEPT !.rec = rec] EXCEPT !.body = body] \in DrainType
  <2> DEFINE two == [one EXCEPT !.rec = rec]
  <2>1. two \in DrainType BY <1>1, <1>3
  <2> HIDE DEF two
  <2>2. [two EXCEPT !.body = body] \in DrainType BY <2>1, <1>4
  <2> QED BY <2>2 DEF two
<1>7. ASSUME NEW todo \in SUBSET Records
      PROVE  [[[one EXCEPT !.todo = todo] EXCEPT !.rec = None] EXCEPT !.body = None] \in DrainType
  <2> DEFINE two == [one EXCEPT !.todo = todo]
             three == [two EXCEPT !.rec = None]
  <2>1. two \in DrainType BY <1>2
  <2> HIDE DEF two
  <2>2. three \in DrainType BY <2>1, <1>3
  <2> HIDE DEF three
  <2>3. [three EXCEPT !.body = None] \in DrainType BY <2>2, <1>4
  <2> QED BY <2>3 DEF two, three
<1> QED BY <1>1, <1>2, <1>5, <1>6, <1>7 DEF one
-----------------------------------------------------------------------------
(* The handler's record at rest and at its start. *)
LEMMA IdleType == ASSUME TypeOK PROVE Idle \in DrainType /\ [Idle EXCEPT !.pc = "events"] \in DrainType
<1>1. Idle \in DrainType BY Types DEF Idle, DrainType, Handlers
<1>2. \A d \in DrainType : [d EXCEPT !.pc = "events"] \in DrainType BY DEF DrainType, Handlers
<1> QED BY <1>1, <1>2

(* A record is done with, or comes again with one attempt more. *)
LEMMA DoneDoes ==
  ASSUME TypeOK, NEW rec \in drain.todo
  PROVE  /\ Done(rec) \in DrainType
         /\ Done(rec).pc = "drain" /\ Done(rec).todo = drain.todo \ {rec}
         /\ Done(rec).left = drain.left /\ Done(rec).age = drain.age
<1>1. drain.todo \ {rec} \in SUBSET Records /\ drain \in DrainType /\ "drain" \in Handlers
  BY Types DEF Handlers
<1>2. Done(rec) = [drain EXCEPT !.pc = "drain", !.todo = drain.todo \ {rec}, !.rec = None, !.body = None]
  BY <1>1 DEF Done, DrainType
<1>3. Done(rec) \in DrainType
  <2> DEFINE rest == drain.todo \ {rec}
  <2>1. rest \in SUBSET Records BY <1>1
  <2> HIDE DEF rest
  <2>2. [drain EXCEPT !.pc = "drain", !.todo = rest, !.rec = None, !.body = None] \in DrainType
    BY <1>1, <2>1, DrainTypes
  <2> QED BY <1>2, <2>2 DEF rest
<1> QED BY <1>1, <1>2, <1>3 DEF DrainType

(* A record that failed is queued again and counts as left. *)
LEMMA FailedDoes ==
  ASSUME TypeOK, NEW rec \in drain.todo, Failed(rec)
  PROVE  /\ drain' \in DrainType
         /\ drain'.pc = "drain" /\ drain'.todo = drain.todo \ {rec}
         /\ drain'.left = TRUE /\ drain'.age = drain.age
         /\ queue' \in [Keys -> 0 .. AlertAfter + 1 \cup {None}]
         /\ rec.key \in Keys /\ queue'[rec.key] \in Nat
         /\ \A k \in Keys \ {rec.key} : queue'[k] = queue[k]
<1> DEFINE d == Done(rec)
<1>1. d \in DrainType /\ d.left \in BOOLEAN BY DoneDoes DEF DrainType
<1>2. drain' = [d EXCEPT !.left = TRUE]
  <2>1. drain' = [d EXCEPT !.left = @ \/ ~ FALSE] BY DEF Failed, GivesUp
  <2> HIDE DEF d
  <2> QED BY <2>1, <1>1 DEF DrainType
<1>3. drain' \in DrainType
  <2> HIDE DEF d
  <2>1. [d EXCEPT !.left = TRUE] \in DrainType BY <1>1 DEF DrainType
  <2> QED BY <1>2, <2>1
<1>4. /\ drain'.pc = d.pc /\ drain'.todo = d.todo /\ drain'.left = TRUE /\ drain'.age = d.age
  <2> HIDE DEF d
  <2> QED BY <1>1, <1>2 DEF DrainType
<1>5. rec \in Records /\ rec.key \in Keys /\ rec.attempts \in 0 .. AlertAfter + 1
  BY Types DEF Records
<1>6. Attempts(rec.attempts + 1) \in 0 .. AlertAfter + 1
  BY <1>5, Types DEF Attempts
<1>7. queue' = [queue EXCEPT ![rec.key] = Attempts(rec.attempts + 1)] BY DEF Failed, GivesUp
<1>8. queue \in [Keys -> 0 .. AlertAfter + 1 \cup {None}] BY DEF TypeOK
<1>9. queue'[rec.key] = Attempts(rec.attempts + 1) /\ \A k \in Keys \ {rec.key} : queue'[k] = queue[k]
  BY <1>5, <1>7, <1>8
<1>10. queue' \in [Keys -> 0 .. AlertAfter + 1 \cup {None}] BY <1>5, <1>6, <1>7, <1>8
<1>11. queue'[rec.key] \in Nat BY <1>6, <1>9, Types
<1> QED BY <1>3, <1>4, <1>5, <1>9, <1>10, <1>11, DoneDoes

(* What the steps of the handler do to its record, field by field. *)
LEMMA FiresDoes ==
  ASSUME TypeOK, AlarmFires
  PROVE  /\ drain' \in DrainType /\ drain'.pc = "events" /\ drain'.todo = {} /\ drain'.age = 0
BY IdleType, Types DEF AlarmFires, Idle

(* The handler turns from the events to the list. *)
LEMMA PutEventsDoes ==
  ASSUME TypeOK, NEW kept, PutEvents(kept)
  PROVE  /\ drain' \in DrainType /\ drain'.pc = "list" /\ drain'.todo = drain.todo /\ drain'.age = drain.age
<1>1. drain' = [drain EXCEPT !.pc = "list", !.left = kept # {}] BY DEF PutEvents
<1>2. drain \in DrainType /\ drain.todo \in SUBSET Records /\ "list" \in Handlers /\ (kept # {}) \in BOOLEAN
  BY Types DEF Handlers
<1>3. drain' \in DrainType BY <1>1, <1>2, DrainTypes
<1> QED BY <1>1, <1>2, <1>3 DEF DrainType

(* The handler has listed the queue, or cannot and leaves it. *)
LEMMA ListDoes ==
  ASSUME TypeOK, NEW configured \in BOOLEAN, List(configured)
  PROVE  /\ drain' \in DrainType /\ drain'.pc = "drain" /\ drain'.age = drain.age
         /\ IF configured
            THEN drain'.todo = {[key |-> k, attempts |-> queue[k]] : k \in Queued}
            ELSE drain'.todo = drain.todo /\ (Queued # {} => drain'.left = TRUE)
<1>0. drain \in DrainType /\ drain.todo \in SUBSET Records /\ drain.left \in BOOLEAN /\ "drain" \in Handlers
  BY Types DEF Handlers
<1>1. CASE configured
  <2> DEFINE found == {[key |-> k, attempts |-> queue[k]] : k \in Queued}
  <2>1. found \in SUBSET Records BY DEF TypeOK, Queued, Records
  <2>2. drain' = [drain EXCEPT !.pc = "drain", !.todo = found] BY <1>1 DEF List
  <2> HIDE DEF found
  <2>3. drain' \in DrainType BY <2>1, <2>2, <1>0, DrainTypes
  <2>4. drain'.pc = "drain" /\ drain'.age = drain.age /\ drain'.todo = found
    BY <2>2, <1>0 DEF DrainType
  <2> QED BY <1>1, <2>3, <2>4 DEF found
<1>2. CASE ~ configured
  <2>1. drain' = [drain EXCEPT !.pc = "drain", !.left = drain.left \/ Queued # {}]
    BY <1>2, <1>0 DEF List, LeftUnconfigured, DrainType
  <2>2. (drain.left \/ Queued # {}) \in BOOLEAN OBVIOUS
  <2>3. drain' \in DrainType BY <2>1, <2>2, <1>0, DrainTypes
  <2>4. /\ drain'.pc = "drain" /\ drain'.age = drain.age /\ drain'.todo = drain.todo
        /\ drain'.left = (drain.left \/ Queued # {})
    BY <2>1, <1>0 DEF DrainType
  <2> QED BY <1>2, <2>3, <2>4
<1> QED BY <1>1, <1>2

(* A record is read and its body found, or it fails. *)
LEMMA ReadDoes ==
  ASSUME TypeOK, NEW rec \in drain.todo, NEW ok \in BOOLEAN, Read(rec, ok)
  PROVE  \/ Failed(rec)
         \/ /\ UNCHANGED queue
            /\ drain.rec' = rec /\ HasBody(rec.key)
            /\ drain.body' = (IF rec.key \in Inline THEN uses[rec.key] ELSE source[rec.key])
            /\ drain.body' \in 1 .. MaxUses \cup {None} => drain' \in DrainType
            /\ drain'.pc = "push" /\ drain'.todo = drain.todo /\ drain'.age = drain.age
            /\ drain'.left = drain.left
<1> DEFINE b == IF rec.key \in Inline THEN uses[rec.key] ELSE source[rec.key]
<1>1. CASE ok /\ HasBody(rec.key) /\ ~ GivesUp(rec)
  <2>1. drain' = [drain EXCEPT !.pc = "push", !.rec = rec, !.body = b] /\ UNCHANGED queue
    BY <1>1 DEF Read
  <2>2. drain \in DrainType /\ "push" \in Handlers /\ rec \in Records BY Types DEF Handlers
  <2> HIDE DEF b
  <2>3. b \in 1 .. MaxUses \cup {None} => drain' \in DrainType BY <2>1, <2>2, DrainTypes
  <2>4. /\ drain'.pc = "push" /\ drain'.todo = drain.todo /\ drain'.age = drain.age
        /\ drain'.left = drain.left /\ drain'.rec = rec /\ drain'.body = b
    BY <2>1, <2>2 DEF DrainType
  <2> QED BY <1>1, <2>1, <2>3, <2>4 DEF b
<1>2. CASE ~ (ok /\ HasBody(rec.key) /\ ~ GivesUp(rec)) BY <1>2 DEF Read
<1> QED BY <1>1, <1>2

(* The actions of Next, with their parameters. *)
LEMMA Steps ==
  ASSUME TypeOK, [Next]_vars
  PROVE  \/ \E k \in Keys : Store(k) \/ StoreLate(k) \/ Purge(k)
         \/ OutcomeLate \/ Enqueue \/ AlarmFires
         \/ \E kept \in SUBSET late : PutEvents(kept)
         \/ \E configured \in BOOLEAN : List(configured)
         \/ \E rec \in drain.todo : \E ok \in BOOLEAN : Read(rec, ok)
         \/ Push \/ \E landed \in BOOLEAN : PushFails(landed)
         \/ \E others \in BOOLEAN : Rearm(others)
         \/ Crash \/ Tick \/ UNCHANGED vars
BY Zenon DEF Next, Handler, Failure
-----------------------------------------------------------------------------
(* The type invariant without the handler's record. *)
RestOK ==
  /\ uses \in [Keys -> 0 .. MaxUses]
  /\ source \in [Keys -> 1 .. MaxUses \cup {None}]
  /\ late \subseteq Copies /\ owed \subseteq Keys
  /\ queue \in [Keys -> 0 .. AlertAfter + 1 \cup {None}]
  /\ alarm \in 0 .. Retry \cup {None}
  /\ replica \subseteq Copies /\ accepted \subseteq Copies
  /\ faults \in 0 .. MaxFaults /\ moved \subseteq Keys
  /\ waited \in [Keys -> 0 .. WaitMax + 1]

(* The types, with those of the handler's record apart. *)
LEMMA Halves == TypeOK <=> RestOK /\ drain \in DrainType
BY DEF TypeOK, RestOK, DrainType, Handlers

(* A failure leaves one fewer to come. *)
LEMMA FaultOK == ASSUME TypeOK, Fault PROVE faults' \in 0 .. MaxFaults
BY Types DEF TypeOK, Fault

(* Each action keeps the types, action by action. *)
LEMMA TypeStep == TypeOK /\ Tracked /\ [Next]_vars => TypeOK'
<1> SUFFICES ASSUME TypeOK, Tracked, [Next]_vars PROVE RestOK' /\ drain' \in DrainType
  BY Halves DEF TypeOK, RestOK, DrainType, Handlers, Records, Copies, WaitMax
<1> USE Halves, Types
<1>1. ASSUME NEW k \in Keys, Use(k) PROVE /\ uses' \in [Keys -> 0 .. MaxUses] /\ uses'[k] \in 1 .. MaxUses
                                          /\ owed' \subseteq Keys
  BY <1>1 DEF Use, RestOK
<1>2. ASSUME NEW k \in Keys, Store(k) PROVE RestOK' /\ drain' \in DrainType
  BY <1>1, <1>2 DEF Store, RestOK
<1>3. ASSUME NEW k \in Keys, StoreLate(k) PROVE RestOK' /\ drain' \in DrainType
  <2>1. [key |-> k, content |-> uses'[k]] \in Copies BY <1>1, <1>3 DEF StoreLate, Copies
  <2>2. late' \subseteq Copies BY <2>1, <1>3 DEF StoreLate, RestOK
  <2>3. alarm' \in 0 .. Retry /\ moved' \subseteq Keys BY <1>3 DEF StoreLate, SetAlarm, Queued, RestOK
  <2> QED BY <1>1, <1>3, <2>2, <2>3, FaultOK DEF StoreLate, RestOK
<1>4. ASSUME NEW k \in Keys, Purge(k) PROVE RestOK' /\ drain' \in DrainType
  BY <1>4 DEF Purge, RestOK
<1>5. CASE OutcomeLate
  <2>1. alarm' \in 0 .. Retry /\ moved' \subseteq Keys BY <1>5 DEF OutcomeLate, SetAlarm, Queued, RestOK
  <2> QED BY <1>5, <2>1, FaultOK DEF OutcomeLate, world, RestOK
<1>6. CASE Enqueue
  <2>1. queue' \in [Keys -> 0 .. AlertAfter + 1 \cup {None}] BY <1>6 DEF Enqueue, RestOK
  <2>2. \A k \in owed : [key |-> k, content |-> uses[k]] \in Copies
    BY DEF Tracked, RestOK, Copies
  <2>3. accepted' \subseteq Copies BY <1>6, <2>2 DEF Enqueue, RestOK
  <2>4. alarm' \in 0 .. Retry \cup {None} BY <1>6 DEF Enqueue, EarliestAlarm, RestOK
  <2>5. waited' \in [Keys -> 0 .. WaitMax + 1] /\ moved' \subseteq Keys BY <1>6 DEF Enqueue, RestOK
  <2> QED BY <1>6, <2>1, <2>3, <2>4, <2>5 DEF Enqueue, RestOK
<1>7. CASE AlarmFires BY <1>7, FiresDoes DEF AlarmFires, world, RestOK
<1>8. ASSUME NEW kept \in SUBSET late, PutEvents(kept) PROVE RestOK' /\ drain' \in DrainType
  <2>1. faults' \in 0 .. MaxFaults BY <1>8, FaultOK DEF PutEvents, RestOK
  <2>2. source' \in [Keys -> 1 .. MaxUses \cup {None}]
    <3> DEFINE mine(k) == {l \in late \ kept : l.key = k}
    <3>1. \A k \in Keys : mine(k) # {} => (CHOOSE l \in mine(k) : TRUE).content \in 1 .. MaxUses
      BY DEF RestOK, Copies
    <3>2. source' = [k \in Keys |-> IF source[k] # None \/ mine(k) = {} THEN source[k]
                                    ELSE (CHOOSE l \in mine(k) : TRUE).content]
      BY <1>8 DEF PutEvents
    <3> HIDE DEF mine
    <3> QED BY <3>1, <3>2 DEF RestOK
  <2>3. late' = kept /\ UNCHANGED <<uses, owed, queue, alarm, replica, accepted, waited, moved>>
    BY <1>8 DEF PutEvents
  <2> QED BY <1>8, <2>1, <2>2, <2>3, PutEventsDoes DEF RestOK
<1>9. ASSUME NEW configured \in BOOLEAN, List(configured) PROVE RestOK' /\ drain' \in DrainType
  <2>1. faults' \in 0 .. MaxFaults BY <1>9, FaultOK DEF List, RestOK
  <2>2. waited' \in [Keys -> 0 .. WaitMax + 1] /\ moved' = {} BY <1>9 DEF List
  <2> QED BY <1>9, <2>1, <2>2, ListDoes DEF List, world, RestOK
<1>10. ASSUME NEW rec \in drain.todo, NEW ok \in BOOLEAN, Read(rec, ok) PROVE RestOK' /\ drain' \in DrainType
  <2>1. faults' \in 0 .. MaxFaults BY <1>10, FaultOK DEF Read, RestOK
  <2>2. CASE Failed(rec) BY <1>10, <2>1, <2>2, FailedDoes DEF Read, world, RestOK
  <2>3. CASE ~ Failed(rec)
    <3>1. rec.key \in Keys BY DEF Records
    <3>2. drain.body' \in 1 .. MaxUses \cup {None}
      BY <1>10, <2>3, <3>1, ReadDoes DEF RestOK, Tracked
    <3> QED BY <1>10, <2>1, <2>3, <3>2, ReadDoes DEF Read, world, RestOK
  <2> QED BY <2>2, <2>3
<1>11. At("push") => /\ drain.rec \in drain.todo /\ drain.rec.key \in Keys
                     /\ [key |-> drain.rec.key, content |-> drain.body] \in Copies
  <2> SUFFICES ASSUME At("push") PROVE /\ drain.rec \in drain.todo /\ drain.rec.key \in Keys
                                       /\ [key |-> drain.rec.key, content |-> drain.body] \in Copies
    OBVIOUS
  <2>1. drain.rec \in drain.todo /\ drain.body \in 1 .. uses[drain.rec.key] BY DEF Tracked
  <2>2. drain.rec.key \in Keys BY <2>1 DEF Records
  <2>3. uses[drain.rec.key] \in 0 .. MaxUses BY <2>2 DEF RestOK
  <2> QED BY <2>1, <2>2, <2>3 DEF Copies
<1>12. CASE Push
  <2>1. At("push") /\ drain' = Done(drain.rec) BY <1>12 DEF Push
  <2>2. queue' \in [Keys -> 0 .. AlertAfter + 1 \cup {None}] BY <1>11, <1>12 DEF Push, RestOK
  <2>3. replica' \subseteq Copies BY <1>11, <1>12 DEF Push, Copy, RestOK
  <2> QED BY <1>11, <1>12, <2>1, <2>2, <2>3, DoneDoes DEF Push, world, RestOK
<1>13. ASSUME NEW landed \in BOOLEAN, PushFails(landed) PROVE RestOK' /\ drain' \in DrainType
  <2>1. At("push") /\ Failed(drain.rec) BY <1>13 DEF PushFails, Refused
  <2>2. replica' \subseteq Copies BY <1>11, <1>13 DEF PushFails, Copy, RestOK
  <2>3. queue' \in [Keys -> 0 .. AlertAfter + 1 \cup {None}] /\ drain' \in DrainType
    BY <1>11, <2>1, FailedDoes
  <2>4. faults' \in 0 .. MaxFaults BY <1>13, FaultOK DEF PushFails
  <2> QED BY <1>13, <2>2, <2>3, <2>4 DEF PushFails, world, RestOK
<1>14. ASSUME NEW others \in BOOLEAN, Rearm(others) PROVE RestOK' /\ drain' \in DrainType
  <2>1. faults' \in 0 .. MaxFaults BY <1>14, FaultOK DEF Rearm, RestOK
  <2>2. alarm' \in 0 .. Retry \cup {None} /\ moved' \subseteq Keys BY <1>14 DEF Rearm, Queued, RestOK
  <2> QED BY <1>14, <2>1, <2>2, IdleType DEF Rearm, world, RestOK
<1>15. CASE Crash
  <2>1. alarm' \in 0 .. Retry \cup {None} /\ moved' \subseteq Keys /\ owed' \subseteq Keys
    BY <1>15 DEF Crash, Queued, RestOK
  <2> QED BY <1>15, <2>1, FaultOK, IdleType DEF Crash, RestOK
<1>16. CASE Tick
  <2>1. alarm' \in 0 .. Retry \cup {None} BY <1>16 DEF Tick, RestOK
  <2>2. waited' \in [Keys -> 0 .. WaitMax + 1]
    <3>1. \A k \in Keys : waited[k] \in 0 .. WaitMax + 1 BY DEF RestOK
    <3>2. waited' = [k \in Keys |-> IF k \in Queued /\ waited[k] <= WaitMax THEN waited[k] + 1 ELSE waited[k]]
      BY <1>16 DEF Tick
    <3> HIDE DEF WaitMax
    <3> QED BY <3>1, <3>2
  <2>3. drain' \in DrainType
    <3>1. CASE At("idle") BY <1>16, <3>1 DEF Tick
    <3>2. CASE ~ At("idle")
      <4>1. drain' = [drain EXCEPT !.age = @ + 1] /\ drain.age < DrainMax BY <1>16, <3>2 DEF Tick
      <4>2. drain.age + 1 \in 0 .. DrainMax BY <4>1
      <4> QED BY <4>1, <4>2 DEF DrainType
    <3> QED BY <3>1, <3>2
  <2> QED BY <1>16, <2>1, <2>2, <2>3 DEF Tick, world, RestOK
<1>17. CASE UNCHANGED vars BY <1>17 DEF vars, RestOK
<1> QED BY Steps, <1>2, <1>3, <1>4, <1>5, <1>6, <1>7, <1>8, <1>9, <1>10, <1>12, <1>13, <1>14, <1>15, <1>16, <1>17
-----------------------------------------------------------------------------
(* The handler's steps keep a listed record listed, and what it pushes is of
   the name it pushes. *)
LEMMA TrackedStep == TypeOK /\ Tracked /\ [Next]_vars => Tracked'
<1> SUFFICES ASSUME TypeOK, Tracked, [Next]_vars PROVE Tracked' OBVIOUS
<1> USE Halves, Types
<1>0. /\ \A k \in Keys : uses[k] \in Nat
      /\ \A rec \in drain.todo : rec.key \in Keys
      /\ \A l \in late : l.key \in Keys /\ l.content \in Nat
      /\ \A a \in accepted : a.key \in Keys /\ a.content \in Nat
  BY DEF RestOK, Records, Copies
<1>1. ASSUME NEW k \in Keys, Use(k)
      PROVE /\ \A i \in Keys : uses'[i] \in Nat /\ uses'[i] >= uses[i]
            /\ uses'[k] = uses[k] + 1 /\ uses[k] \in Nat /\ owed' = owed \cup {k}
  BY <1>0, <1>1 DEF Use, RestOK
<1>2. ASSUME NEW k \in Keys, Use(k),
             \A i \in Keys : source'[i] = None \/ source'[i] \in 1 .. uses'[i],
             \A l \in late' : l.content \in 1 .. uses'[l.key],
             UNCHANGED <<queue, drain, accepted>>
      PROVE Tracked'
  <2>1. \A a \in accepted : a.content \in 1 .. uses'[a.key] BY <1>0, <1>1, <1>2 DEF Tracked
  <2>2. \A i \in owed' \cup Queued : uses'[i] >= 1
    <3> SUFFICES ASSUME NEW i \in owed' \cup Queued PROVE uses'[i] >= 1 OBVIOUS
    <3>1. i \in Keys BY <1>1, <1>2 DEF RestOK, Queued
    <3>2. CASE i = k BY <1>0, <1>1, <1>2, <3>2
    <3>3. CASE i # k
      <4>1. i \in owed \cup Queued BY <1>1, <1>2, <3>3
      <4> QED BY <1>0, <1>1, <1>2, <3>1, <4>1 DEF Tracked
    <3> QED BY <3>2, <3>3
  <2>3. \A rec \in drain.todo : uses'[rec.key] >= 1 BY <1>0, <1>1, <1>2 DEF Tracked
  <2>4. At("push") => drain.rec \in drain.todo /\ drain.body \in 1 .. uses'[drain.rec.key]
    BY <1>0, <1>1, <1>2 DEF Tracked
  <2> QED BY <1>2, <2>1, <2>2, <2>3, <2>4 DEF Tracked, At, Queued
<1>3. ASSUME NEW k \in Keys, Store(k) PROVE Tracked'
  <2>1. Use(k) /\ source' = [source EXCEPT ![k] = uses'[k]] /\ UNCHANGED <<late, queue, drain, accepted>>
    BY <1>3 DEF Store
  <2>2. \A i \in Keys : source'[i] = None \/ source'[i] \in 1 .. uses'[i]
    BY <1>0, <1>1, <2>1 DEF Tracked, RestOK
  <2>3. \A l \in late : l.content \in 1 .. uses'[l.key] BY <1>0, <1>1, <2>1 DEF Tracked
  <2> QED BY <1>2, <2>1, <2>2, <2>3
<1>4. ASSUME NEW k \in Keys, StoreLate(k) PROVE Tracked'
  <2>1. /\ Use(k) /\ UNCHANGED <<source, queue, drain, accepted>>
        /\ late' = {l \in late : l.key # k} \cup {[key |-> k, content |-> uses'[k]]}
    BY <1>4 DEF StoreLate
  <2>2. \A i \in Keys : source[i] = None \/ source[i] \in 1 .. uses'[i]
    BY <1>0, <1>1, <2>1 DEF Tracked, RestOK
  <2>3. \A l \in late' : l.content \in 1 .. uses'[l.key] BY <1>0, <1>1, <2>1 DEF Tracked
  <2> QED BY <1>2, <2>1, <2>2, <2>3
<1>5. ASSUME NEW k \in Keys, Purge(k) PROVE Tracked'
  <2>1. /\ source' = [source EXCEPT ![k] = None]
        /\ UNCHANGED <<uses, late, owed, queue, drain, accepted>>
    BY <1>5 DEF Purge
  <2>2. \A i \in Keys : source'[i] = None \/ source'[i] = source[i] BY <2>1 DEF RestOK
  <2> QED BY <2>1, <2>2 DEF Tracked, At, Queued
<1>6. CASE Enqueue
  <2>1. \A k \in owed : uses[k] \in 1 .. uses[k] BY <1>0 DEF Tracked, RestOK
  <2>2. \A a \in accepted' : a.content \in 1 .. uses[a.key] BY <1>6, <2>1 DEF Enqueue, Tracked
  <2>3. \A k \in Queued' : k \in owed \cup Queued BY <1>6 DEF Enqueue, Queued
  <2> QED BY <1>6, <2>2, <2>3 DEF Enqueue, Tracked, At
<1>7. ASSUME NEW kept \in SUBSET late, PutEvents(kept) PROVE Tracked'
  <2> DEFINE mine(k) == {l \in late \ kept : l.key = k}
  <2>1. \A k \in Keys : mine(k) # {} => (CHOOSE l \in mine(k) : TRUE).content \in 1 .. uses[k]
    BY DEF Tracked
  <2>2. source' = [k \in Keys |-> IF source[k] # None \/ mine(k) = {} THEN source[k]
                                  ELSE (CHOOSE l \in mine(k) : TRUE).content]
    BY <1>7 DEF PutEvents
  <2> HIDE DEF mine
  <2>3. \A k \in Keys : source'[k] = None \/ source'[k] \in 1 .. uses[k] BY <2>1, <2>2 DEF Tracked
  <2>4. late' = kept /\ UNCHANGED <<uses, owed, queue, accepted>> BY <1>7 DEF PutEvents
  <2> QED BY <1>7, <2>3, <2>4, PutEventsDoes DEF Tracked, At, Queued
<1>8. ASSUME UNCHANGED <<uses, source, late, accepted>>,
             owed' \cup Queued' \subseteq owed \cup Queued,
             drain'.pc # "push",
             \A rec \in drain'.todo : rec.key \in Queued \/ rec \in drain.todo
      PROVE Tracked'
  BY <1>8 DEF Tracked, At
<1>9. CASE AlarmFires BY <1>8, <1>9, FiresDoes DEF AlarmFires, world, Queued
<1>10. ASSUME NEW configured \in BOOLEAN, List(configured) PROVE Tracked'
  <2>1. \A rec \in drain'.todo : rec.key \in Queued \/ rec \in drain.todo
    <3>1. CASE configured
      <4>1. drain'.todo = {[key |-> k, attempts |-> queue[k]] : k \in Queued} BY <1>10, <3>1, ListDoes
      <4> QED BY <4>1
    <3>2. CASE ~ configured BY <1>10, <3>2, ListDoes
    <3> QED BY <3>1, <3>2
  <2> QED BY <1>8, <1>10, <2>1, ListDoes DEF List, world, Queued
<1>11. ASSUME NEW rec \in drain.todo, Failed(rec), UNCHANGED world PROVE Tracked'
  <2>1. uses[rec.key] >= 1 /\ \A k \in Keys \ {rec.key} : queue'[k] = queue[k]
    BY <1>11, FailedDoes DEF Tracked
  <2>2. \A k \in owed \cup Queued' : uses[k] >= 1
    BY <1>0, <2>1 DEF Tracked, Queued
  <2> QED BY <1>11, <2>2, FailedDoes DEF Tracked, world, At
<1>12. ASSUME NEW rec \in drain.todo, NEW ok \in BOOLEAN, Read(rec, ok) PROVE Tracked'
  <2>1. CASE Failed(rec) BY <1>11, <1>12, <2>1 DEF Read
  <2>2. CASE ~ Failed(rec)
    <3>0. UNCHANGED <<uses, source, late, owed, accepted>> BY <1>12 DEF Read, world
    <3>1. drain'.body \in 1 .. uses[rec.key]
      <4>1. uses[rec.key] >= 1 /\ uses[rec.key] \in Nat BY <1>0 DEF Tracked
      <4>2. CASE rec.key \in Inline BY <1>12, <2>2, <4>1, <4>2, ReadDoes
      <4>3. CASE rec.key \notin Inline
        BY <1>0, <1>12, <2>2, <4>3, ReadDoes DEF HasBody, Tracked
      <4> QED BY <4>2, <4>3
    <3> QED BY <1>12, <2>2, <3>0, <3>1, ReadDoes DEF Tracked, At, Queued
  <2> QED BY <2>1, <2>2
<1>13. CASE Push
  <2>1. drain.rec \in drain.todo /\ drain' = Done(drain.rec) BY <1>13 DEF Push, Tracked
  <2>2. \A k \in Queued' : k \in Queued BY <1>13 DEF Push, Queued, RestOK
  <2> QED BY <1>8, <1>13, <2>1, <2>2, DoneDoes DEF Push, world
<1>14. ASSUME NEW landed \in BOOLEAN, PushFails(landed) PROVE Tracked'
  <2>1. drain.rec \in drain.todo /\ Failed(drain.rec) BY <1>14 DEF PushFails, Refused, Tracked
  <2> QED BY <1>11, <1>14, <2>1 DEF PushFails
<1>15. ASSUME NEW others \in BOOLEAN, Rearm(others) PROVE Tracked'
  BY <1>8, <1>15 DEF Rearm, world, Queued, Idle
<1>16. CASE Crash BY <1>8, <1>16 DEF Crash, Queued, Idle
<1>17. CASE Tick
  <2>1. drain'.pc = drain.pc /\ drain'.todo = drain.todo /\ drain'.rec = drain.rec /\ drain'.body = drain.body
    BY <1>17 DEF Tick, DrainType
  <2> QED BY <1>17, <2>1 DEF Tick, world, Tracked, At, Queued
<1>18. CASE OutcomeLate BY <1>18 DEF OutcomeLate, world, Tracked, At, Queued
<1>19. CASE UNCHANGED vars BY <1>19 DEF vars, Tracked, At, Queued
<1> QED BY Steps, <1>3, <1>4, <1>5, <1>6, <1>7, <1>9, <1>10, <1>12, <1>13, <1>14, <1>15, <1>16, <1>17, <1>18, <1>19
-----------------------------------------------------------------------------
(* An alarm is set, or the handler runs and will see to what is queued. *)
LEMMA CoveredStep ==
  TypeOK /\ Tracked /\ Covered /\ AlarmWhileRecords /\ [Next]_vars => Covered' /\ AlarmWhileRecords'
<1> SUFFICES ASSUME TypeOK, Tracked, Covered, AlarmWhileRecords, [Next]_vars
             PROVE  Covered' /\ AlarmWhileRecords'
  OBVIOUS
<1> USE Halves, Types
<1>1. ASSUME alarm' # None PROVE Covered' /\ AlarmWhileRecords'
  BY <1>1 DEF Covered, AlarmWhileRecords
<1>2. ASSUME UNCHANGED <<queue, alarm, drain>> PROVE Covered' /\ AlarmWhileRecords'
  BY <1>2 DEF Covered, AlarmWhileRecords, Draining, At, Queued
<1>3. ASSUME drain'.pc \in {"events", "list"} PROVE Covered' /\ AlarmWhileRecords'
  BY <1>3 DEF Covered, AlarmWhileRecords, Draining, At
<1>4. ASSUME drain'.pc = "drain", drain'.left = TRUE PROVE Covered' /\ AlarmWhileRecords'
  BY <1>4 DEF Covered, AlarmWhileRecords, Draining, At
<1>5. ASSUME NEW k \in Keys, Store(k) \/ StoreLate(k) \/ Purge(k) PROVE Covered' /\ AlarmWhileRecords'
  BY <1>1, <1>2, <1>5 DEF Store, StoreLate, Purge, SetAlarm
<1>6. CASE OutcomeLate BY <1>1, <1>6 DEF OutcomeLate, SetAlarm
<1>7. CASE Enqueue BY <1>1, <1>7 DEF Enqueue, EarliestAlarm, RestOK
<1>8. CASE AlarmFires BY <1>3, <1>8, FiresDoes
<1>9. ASSUME NEW kept \in SUBSET late, PutEvents(kept) PROVE Covered' /\ AlarmWhileRecords'
  BY <1>3, <1>9, PutEventsDoes
<1>10. ASSUME NEW configured \in BOOLEAN, List(configured) PROVE Covered' /\ AlarmWhileRecords'
  <2>1. drain'.pc = "drain" /\ Queued' = Queued /\ ~ At("idle")' BY <1>10, ListDoes DEF List, Queued, At
  <2>2. CASE configured
    <3>1. drain'.todo = {[key |-> k, attempts |-> queue[k]] : k \in Queued} BY <1>10, <2>2, ListDoes
    <3>2. \A k \in Queued : \E rec \in drain'.todo : rec.key = k
      <4> TAKE k \in Queued
      <4>1. [key |-> k, attempts |-> queue[k]] \in drain'.todo BY <3>1
      <4> QED BY <4>1
    <3> QED BY <2>1, <3>2 DEF Covered, AlarmWhileRecords
  <2>3. CASE ~ configured
    <3>1. Queued # {} => drain'.left = TRUE BY <1>10, <2>3, ListDoes
    <3> QED BY <2>1, <3>1 DEF Covered, AlarmWhileRecords
  <2> QED BY <2>2, <2>3
<1>11. ASSUME NEW rec \in drain.todo, NEW ok \in BOOLEAN, Read(rec, ok) PROVE Covered' /\ AlarmWhileRecords'
  <2>1. CASE Failed(rec) BY <1>4, <2>1, FailedDoes
  <2>2. CASE ~ Failed(rec)
    <3>1. /\ drain'.pc = "push" /\ drain'.todo = drain.todo /\ drain'.left = drain.left
          /\ Queued' = Queued /\ alarm' = alarm /\ At("drain")
      BY <1>11, <2>2, ReadDoes DEF Read, Queued
    <3> QED BY <3>1 DEF Covered, AlarmWhileRecords, Draining, At
  <2> QED BY <2>1, <2>2
<1>12. CASE Push
  <2>1. /\ drain.rec \in drain.todo /\ drain' = Done(drain.rec) /\ At("push") /\ alarm' = alarm
        /\ queue' = [queue EXCEPT ![drain.rec.key] = None]
    BY <1>12 DEF Push, Tracked
  <2>2. drain'.pc = "drain" /\ drain'.todo = drain.todo \ {drain.rec} /\ drain'.left = drain.left
    BY <2>1, DoneDoes
  <2>3. \A k \in Queued' : k \in Queued /\ k # drain.rec.key BY <2>1 DEF Queued, RestOK
  <2> QED BY <2>1, <2>2, <2>3 DEF Covered, AlarmWhileRecords, Draining, At
<1>13. ASSUME NEW landed \in BOOLEAN, PushFails(landed) PROVE Covered' /\ AlarmWhileRecords'
  BY <1>4, <1>13, FailedDoes DEF PushFails, Refused, Tracked
<1>14. ASSUME NEW others \in BOOLEAN, Rearm(others) PROVE Covered' /\ AlarmWhileRecords'
  <2>1. CASE drain.left \/ others BY <1>1, <1>14, <2>1 DEF Rearm
  <2>2. CASE ~ drain.left /\ ~ others
    <3>1. /\ At("drain") /\ drain.todo = {} /\ alarm' = alarm /\ Queued' = Queued /\ drain'.pc = "idle"
      BY <1>14, <2>2 DEF Rearm, Queued, Idle
    <3>2. alarm # None \/ Queued = {} BY <2>2, <3>1 DEF Covered, Draining
    <3> QED BY <3>1, <3>2 DEF Covered, AlarmWhileRecords, Draining, At
  <2> QED BY <2>1, <2>2
<1>15. CASE Crash
  <2>1. drain'.pc = "idle" /\ Queued' = Queued BY <1>15 DEF Crash, Queued, Idle
  <2>2. At("idle") => alarm' = alarm BY <1>15 DEF Crash
  <2>3. ~ At("idle") => alarm' # None BY <1>15 DEF Crash
  <2> QED BY <1>1, <2>1, <2>2, <2>3 DEF Covered, AlarmWhileRecords, Draining, At
<1>16. CASE Tick
  <2>1. /\ drain'.pc = drain.pc /\ drain'.todo = drain.todo /\ drain'.left = drain.left
        /\ Queued' = Queued /\ (alarm # None => alarm' # None)
    BY <1>16 DEF Tick, DrainType, Queued, RestOK
  <2> QED BY <2>1 DEF Covered, AlarmWhileRecords, Draining, At
<1>17. CASE UNCHANGED vars BY <1>2, <1>17 DEF vars
<1> QED BY Steps, <1>5, <1>6, <1>7, <1>8, <1>9, <1>10, <1>11, <1>12, <1>13, <1>14, <1>15, <1>16, <1>17

(* A copy is made before its record is deleted, and of the content that was
   queued if there is only one. *)
LEMMA KeptStep == TypeOK /\ Tracked /\ NameUsedOnceIsKept /\ [Next]_vars => NameUsedOnceIsKept'
<1> SUFFICES ASSUME TypeOK, Tracked, NameUsedOnceIsKept, [Next]_vars, NEW a \in accepted', uses'[a.key] = 1
             PROVE  a \in replica' \/ a.key \in Queued'
  BY DEF NameUsedOnceIsKept
<1> USE Halves, Types
<1>0. \A c \in accepted : /\ c \in Copies /\ c.key \in Keys /\ c.content \in Nat
                          /\ uses[c.key] \in Nat /\ c.content \in 1 .. uses[c.key]
  BY DEF RestOK, Copies, Tracked
<1>1. ASSUME a \in accepted, uses[a.key] = 1, replica \subseteq replica',
             a.key \in Queued => a.key \in Queued'
      PROVE  a \in replica' \/ a.key \in Queued'
  BY <1>1 DEF NameUsedOnceIsKept
<1>2. ASSUME NEW k \in Keys, Use(k), UNCHANGED <<queue, replica, accepted>>
      PROVE  a \in replica' \/ a.key \in Queued'
  <2>1. a \in accepted BY <1>2
  <2>2. a.key # k BY <1>0, <1>2, <2>1 DEF Use, RestOK
  <2>3. uses'[a.key] = uses[a.key] BY <1>0, <1>2, <2>1, <2>2 DEF Use, RestOK
  <2> QED BY <1>1, <1>2, <2>1, <2>3 DEF Queued
<1>3. ASSUME NEW k \in Keys, Store(k) \/ StoreLate(k) PROVE a \in replica' \/ a.key \in Queued'
  BY <1>2, <1>3 DEF Store, StoreLate
<1>4. CASE Enqueue
  <2>1. /\ accepted' = accepted \cup {[key |-> k, content |-> uses[k]] : k \in owed}
        /\ queue' = [k \in Keys |-> IF k \in owed THEN 0 ELSE queue[k]]
        /\ UNCHANGED <<uses, replica>>
    BY <1>4 DEF Enqueue
  <2>2. \A k \in owed \cup Queued : k \in Queued' BY <2>1 DEF Queued, RestOK
  <2>3. CASE a \in accepted BY <1>1, <2>1, <2>2, <2>3
  <2>4. CASE a \notin accepted BY <2>1, <2>2, <2>4
  <2> QED BY <2>3, <2>4
<1>5. ASSUME UNCHANGED <<uses, accepted, replica>>, \A k \in Queued : k \in Queued'
      PROVE  a \in replica' \/ a.key \in Queued'
  BY <1>1, <1>5
<1>6. ASSUME NEW k \in Keys, Purge(k) PROVE a \in replica' \/ a.key \in Queued'
  BY <1>5, <1>6 DEF Purge, Queued
<1>7. CASE OutcomeLate \/ AlarmFires \/ Crash \/ Tick \/ UNCHANGED vars
  BY <1>5, <1>7 DEF OutcomeLate, AlarmFires, Crash, Tick, world, vars, Queued
<1>8. ASSUME NEW kept \in SUBSET late, PutEvents(kept) PROVE a \in replica' \/ a.key \in Queued'
  BY <1>5, <1>8 DEF PutEvents, Queued
<1>9. ASSUME NEW b \in BOOLEAN, List(b) \/ Rearm(b) PROVE a \in replica' \/ a.key \in Queued'
  BY <1>5, <1>9 DEF List, Rearm, world, Queued
<1>10. ASSUME NEW rec \in drain.todo, Failed(rec) PROVE \A k \in Queued : k \in Queued'
  <2>1. /\ rec.key \in Keys /\ queue'[rec.key] \in Nat
        /\ \A k \in Keys \ {rec.key} : queue'[k] = queue[k]
    BY ONLY TypeOK, <1>10, FailedDoes
  <2>2. None \notin Nat BY ONLY OutboxAssumption
  <2> QED BY ONLY <2>1, <2>2 DEF Queued
<1>11. ASSUME NEW rec \in drain.todo, NEW ok \in BOOLEAN, Read(rec, ok)
       PROVE  a \in replica' \/ a.key \in Queued'
  <2>1. CASE Failed(rec) BY <1>5, <1>10, <1>11, <2>1 DEF Read, world
  <2>2. CASE ~ Failed(rec) BY <1>5, <1>11, <2>2, ReadDoes DEF Read, world, Queued
  <2> QED BY <2>1, <2>2
<1>12. CASE Push
  <2> DEFINE k == drain.rec.key
  <2>1. /\ a \in accepted /\ uses[a.key] = 1 /\ replica' = replica \cup {[key |-> k, content |-> drain.body]}
        /\ queue' = [queue EXCEPT ![k] = None] /\ drain.body \in 1 .. uses[k]
    BY <1>12 DEF Push, Copy, world, Tracked
  <2>2. CASE a.key = k
    <3>1. a.content = 1 /\ drain.body = 1 BY <1>0, <2>1, <2>2
    <3>2. a = [key |-> k, content |-> drain.body] BY <1>0, <2>1, <2>2, <3>1 DEF Copies
    <3> QED BY <2>1, <3>2
  <2>3. CASE a.key # k
    <3>1. a.key \in Queued => a.key \in Queued' BY <2>1, <2>3 DEF Queued, RestOK
    <3> QED BY <1>1, <2>1, <3>1
  <2> QED BY <2>2, <2>3
<1>13. ASSUME NEW landed \in BOOLEAN, PushFails(landed) PROVE a \in replica' \/ a.key \in Queued'
  <2>1. drain.rec \in drain.todo /\ Failed(drain.rec) BY <1>13 DEF PushFails, Refused, Tracked
  <2>2. \A k \in Queued : k \in Queued' BY <1>10, <2>1
  <2>3. replica \subseteq replica' /\ UNCHANGED <<uses, accepted>> BY <1>13 DEF PushFails, Copy, world
  <2> QED BY <1>1, <2>2, <2>3
<1> QED BY Steps, <1>3, <1>4, <1>6, <1>7, <1>8, <1>9, <1>11, <1>12, <1>13
-----------------------------------------------------------------------------
(* Every record has its time: what it waited and what the alarm has still to
   go, or what the handler may still take, stays within WaitMax. *)
LEMMA TimelyStep == TypeOK /\ Tracked /\ Covered /\ Timely /\ [Next]_vars => Timely'
<1> SUFFICES ASSUME TypeOK, Tracked, Covered, Timely, [Next]_vars PROVE Timely' OBVIOUS
<1> USE Halves, Types
<1>0. /\ \A k \in Keys : waited[k] \in Nat
      /\ alarm = None \/ alarm \in 0 .. Retry
      /\ Queued \subseteq Keys
  BY DEF RestOK, Queued
<1>1. ASSUME UNCHANGED <<waited, alarm>>, drain'.pc = drain.pc, drain'.age = drain.age,
             Queued' \ moved' \subseteq Queued \ moved
      PROVE  Timely'
  BY <1>1 DEF Timely, Draining, At
<1>2. ASSUME UNCHANGED <<waited, drain>>, moved' = moved \cup Queued, Queued' = Queued
      PROVE  Timely'
  BY <1>2 DEF Timely, Draining, At
<1>3. ASSUME Draining, drain'.pc \in {"drain", "push"}, drain'.age = drain.age, UNCHANGED waited
      PROVE  Timely'
  BY <1>3 DEF Timely, Draining, At
<1>4. ASSUME NEW k \in Keys, Store(k) \/ Purge(k) PROVE Timely'
  BY <1>1, <1>4 DEF Store, Purge, Queued
<1>5. CASE OutcomeLate \/ \E k \in Keys : StoreLate(k)
  BY <1>2, <1>5 DEF OutcomeLate, StoreLate, SetAlarm, Queued
<1>6. CASE Enqueue
  <2>1. /\ drain' = drain /\ moved' = moved \ (owed \ Queued) /\ owed \subseteq Keys
        /\ queue' = [k \in Keys |-> IF k \in owed THEN 0 ELSE queue[k]]
        /\ waited' = [k \in Keys |-> IF k \in owed \ Queued THEN 0 ELSE waited[k]]
        /\ alarm' = EarliestAlarm
    BY <1>6 DEF Enqueue, RestOK
  <2>2. alarm' \in 0 .. Retry /\ (alarm # None => alarm' <= alarm) /\ alarm' # None
    BY <2>1, <1>0 DEF EarliestAlarm
  <2>3. \A k \in Keys : waited'[k] \in Nat /\ waited'[k] <= waited[k] BY <2>1, <1>0
  <2>4. ASSUME NEW k \in Queued' \ moved'
        PROVE  k \in Keys /\ (waited'[k] = 0 \/ k \in Queued \ moved)
    <3>1. k \in Keys /\ k \in owed \cup Queued BY <2>1, <2>4 DEF Queued
    <3>2. CASE k \in owed \ Queued BY <2>1, <3>1, <3>2
    <3>3. CASE k \notin owed \ Queued BY <2>1, <2>4, <3>1, <3>3
    <3> QED BY <3>1, <3>2, <3>3
  <2>5. At("idle")' => \A k \in Queued' \ moved' : alarm' # None /\ waited'[k] + alarm' <= Retry + DrainMax
    <3> SUFFICES ASSUME At("idle"), NEW k \in Queued' \ moved'
                 PROVE  alarm' # None /\ waited'[k] + alarm' <= Retry + DrainMax
      BY <2>1 DEF At
    <3>1. CASE waited'[k] = 0 BY <2>2, <3>1
    <3>2. CASE k \in Queued \ moved
      <4>1. alarm # None /\ waited[k] + alarm <= Retry + DrainMax BY <3>2 DEF Timely
      <4> QED BY <4>1, <2>2, <2>3, <2>4, <1>0
    <3> QED BY <2>4, <3>1, <3>2
  <2>6. At("events")' \/ At("list")' =>
          \A k \in Queued' \ moved' : waited'[k] <= Retry + DrainMax + drain'.age
    <3> SUFFICES ASSUME At("events") \/ At("list"), NEW k \in Queued' \ moved'
                 PROVE  waited'[k] <= Retry + DrainMax + drain.age
      BY <2>1 DEF At
    <3>1. CASE waited'[k] = 0 BY <3>1
    <3>2. CASE k \in Queued \ moved
      <4>1. waited[k] <= Retry + DrainMax + drain.age BY <3>2 DEF Timely
      <4> QED BY <4>1, <2>3, <2>4, <1>0
    <3> QED BY <2>4, <3>1, <3>2
  <2>7. Draining' => \A k \in Keys : waited'[k] <= drain'.age
    <3> SUFFICES ASSUME Draining, NEW k \in Keys PROVE waited'[k] <= drain.age
      BY <2>1 DEF Draining, At
    <3> QED BY <2>3, <1>0 DEF Timely
  <2> QED BY <2>5, <2>6, <2>7 DEF Timely
<1>7. CASE AlarmFires
  <2>1. /\ At("idle") /\ alarm = 0 /\ drain'.pc = "events" /\ drain'.age = 0
        /\ UNCHANGED <<queue, waited, moved>>
    BY <1>7, FiresDoes DEF AlarmFires
  <2>2. \A k \in Queued \ moved : waited[k] <= Retry + DrainMax + 0 BY <1>0, <2>1 DEF Timely
  <2> QED BY <2>1, <2>2 DEF Timely, Draining, At, Queued
<1>8. ASSUME NEW kept \in SUBSET late, PutEvents(kept) PROVE Timely'
  <2>1. At("events") /\ drain'.pc = "list" /\ drain'.age = drain.age /\ UNCHANGED <<queue, waited, moved>>
    BY <1>8, PutEventsDoes DEF PutEvents
  <2> QED BY <2>1 DEF Timely, Draining, At, Queued
<1>9. ASSUME NEW configured \in BOOLEAN, List(configured) PROVE Timely'
  <2>1. drain'.pc = "drain" /\ drain'.age = drain.age BY <1>9, ListDoes
  <2>2. waited' = [k \in Keys |-> 0] BY <1>9 DEF List
  <2>3. \A k \in Keys : waited'[k] <= drain'.age BY <2>1, <2>2
  <2> QED BY <2>1, <2>3 DEF Timely, Draining, At
<1>10. ASSUME NEW rec \in drain.todo, NEW ok \in BOOLEAN, Read(rec, ok) PROVE Timely'
  <2>1. Draining /\ UNCHANGED waited BY <1>10 DEF Read, Draining
  <2>2. drain'.pc \in {"drain", "push"} /\ drain'.age = drain.age BY <1>10, ReadDoes, FailedDoes
  <2> QED BY <1>3, <2>1, <2>2
<1>11. CASE Push
  <2>1. drain.rec \in drain.todo /\ drain' = Done(drain.rec) /\ Draining /\ UNCHANGED waited
    BY <1>11 DEF Push, Tracked, Draining
  <2> QED BY <1>3, <2>1, DoneDoes
<1>12. ASSUME NEW landed \in BOOLEAN, PushFails(landed) PROVE Timely'
  <2>1. drain.rec \in drain.todo /\ Failed(drain.rec) /\ Draining /\ UNCHANGED waited
    BY <1>12 DEF PushFails, Refused, Tracked, Draining
  <2> QED BY <1>3, <2>1, FailedDoes
<1>13. ASSUME NEW others \in BOOLEAN, Rearm(others) PROVE Timely'
  <2>1. /\ Draining /\ drain.todo = {} /\ drain'.pc = "idle"
        /\ Queued' = Queued /\ UNCHANGED waited
        /\ alarm' = (IF drain.left \/ others THEN Retry ELSE alarm)
    BY <1>13 DEF Rearm, Draining, Queued, Idle
  <2>2. Queued # {} => alarm' # None /\ alarm' \in 0 .. Retry BY <1>0, <2>1 DEF Covered
  <2>3. \A k \in Queued : waited[k] <= DrainMax /\ waited[k] \in Nat BY <1>0, <2>1 DEF Timely
  <2>4. \A k \in Queued : alarm' # None /\ waited[k] + alarm' <= Retry + DrainMax BY <2>2, <2>3
  <2> QED BY <2>1, <2>4 DEF Timely, Draining, At
<1>14. CASE Crash
  <2>1. drain'.pc = "idle" /\ Queued' = Queued /\ UNCHANGED waited BY <1>14 DEF Crash, Queued, Idle
  <2>2. CASE At("idle") BY <1>14, <2>1, <2>2 DEF Crash, Timely, Draining, At
  <2>3. CASE ~ At("idle")
    <3>1. moved' = moved \cup Queued BY <1>14, <2>3 DEF Crash
    <3> QED BY <2>1, <3>1 DEF Timely, Draining, At
  <2> QED BY <2>2, <2>3
<1>15. CASE Tick
  <2>1. /\ Queued' = Queued /\ moved' = moved /\ drain'.pc = drain.pc
        /\ waited' = [k \in Keys |-> IF k \in Queued /\ waited[k] <= WaitMax THEN waited[k] + 1 ELSE waited[k]]
        /\ alarm' = IF alarm \in {None, 0} THEN alarm ELSE alarm - 1
    BY <1>15 DEF Tick, Queued, DrainType
  <2>2. \A k \in Keys : waited'[k] \in Nat /\ waited'[k] <= waited[k] + 1
    <3> HIDE DEF WaitMax
    <3> QED BY <1>0, <2>1
  <2>3. CASE At("idle")
    <3>1. alarm # 0 BY <1>15, <2>3 DEF Tick
    <3>2. ASSUME NEW k \in Queued \ moved PROVE alarm' # None /\ waited'[k] + alarm' <= Retry + DrainMax
      <4>1. alarm # None /\ waited[k] + alarm <= Retry + DrainMax /\ k \in Keys
        BY <1>0, <2>3, <3>2 DEF Timely
      <4>2. alarm' = alarm - 1 /\ alarm' \in Nat BY <1>0, <2>1, <3>1, <4>1
      <4> QED BY <1>0, <2>2, <4>1, <4>2
    <3> QED BY <2>1, <2>3, <3>2 DEF Timely, Draining, At
  <2>4. CASE ~ At("idle")
    <3>1. drain'.age = drain.age + 1 BY <1>15, <2>4 DEF Tick, DrainType
    <3>2. At("events") \/ At("list") =>
            \A k \in Queued \ moved : waited'[k] <= Retry + DrainMax + (drain.age + 1)
      BY <1>0, <2>2 DEF Timely
    <3>3. Draining => \A k \in Keys : waited'[k] <= drain.age + 1
      BY <1>0, <2>2 DEF Timely
    <3> QED BY <2>1, <2>4, <3>1, <3>2, <3>3 DEF Timely, Draining, At
  <2> QED BY <2>3, <2>4
<1>16. CASE UNCHANGED vars BY <1>1, <1>16 DEF vars, Queued
<1> QED BY Steps, <1>4, <1>5, <1>6, <1>7, <1>8, <1>9, <1>10, <1>11, <1>12, <1>13, <1>14, <1>15, <1>16

(* Timely bounds what TriedInTime bounds. *)
LEMMA InTime == TypeOK /\ Timely => TriedInTime
<1> SUFFICES ASSUME TypeOK, Timely, NEW k \in Queued \ moved PROVE waited[k] <= WaitMax
  BY DEF TriedInTime
<1>1. k \in Keys /\ waited[k] \in Nat /\ (alarm = None \/ alarm \in 0 .. Retry)
  BY DEF TypeOK, Queued
<1>2. CASE At("idle") BY <1>1, <1>2, Types DEF Timely
<1>3. CASE At("events") \/ At("list") BY <1>1, <1>3, Types DEF Timely
<1>4. CASE Draining BY <1>1, <1>4, Types DEF Timely
<1> QED BY <1>2, <1>3, <1>4, Types DEF Handlers, At, Draining
-----------------------------------------------------------------------------
(* An object with an empty queue. *)
LEMMA InitOK == Init => IInv
<1> SUFFICES ASSUME Init PROVE IInv OBVIOUS
<1> USE OutboxAssumption DEF Init
<1>1. TypeOK
  <2>1. WaitMax + 1 \in Nat /\ 0 \in 0 .. WaitMax + 1 BY DEF WaitMax
  <2>2. drain \in DrainType BY DEF Idle, DrainType, Handlers
  <2>3. RestOK BY <2>1 DEF RestOK
  <2> QED BY <2>2, <2>3, Halves
<1>2. Queued = {} BY DEF Queued
<1>3. Tracked /\ Covered /\ AlarmWhileRecords /\ NameUsedOnceIsKept /\ Timely
  BY <1>2 DEF Tracked, Covered, AlarmWhileRecords, NameUsedOnceIsKept, Timely, Draining, At, Idle
<1> QED BY <1>1, <1>3 DEF IInv

(* The inductive invariant of the queue and its alarm. *)
THEOREM IInvHolds == Spec => []IInv
<1>1. IInv /\ [Next]_vars => IInv'
  BY TypeStep, TrackedStep, CoveredStep, KeptStep, TimelyStep DEF IInv
<1> QED BY InitOK, <1>1, PTL DEF Spec

(* Every variable keeps its type and its bound. *)
THEOREM TypeCorrect == Spec => []TypeOK
<1>1. IInv => TypeOK BY DEF IInv
<1> QED BY IInvHolds, <1>1, PTL

(* escrow.ts:2 for names that are used once: what was queued reaches B2 or is
   still queued, for any number of crashes, refusals and lost answers. *)
THEOREM NamesUsedOnceAreKept == Spec => []NameUsedOnceIsKept
<1>1. IInv => NameUsedOnceIsKept BY DEF IInv
<1> QED BY IInvHolds, <1>1, PTL

(* escrow.ts:215 and writer-do.ts:517: no record waits without an alarm. *)
THEOREM AlarmIsSet == Spec => []AlarmWhileRecords
<1>1. IInv => AlarmWhileRecords BY DEF IInv
<1> QED BY IInvHolds, <1>1, PTL

(* escrow.ts:213: no stream of enqueues postpones a record past the retry
   time and two handlers. *)
THEOREM RecordsAreTriedInTime == Spec => []TriedInTime
<1>1. IInv => TriedInTime BY InTime DEF IInv
<1> QED BY IInvHolds, <1>1, PTL
=============================================================================
