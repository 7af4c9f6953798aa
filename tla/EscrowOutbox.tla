---------------------------- MODULE EscrowOutbox ----------------------------
(***************************************************************************)
(* The queue of objects still to be copied to B2 (worker/src/escrow.ts,    *)
(* enqueueEscrowPushes and drainEscrowPushes), as the two Durable Objects  *)
(* that own one use it: the alarm of the writer (writer-do.ts) and of the  *)
(* audit log (audit-do.ts).  A record is stored under the B2 name of its   *)
(* object and says where the body is: at the same name in R2, or in the    *)
(* record.                                                                 *)
(*                                                                         *)
(* One alarm serves everything an object retries.  Other events run while  *)
(* the drain waits for R2 or B2, not while it waits for its own storage;   *)
(* storage writes without such a wait between them are kept or lost        *)
(* together.  Times are relative: alarm counts down, waited counts up.     *)
(***************************************************************************)
EXTENDS Naturals, FiniteSets

CONSTANTS Keys,       \* names of objects
          Inline,     \* those whose body is in the record: audit segments
          None,
          Retry,      \* ESCROW_RETRY_MS and POINTER_EVENT_RETRY_MS
          AlertAfter, \* ESCROW_ALERT_AFTER
          DrainMax,   \* the longest an alarm handler runs: a bound on the model
          MaxUses,    \* bound on how often a name is used
          MaxFaults   \* bound on failed calls and crashes

ASSUME OutboxAssumption ==
  /\ Inline \subseteq Keys /\ None \notin Nat
  /\ Retry \in Nat \ {0} /\ AlertAfter \in Nat \ {0}
  /\ DrainMax \in Nat /\ MaxUses \in Nat /\ MaxFaults \in Nat

VARIABLES
  uses,     \* how often a name was used: the n-th use has content n
  source,   \* R2: the content under a name, or None
  late,     \* pending pointer events: [key, content] not in R2 yet
  owed,     \* stored by a commit that has not queued them yet
  queue,    \* pending-escrow-push records: attempts, or None
  alarm,    \* ticks until the alarm, or None
  drain,    \* the alarm handler
  replica,  \* B2, versioned and append-only: [key, content]
  faults,   \* failures still to come
  accepted, \* history: [key, content] of what was queued
  waited,   \* history: ticks since a record was queued or last listed
  moved     \* history: records waiting when something else, or a crash, moved the alarm
vars == <<uses, source, late, owed, queue, alarm, drain, replica, faults, accepted, waited, moved>>
world == <<uses, source, late, owed, accepted>>

Idle == [pc |-> "idle", todo |-> {}, rec |-> None, body |-> None, left |-> FALSE, age |-> 0]

WaitMax == Retry + 2 * DrainMax

Init ==
  /\ uses = [k \in Keys |-> 0]
  /\ source = [k \in Keys |-> None]
  /\ late = {} /\ owed = {} /\ replica = {} /\ accepted = {} /\ moved = {}
  /\ queue = [k \in Keys |-> None]
  /\ alarm = None /\ drain = Idle
  /\ faults = MaxFaults
  /\ waited = [k \in Keys |-> 0]

Queued == {k \in Keys : queue[k] # None}
Fault == faults > 0 /\ faults' = faults - 1
-----------------------------------------------------------------------------
(* A commit stores an object under a name that is free. *)
Use(k) ==
  /\ uses[k] < MaxUses /\ source[k] = None /\ k \notin owed
  /\ uses' = [uses EXCEPT ![k] = @ + 1]
  /\ owed' = owed \cup {k}

Store(k) ==
  /\ Use(k)
  /\ source' = [source EXCEPT ![k] = uses'[k]]
  /\ UNCHANGED <<late, queue, alarm, drain, replica, faults, accepted, waited, moved>>

(* What else an object retries sets the alarm anew, whatever it was. *)
SetAlarm == alarm' = Retry /\ moved' = moved \cup Queued

(* enqueuePendingPointerEvent: R2 refused the event. *)
StoreLate(k) ==
  /\ Fault /\ Use(k) /\ k \notin Inline
  /\ late' = {l \in late : l.key # k} \cup {[key |-> k, content |-> uses'[k]]}
  /\ SetAlarm
  /\ UNCHANGED <<source, queue, drain, replica, accepted, waited>>

(* enqueuePendingOutcome: the outcome rows could not be appended. *)
OutcomeLate ==
  /\ Fault /\ SetAlarm
  /\ UNCHANGED <<world, queue, drain, replica, waited>>

(* Mutation: the alarm is always set Retry from now. *)
EarliestAlarmAnew == Retry

(* Never moves an earlier alarm later. *)
EarliestAlarm == IF alarm = None \/ alarm > Retry THEN Retry ELSE alarm

Enqueue ==
  /\ owed # {} /\ owed' = {}
  /\ queue' = [k \in Keys |-> IF k \in owed THEN 0 ELSE queue[k]]
  /\ accepted' = accepted \cup {[key |-> k, content |-> uses[k]] : k \in owed}
  /\ alarm' = EarliestAlarm
  /\ waited' = [k \in Keys |-> IF k \in owed \ Queued THEN 0 ELSE waited[k]]
  /\ moved' = moved \ (owed \ Queued)
  /\ UNCHANGED <<uses, source, late, drain, replica, faults>>

(* The project is deleted: its objects leave R2, the records stay. *)
Purge(k) ==
  /\ source[k] # None /\ k \notin Inline
  /\ source' = [source EXCEPT ![k] = None]
  /\ UNCHANGED <<uses, late, owed, queue, alarm, drain, replica, faults, accepted, waited, moved>>
-----------------------------------------------------------------------------
At(pc) == drain.pc = pc

AlarmFires ==
  /\ At("idle") /\ alarm = 0
  /\ alarm' = None
  /\ drain' = [Idle EXCEPT !.pc = "events"]
  /\ UNCHANGED <<world, queue, replica, faults, waited, moved>>

(* The writer puts its late events first, where no object is. *)
PutEvents(kept) ==
  /\ At("events") /\ kept \subseteq late
  /\ IF kept = {} THEN UNCHANGED faults ELSE Fault
  /\ source' = [k \in Keys |->
       LET mine == {l \in late \ kept : l.key = k}
       IN  IF source[k] # None \/ mine = {} THEN source[k] ELSE (CHOOSE l \in mine : TRUE).content]
  /\ late' = kept
  /\ drain' = [drain EXCEPT !.pc = "list", !.left = kept # {}]
  /\ UNCHANGED <<uses, owed, queue, alarm, replica, accepted, waited, moved>>

(* Mutation: a drain without its configuration reports that nothing is left. *)
LeftUnconfiguredNone == FALSE

LeftUnconfigured == Queued # {}

(* A deploy may have dropped the B2 credentials: then everything waits. *)
List(configured) ==
  /\ At("list")
  /\ IF configured
     THEN /\ drain' = [drain EXCEPT !.pc = "drain", !.todo = {[key |-> k, attempts |-> queue[k]] : k \in Queued}]
          /\ UNCHANGED faults
     ELSE /\ Fault
          /\ drain' = [drain EXCEPT !.pc = "drain", !.left = @ \/ LeftUnconfigured]
  /\ waited' = [k \in Keys |-> 0] /\ moved' = {}
  /\ UNCHANGED <<world, queue, alarm, replica>>

(* Mutation: a record is given up once its alert has been sent. *)
GivesUpAfterAlert(rec) == rec.attempts >= AlertAfter

GivesUp(rec) == FALSE

(* attempts above AlertAfter are not told apart. *)
Attempts(n) == IF n > AlertAfter THEN AlertAfter + 1 ELSE n

Done(rec) == [drain EXCEPT !.pc = "drain", !.todo = @ \ {rec}, !.rec = None, !.body = None]

(* The record as it was listed is put back, with one attempt more. *)
Failed(rec) ==
  /\ queue' = IF GivesUp(rec) THEN queue
              ELSE [queue EXCEPT ![rec.key] = Attempts(rec.attempts + 1)]
  /\ drain' = [Done(rec) EXCEPT !.left = @ \/ ~ GivesUp(rec)]

(* Mutation: the answer of R2 is taken for an object. *)
HasBodyAlways(k) == TRUE

HasBody(k) == k \in Inline \/ source[k] # None

Read(rec, ok) ==
  /\ At("drain") /\ rec \in drain.todo
  /\ IF ok THEN UNCHANGED faults ELSE Fault /\ HasBody(rec.key)
  /\ IF ok /\ HasBody(rec.key) /\ ~ GivesUp(rec)
     THEN /\ drain' = [drain EXCEPT !.pc = "push", !.rec = rec,
                         !.body = IF rec.key \in Inline THEN uses[rec.key] ELSE source[rec.key]]
          /\ UNCHANGED queue
     ELSE Failed(rec)
  /\ UNCHANGED <<world, alarm, replica, waited, moved>>

Copy == replica' = replica \cup {[key |-> drain.rec.key, content |-> drain.body]}

(* Mutation: an answer that is not a success counts as one. *)
RefusedIgnored(rec) == queue' = [queue EXCEPT ![rec.key] = None] /\ drain' = Done(rec)

Refused(rec) == Failed(rec)

(* The record is deleted by its name. *)
Push ==
  /\ At("push") /\ Copy
  /\ queue' = [queue EXCEPT ![drain.rec.key] = None]
  /\ drain' = Done(drain.rec)
  /\ UNCHANGED <<world, alarm, faults, waited, moved>>

PushFails(landed) ==
  /\ At("push") /\ Fault
  /\ IF landed THEN Copy ELSE UNCHANGED replica
  /\ Refused(drain.rec)
  /\ UNCHANGED <<world, alarm, waited, moved>>

(* others: an outcome of the writer is still pending. *)
Rearm(others) ==
  /\ At("drain") /\ drain.todo = {}
  /\ IF others THEN Fault ELSE UNCHANGED faults
  /\ alarm' = IF drain.left \/ others THEN Retry ELSE alarm
  /\ moved' = IF others /\ ~ drain.left THEN moved \cup Queued ELSE moved
  /\ drain' = Idle
  /\ UNCHANGED <<world, queue, replica, waited>>
-----------------------------------------------------------------------------
(* An interrupted handler is run again, at once or at an alarm set since. *)
Crash ==
  /\ Fault /\ owed' = {} /\ drain' = Idle
  /\ IF At("idle") THEN UNCHANGED <<alarm, moved>>
     ELSE alarm' \in {0, alarm} \ {None} /\ moved' = moved \cup Queued
  /\ UNCHANGED <<uses, source, late, queue, replica, accepted, waited>>

(* An alarm fires when it is due, and a handler ends in DrainMax. *)
Tick ==
  /\ IF At("idle") THEN alarm # 0 ELSE drain.age < DrainMax
  /\ alarm # None \/ ~ At("idle")
  /\ alarm' = IF alarm \in {None, 0} THEN alarm ELSE alarm - 1
  /\ drain' = IF At("idle") THEN drain ELSE [drain EXCEPT !.age = @ + 1]
  /\ waited' = [k \in Keys |-> IF k \in Queued /\ waited[k] <= WaitMax THEN waited[k] + 1 ELSE waited[k]]
  /\ UNCHANGED <<world, queue, replica, faults, moved>>

Handler ==
  \/ AlarmFires \/ PutEvents({}) \/ List(TRUE)
  \/ \E rec \in drain.todo : Read(rec, TRUE)
  \/ Push \/ Rearm(FALSE)

Failure ==
  \/ OutcomeLate \/ List(FALSE) \/ Rearm(TRUE) \/ Crash
  \/ \E k \in Keys : StoreLate(k)
  \/ \E kept \in SUBSET late \ {{}} : PutEvents(kept)
  \/ \E rec \in drain.todo : Read(rec, FALSE)
  \/ \E landed \in BOOLEAN : PushFails(landed)

Next ==
  \/ Handler \/ Failure \/ Tick \/ Enqueue
  \/ \E k \in Keys : Store(k) \/ Purge(k)

(* Time passes, alarms fire, and R2 and B2 answer in the end. *)
Fairness == WF_vars(Handler) /\ WF_vars(Tick)

Spec == Init /\ [][Next]_vars /\ Fairness
-----------------------------------------------------------------------------
Copies == [key : Keys, content : 1 .. MaxUses]
Records == [key : Keys, attempts : 0 .. AlertAfter + 1]

TypeOK ==
  /\ uses \in [Keys -> 0 .. MaxUses]
  /\ source \in [Keys -> 1 .. MaxUses \cup {None}]
  /\ late \subseteq Copies /\ owed \subseteq Keys
  /\ queue \in [Keys -> 0 .. AlertAfter + 1 \cup {None}]
  /\ alarm \in 0 .. Retry \cup {None}
  /\ drain \in [pc : {"idle", "events", "list", "drain", "push"}, todo : SUBSET Records,
                rec : Records \cup {None}, body : 1 .. MaxUses \cup {None},
                left : BOOLEAN, age : 0 .. DrainMax]
  /\ replica \subseteq Copies /\ accepted \subseteq Copies
  /\ faults \in 0 .. MaxFaults /\ moved \subseteq Keys
  /\ waited \in [Keys -> 0 .. WaitMax + 1]

(* "Her ACCEPTED immutable obje ... PUSH edilir" (escrow.ts:2): what was
   queued is copied to B2 or still queued, crashes, lost answers and late
   events included, as long as its name is used once.  A name that a deleted
   project leaves to its successor is used again, and the drain that pushes
   the old object then deletes the record of the new one (escrow.ts:255). *)
NameUsedOnceIsKept ==
  \A a \in accepted : uses[a.key] = 1 => a \in replica \/ a.key \in Queued

(* Nothing that is queued waits for an alarm that nobody has set, whatever
   was queued while the handler ran (escrow.ts:215, writer-do.ts:517). *)
AlarmWhileRecords ==
  Queued # {} => alarm # None \/ ~ At("idle")

(* "Never move an earlier one later, or a steady stream of enqueues would
   postpone the drain forever" (escrow.ts:213): a record is tried at the
   latest Retry after it was queued or last tried, and the time two handlers
   take - unless a crash interrupts one, or an outcome or event that failed has
   moved the alarm, which enqueuePendingOutcome does unconditionally
   (writer-do.ts:461). *)
TriedInTime ==
  \A k \in Queued \ moved : waited[k] <= WaitMax

(* With finitely many failures the queue drains, but for the records of
   objects that left R2 before they were copied: these are tried for ever. *)
Settles == <>[](\A k \in Queued : ~ HasBody(k))
=============================================================================
