-------------------------- MODULE SchedulerProofs ---------------------------
(* What the scheduler's tasks keep, for every instance: the collector takes
   nothing that is kept from both stores, the nightly run forgets no state
   it read, and the one alarm is set for the first due time. *)
EXTENDS Scheduler, TLAPS

GCType ==
  [pc : {"idle", "pointer", "manifest", "list", "check", "delete", "row", "done"},
   dry : BOOLEAN, from : 0 .. MaxEpoch, to : 0 .. MaxEpoch, refs : SUBSET Blobs,
   todo : SUBSET Blobs, doomed : SUBSET Blobs, blob : Blobs \cup {None}]

WrType ==
  [pc : {"idle", "blob", "manifest", "pointer"}, epoch : 0 .. MaxEpoch, refs : SUBSET Blobs,
   blob : Blobs \cup {None}, age : 0 .. TaskMax]

ProjectTypes ==
  /\ epoch \in 0 .. MaxEpoch /\ manifests \in [1 .. MaxEpoch -> (SUBSET Blobs) \cup {None}]
  /\ blobs \in [Blobs -> AgeType] /\ wr \in WrType
  /\ used \subseteq Blobs /\ pushes \subseteq used /\ replica \subseteq pushes /\ taken \subseteq used
  /\ ppc \in {"idle", "list", "delete"}
  /\ page \in [blobs : SUBSET used, current : BOOLEAN, epochs : SUBSET (1 .. MaxEpoch)]
  /\ \A b \in Blobs : blobs[b] # None => b \in used

TaskTypes ==
  /\ gc \in GCType
  /\ fire \in [pc : {"idle"} \cup Kinds, age : 0 .. TaskMax]
  /\ ~ GCAt("idle") => ~ FireAt("idle")
  /\ GCAt("manifest") => gc.from \in 1 .. gc.to

AtMost(b, age) == blobs[b] = None \/ blobs[b] <= age

Held(b) == blobs[b] # None \/ b \in replica \/ b \in taken

(* A commit knows what the current manifest kept and what is as young as
   itself - unless the pointer was deleted, and it has lost - and its blob is
   stored before its manifest.  Should a DELETE have removed the manifest and
   not the pointer, what it kept is hardly older. *)
Commits ==
  ~ WriterAt("idle") =>
    /\ epoch \in {0, wr.epoch} /\ wr.epoch < MaxEpoch /\ wr.refs \subseteq used /\ wr.blob \in used \cup {None}
    /\ wr.epoch = 0 => wr.refs \subseteq {wr.blob}
    /\ wr.blob # None => AtMost(wr.blob, wr.age)
    /\ WriterAt("blob") => wr.blob # None
    /\ WriterAt("pointer") => Refs(wr.epoch + 1) \subseteq wr.refs
    /\ \A b \in wr.refs : Held(b) \/ (WriterAt("blob") /\ b = wr.blob)
    /\ epoch = wr.epoch => \A b \in wr.refs : b \in Current \/ AtMost(b, TaskMax + wr.age)

(* What a manifest of the window refers to, or the one about to be written. *)
Live(b) ==
  \/ \E e \in Window(epoch) : b \in Refs(e)
  \/ ~ WriterAt("idle") /\ wr.epoch = epoch /\ b \in wr.refs

(* A DELETE comes to the manifests when there is no pointer: one that moves
   before it removes them is a first commit's, whose blob is young. *)
Paged ==
  ppc = "delete" /\ ~ page.current /\ page.epochs # {} =>
    \A b \in Blobs : Live(b) => AtMost(b, TaskMax)

(* Only a run that has listed the blobs has any to judge; none of them is
   referred to, and B2 has those that will go. *)
Judging ==
  /\ ~ (gc.pc \in {"check", "delete", "row"}) => gc.todo = {} /\ gc.doomed = {}
  /\ gc.todo \cup gc.doomed \subseteq used
  /\ gc.doomed \subseteq replica
  /\ \A b \in gc.todo \cup gc.doomed : ~ Live(b)

(* What is old enough to go and referred to now, the collector has seen in a
   manifest, or will see. *)
Seen(b) == b \in gc.refs \/ (GCAt("manifest") /\ \E f \in gc.from .. gc.to : b \in Refs(f))

OldIsSeen ==
  gc.pc \in {"manifest", "list"} =>
    \A b \in Blobs : Live(b) /\ blobs[b] # None /\ Expired(b, fire.age) => Seen(b)

(* An object with an alarm, or at work, knows what for. *)
KnowsKind == alarm # None \/ ~ FireAt("idle") => pending \in Kinds

(* The alarm is set for the first due time ahead. *)
First ==
  /\ Due(pending, clock + alarm)
  /\ \A ahead \in 1 .. Week : ahead < alarm => \A kind \in Kinds : ~ Due(kind, clock + ahead)

ArmedInv ==
  /\ clock \in 0 .. Week - 1 /\ alarm \in 0 .. Week \cup {None}
  /\ alarm \notin {None, 0} => First
  /\ pending # None /\ ~ dormant /\ FireAt("idle") => alarm # None

(* The collector's places, and what it tells of its deletions. *)
RunTypes ==
  /\ ~ GCAt("manifest") => gc.from = 0
  /\ GCAt("row") => gc.blob \in gone
  /\ gone \subseteq Blobs /\ rows \subseteq gone /\ alerts \subseteq Blobs

(* One task runs at a time, and only for an alarm. *)
OneTask ==
  /\ ~ GCAt("idle") => FireAt("weekly")
  /\ ~ RepAt("idle") => FireAt("nightly")
  /\ GCAt("idle") /\ RepAt("idle") => FireAt("idle")

(* The flags and the stored kind. *)
Switches ==
  /\ enabled \in 0 .. DryRun \cup {None} /\ on \in BOOLEAN /\ pending \in Kinds \cup {None}

CollectorInv ==
  /\ ProjectTypes /\ TaskTypes /\ Commits /\ Paged /\ Judging /\ OldIsSeen /\ NothingKeptIsLost

RepType ==
  [pc : {"idle", "anchor", "list", "get", "head", "snapshot", "event", "done"},
   todo : SUBSET States, obj : States \cup {NoState}, body : Contents \cup {NoState}]

(* What was read is a snapshot, has an alert, or is in hand. *)
ReplicationInv ==
  /\ rep \in RepType
  /\ rep.pc \in {"anchor", "list"} => read = {}
  /\ \A c \in read : \/ c \in snapshots \/ c.state \in alarmed
                     \/ rep.pc \in {"head", "snapshot"} /\ c = Copy
-----------------------------------------------------------------------------
(* The runner at rest is typed. *)
LEMMA RepIdleType == RepIdle \in RepType /\ RepIdle.pc = "idle"
BY DEF RepIdle, RepType

(* The runner turns to the next state. *)
LEMMA NextStateDoes ==
  ASSUME rep \in RepType, NextState PROVE rep' \in RepType /\ rep'.pc = "get"
<1> DEFINE q1 == [rep EXCEPT !.pc = "get"]
           q2 == [q1 EXCEPT !.obj = NoState]
<1>1. rep' = [q2 EXCEPT !.body = NoState] BY DEF NextState
<1>2. q1 \in RepType /\ q1.pc = "get" BY DEF RepType
<1> HIDE DEF q1
<1>3. q2 \in RepType /\ q2.pc = "get" BY <1>2 DEF RepType
<1> HIDE DEF q2
<1> QED BY <1>1, <1>3 DEF RepType

(* A step of the copies keeps account of what was read. *)
LEMMA RepStepKeeps == ASSUME ReplicationInv, RepStep PROVE ReplicationInv'
<1> USE DEF ReplicationInv, RepAt
<1>1. CASE Anchor
  <2>1. rep' \in RepType /\ rep'.pc = "list" BY <1>1 DEF Anchor, RepType
  <2> QED BY <1>1, <2>1 DEF Anchor
<1>2. CASE HeadSnapshot
  <2>1. CASE Have BY <1>2, <2>1, NextStateDoes DEF HeadSnapshot, Have
  <2>2. CASE ~ Have
    <3>1. rep' \in RepType /\ rep'.pc = "snapshot" /\ rep'.obj = rep.obj /\ rep'.body = rep.body
      BY <1>2, <2>2 DEF HeadSnapshot, RepType
    <3> QED BY <1>2, <2>2, <3>1 DEF HeadSnapshot, Copy
  <2> QED BY <2>1, <2>2
<1>3. CASE PutSnapshot
  <2>1. rep' \in RepType /\ rep'.pc = "event" BY <1>3 DEF PutSnapshot, RepType
  <2> QED BY <1>3, <2>1 DEF PutSnapshot
<1>4. CASE PutSnapshotEvent BY <1>4, NextStateDoes DEF PutSnapshotEvent
<1>5. CASE RepEnds
  <2>1. rep' \in RepType /\ rep'.pc = "done" BY <1>5, RepIdleType DEF RepEnds, RepType
  <2> QED BY <1>5, <2>1 DEF RepEnds
<1>6. ASSUME NEW found \in SUBSET States, ListStates(found) PROVE ReplicationInv'
  <2> DEFINE q1 == [rep EXCEPT !.pc = "get"]
  <2>1. rep' = [q1 EXCEPT !.todo = found] BY <1>6 DEF ListStates
  <2>2. q1 \in RepType /\ q1.pc = "get" BY DEF RepType
  <2> HIDE DEF q1
  <2>3. rep' \in RepType /\ rep'.pc = "get" BY <2>1, <2>2 DEF RepType
  <2> QED BY <1>6, <2>3 DEF ListStates
<1>7. ASSUME NEW s \in rep.todo, NEW content \in Contents \cup {NoState}, GetState(s, content)
      PROVE ReplicationInv'
  <2>0. rep.todo \ {s} \in SUBSET States /\ s \in States BY DEF RepType
  <2>1. CASE content = NoState BY <1>7, <2>0, <2>1 DEF GetState, RepType
  <2>2. CASE content # NoState
    <3> DEFINE q1 == [rep EXCEPT !.pc = "head"]
               q2 == [q1 EXCEPT !.todo = rep.todo \ {s}]
               q3 == [q2 EXCEPT !.obj = s]
    <3>1. rep' = [q3 EXCEPT !.body = content] /\ read' = read \cup {[state |-> s, content |-> content]}
          /\ UNCHANGED <<snapshots, alarmed>> /\ rep.pc = "get"
      BY <1>7, <2>2 DEF GetState
    <3>2. q1 \in RepType /\ q1.pc = "head" BY DEF RepType
    <3> HIDE DEF q1
    <3>3. q2 \in RepType /\ q2.pc = "head" BY <3>2, <2>0 DEF RepType
    <3> HIDE DEF q2
    <3>4. q3 \in RepType /\ q3.pc = "head" /\ q3.obj = s BY <3>3, <2>0 DEF RepType
    <3> HIDE DEF q3
    <3>5. rep' \in RepType /\ rep'.pc = "head" /\ rep'.obj = s /\ rep'.body = content
      BY <3>1, <3>4 DEF RepType
    <3>6. Copy' = [state |-> s, content |-> content] BY <3>5 DEF Copy
    <3> QED BY <3>1, <3>5, <3>6
  <2> QED BY <2>1, <2>2
<1> QED BY <1>1, <1>2, <1>3, <1>4, <1>5, <1>6, <1>7 DEF RepStep

(* So does a failed call: the state it was about has an alert. *)
LEMMA RepFailureKeeps ==
  ASSUME ReplicationInv,
         \/ RepListFails
         \/ \E s \in rep.todo : RepGetFails(s)
         \/ \E landed \in BOOLEAN : RepFault(landed)
  PROVE  ReplicationInv'
<1> USE DEF ReplicationInv, RepAt
<1>1. CASE RepListFails
  <2>1. rep' \in RepType /\ rep'.pc = "done" BY <1>1, RepIdleType DEF RepListFails, RepType
  <2> QED BY <1>1, <2>1 DEF RepListFails
<1>2. ASSUME NEW s \in rep.todo, RepGetFails(s) PROVE ReplicationInv'
  <2>0. rep.todo \ {s} \in SUBSET States BY DEF RepType
  <2>1. rep' \in RepType /\ rep'.pc = "get" BY <1>2, <2>0 DEF RepGetFails, RepType
  <2> QED BY <1>2, <2>1 DEF RepGetFails
<1>3. ASSUME NEW landed \in BOOLEAN, RepFault(landed) PROVE ReplicationInv'
  <2>1. rep' \in RepType /\ rep'.pc = "get" BY <1>3, NextStateDoes DEF RepFault
  <2>2. snapshots \subseteq snapshots' /\ alarmed' = alarmed \cup {rep.obj} /\ read' = read
    BY <1>3 DEF RepFault
  <2>3. Copy.state = rep.obj BY DEF Copy
  <2> QED BY <2>1, <2>2, <2>3
<1> QED BY <1>1, <1>2, <1>3

(* A run that starts has read nothing, and so has an object with no run. *)
LEMMA RepNone ==
  ASSUME rep' = RepIdle \/ rep' = [RepIdle EXCEPT !.pc = "anchor"], read' = {}
  PROVE  ReplicationInv'
<1>1. rep' \in RepType /\ rep'.pc \in {"idle", "anchor"} BY RepIdleType DEF RepType
<1> QED BY <1>1 DEF ReplicationInv, RepType

(* Only the runner moves what it has read. *)
LEMMA ReplicationStep == ReplicationInv /\ [Next]_vars => ReplicationInv'
<1> SUFFICES ASSUME ReplicationInv, [Next]_vars PROVE ReplicationInv' OBVIOUS
<1>0. CASE UNCHANGED repVars BY <1>0 DEF ReplicationInv, repVars, Copy
<1>1. CASE UNCHANGED vars BY <1>1, <1>0 DEF vars
<1>2. CASE TaskStep BY <1>2, <1>0, RepStepKeeps DEF TaskStep
<1>3. CASE Failure BY <1>3, <1>0, RepFailureKeeps DEF Failure
<1>4. CASE AlarmFires BY <1>4, <1>0, RepNone DEF AlarmFires, RepStarts
<1>5. CASE Rearm BY <1>5, RepNone DEF Rearm
<1>6. ASSUME NEW deploy \in BOOLEAN, Crash(deploy) PROVE ReplicationInv' BY <1>6, RepNone DEF Crash
<1>7. CASE Arm \/ AlarmOff \/ Tick \/ Project BY <1>7, <1>0 DEF Arm, AlarmOff, Tick, Project, repVars
<1> QED BY <1>1, <1>2, <1>3, <1>4, <1>5, <1>6, <1>7 DEF Next

(* What a finished run read is in B2 or has an alert. *)
THEOREM SpecReplicatedOrAlerted == Spec => []ReplicatedOrAlerted
<1>1. Init => ReplicationInv
  BY RepIdleType DEF Init, RepInit, ReplicationInv
<1>2. ReplicationInv => ReplicatedOrAlerted BY DEF ReplicationInv, ReplicatedOrAlerted, RepAt
<1> QED BY <1>1, <1>2, ReplicationStep, PTL DEF Spec
-----------------------------------------------------------------------------
(* What the proofs use of the constants. *)
LEMMA Constants ==
  /\ LastEpochs \in Nat \ {0} /\ Retention \in Nat /\ TaskMax \in Nat /\ 2 * TaskMax <= Retention
  /\ MaxEpoch \in Nat /\ None \notin Nat /\ None \notin Blobs /\ (\A s \in SUBSET Blobs : None # s)
  /\ OldestAge \in Nat /\ OldestAge = Retention + TaskMax + 1
BY CollectorAssumption DEF OldestAge

(* The window ends at the pointer, and moves with it. *)
LEMMA WindowEnds ==
  ASSUME NEW n \in Nat
  PROVE  /\ Window(n) \subseteq 1 .. n
         /\ n # 0 => n \in Window(n)
         /\ Window(n + 1) \subseteq Window(n) \cup {n + 1}
BY Constants DEF Window, Greater

(* Manifests refer to blobs. *)
LEMMA RefsAreBlobs ==
  ASSUME ProjectTypes
  PROVE  /\ \A e \in 1 .. MaxEpoch : Refs(e) \subseteq Blobs
         /\ Window(epoch) \subseteq 1 .. MaxEpoch /\ epoch \in Nat
<1>1. epoch \in Nat /\ epoch <= MaxEpoch BY Constants DEF ProjectTypes
<1>2. Window(epoch) \subseteq 1 .. epoch BY <1>1, WindowEnds
<1>3. ASSUME NEW e \in 1 .. MaxEpoch PROVE Refs(e) \subseteq Blobs
  <2>1. manifests[e] \in SUBSET Blobs \/ manifests[e] = None BY DEF ProjectTypes
  <2> QED BY <2>1 DEF Refs
<1> QED BY <1>1, <1>2, <1>3, Constants

(* What is as young as a commit and its predecessor is not old enough to go. *)
LEMMA YoungStays ==
  ASSUME ProjectTypes, TaskTypes, NEW b \in Blobs, NEW n \in 0 .. TaskMax, AtMost(b, TaskMax + n)
  PROVE  ~ (blobs[b] # None /\ Expired(b, fire.age))
<1>1. fire.age \in Nat /\ (blobs[b] = None \/ blobs[b] \in Nat)
  BY Constants DEF ProjectTypes, TaskTypes, AgeType
<1> QED BY <1>1, Constants DEF AtMost, Expired

(* A commit's record, with one field replaced. *)
LEMMA WrFields ==
  /\ WriterIdle \in WrType /\ WriterIdle.pc = "idle"
  /\ \A w \in WrType, p \in {"idle", "blob", "manifest", "pointer"} :
       /\ [w EXCEPT !.pc = p] \in WrType /\ [w EXCEPT !.pc = p].pc = p
       /\ [w EXCEPT !.pc = p].epoch = w.epoch /\ [w EXCEPT !.pc = p].refs = w.refs
       /\ [w EXCEPT !.pc = p].blob = w.blob /\ [w EXCEPT !.pc = p].age = w.age
BY Constants DEF WrType, WriterIdle

(* The collector, as long as it does nothing itself, keeps what it knows if
   nothing becomes live or old. *)
LEMMA Unseen ==
  ASSUME CollectorInv, UNCHANGED <<gc, fire>>, used \subseteq used', replica \subseteq replica',
         \A b \in Blobs : Live(b)' => Live(b) \/ b \notin used,
         \A b \in Blobs : Live(b)' /\ blobs'[b] # None /\ Expired(b, fire.age)' =>
                            Live(b) /\ blobs[b] # None /\ Expired(b, fire.age) /\ (Seen(b) => Seen(b)')
  PROVE  TaskTypes' /\ Judging' /\ OldIsSeen'
<1> USE DEF CollectorInv
<1>1. TaskTypes' BY DEF TaskTypes, GCAt, FireAt
<1>2. Judging'
  <2>1. gc.todo \cup gc.doomed \subseteq Blobs BY DEF TaskTypes, GCType
  <2> QED BY <2>1 DEF Judging
<1>3. OldIsSeen' BY DEF OldIsSeen
<1> QED BY <1>1, <1>2, <1>3

(* A commit begins: what it keeps is current, and what it adds is new. *)
LEMMA BeginCommitKeeps ==
  ASSUME CollectorInv, NEW kept \in SUBSET Current, NEW b \in Blobs \cup {None}, BeginCommit(kept, b),
         UNCHANGED fire
  PROVE  CollectorInv'
<1> USE DEF CollectorInv
<1>0. /\ wr.pc = "idle" /\ epoch < MaxEpoch /\ (epoch = 0 => b # None) /\ b \notin used
      /\ wr' = [pc |-> IF b = None THEN "manifest" ELSE "blob", epoch |-> epoch,
                 refs |-> kept \cup ({b} \ {None}), blob |-> b, age |-> 0]
      /\ used' = used \cup ({b} \ {None})
      /\ UNCHANGED <<epoch, manifests, blobs, pushes, replica, ppc, page, taken, gc, fire>>
  BY DEF BeginCommit, WriterAt, r2, purge, run
<1>1. /\ epoch \in Nat /\ epoch \in 0 .. MaxEpoch /\ (epoch # 0 => epoch \in 1 .. MaxEpoch)
      /\ kept \subseteq Blobs /\ (epoch = 0 => kept = {})
  BY RefsAreBlobs, Constants DEF ProjectTypes, Current
<1>2. /\ wr'.pc = (IF b = None THEN "manifest" ELSE "blob") /\ wr'.epoch = epoch /\ wr'.blob = b
      /\ wr'.refs = kept \cup ({b} \ {None}) /\ wr'.age = 0 /\ wr' \in WrType
  BY <1>0, <1>1, Constants DEF WrType
<1>3. \A a \in kept : (\E e \in Window(epoch) : a \in Refs(e)) /\ Held(a) /\ a \in Blobs
  <2> SUFFICES ASSUME NEW a \in kept PROVE (\E e \in Window(epoch) : a \in Refs(e)) /\ Held(a)
    BY <1>1
  <2>1. epoch # 0 /\ a \in Refs(epoch) /\ epoch \in 1 .. MaxEpoch BY <1>1 DEF Current
  <2>2. epoch \in Window(epoch) BY <1>1, <2>1, WindowEnds
  <2> QED BY <2>1, <2>2 DEF NothingKeptIsLost, Held
<1>4. b # None => b \in Blobs /\ blobs[b] = None BY <1>0 DEF ProjectTypes
<1>5. ProjectTypes' BY <1>0, <1>2 DEF ProjectTypes
<1>6. \A a \in Blobs : Live(a)' => Live(a) \/ a = b
  BY <1>0, <1>2, <1>3 DEF Live, Window, Refs, WriterAt
<1>7. \A a : Seen(a)' <=> Seen(a) BY <1>0 DEF Seen, Refs, GCAt
<1>8. \A a \in Blobs : Expired(a, fire.age)' = Expired(a, fire.age) BY <1>0 DEF Expired
<1>9. TaskTypes' /\ Judging' /\ OldIsSeen'
  <2>1. \A a \in Blobs : Live(a)' => Live(a) \/ a \notin used BY <1>0, <1>6
  <2>2. \A a \in Blobs : Live(a)' /\ blobs'[a] # None => Live(a) BY <1>0, <1>4, <1>6, Constants
  <2>3. used \subseteq used' /\ replica \subseteq replica' /\ UNCHANGED <<gc, fire, blobs>> BY <1>0
  <2> QED BY <1>7, <1>8, <2>1, <2>2, <2>3, Unseen
<1>10. Commits'
  <2>2. wr'.refs \subseteq used' BY <1>0, <1>2, <1>3 DEF Held, ProjectTypes
  <2>3. \A a \in wr'.refs : Held(a)' \/ (wr'.pc = "blob" /\ a = wr'.blob)
    BY <1>0, <1>2, <1>3 DEF Held
  <2>4. \A a \in wr'.refs : a \in Current' \/ AtMost(a, TaskMax + wr.age)'
    BY <1>0, <1>2, <1>4 DEF Current, Refs, AtMost
  <2>5. wr'.blob # None => AtMost(wr.blob, wr.age)' BY <1>0, <1>2, <1>4 DEF AtMost
  <2>6. wr'.epoch = 0 => wr'.refs \subseteq {wr'.blob} BY <1>1, <1>2
  <2>7. wr'.blob \in used' \cup {None} BY <1>0, <1>2
  <2>8. wr'.pc # "pointer" /\ (wr'.pc = "blob" => wr'.blob # None) BY <1>2
  <2>9. epoch' \in {0, wr'.epoch} /\ wr'.epoch < MaxEpoch' BY <1>0, <1>2
  <2> QED BY <2>2, <2>3, <2>4, <2>5, <2>6, <2>7, <2>8, <2>9 DEF Commits, WriterAt
<1>11. Paged' BY <1>0, <1>4, <1>6, Constants DEF Paged, AtMost
<1>12. NothingKeptIsLost' BY <1>0 DEF NothingKeptIsLost, Refs
<1> QED BY <1>5, <1>9, <1>10, <1>11, <1>12

(* The commit stores its blob, and later its manifest. *)
LEMMA PutBlobKeeps == ASSUME CollectorInv, PutBlob, UNCHANGED fire PROVE CollectorInv'
<1> USE DEF CollectorInv
<1> DEFINE b == wr.blob
<1>0. /\ wr.pc = "blob" /\ wr' = [wr EXCEPT !.pc = "manifest"] /\ blobs' = [blobs EXCEPT ![b] = 0]
      /\ UNCHANGED <<epoch, manifests, used, pushes, replica, ppc, page, taken, gc, fire>>
  BY DEF PutBlob, WriterAt, purge, run
<1>1. /\ wr' \in WrType /\ wr'.pc = "manifest" /\ wr'.epoch = wr.epoch /\ wr'.refs = wr.refs
      /\ wr'.blob = b /\ wr'.age = wr.age
  BY <1>0, WrFields DEF ProjectTypes
<1>2. b \in Blobs /\ b \in used BY <1>0 DEF Commits, WriterAt, ProjectTypes, WrType
<1>3. 0 \in AgeType /\ 0 # None /\ blobs'[b] = 0 /\ \A a \in Blobs \ {b} : blobs'[a] = blobs[a]
  BY <1>0, <1>2, Constants DEF AgeType, ProjectTypes
<1>4. ProjectTypes' BY <1>0, <1>1, <1>2, <1>3 DEF ProjectTypes
<1>5. \A a \in Blobs : Live(a)' <=> Live(a) BY <1>0, <1>1 DEF Live, Window, Refs, WriterAt
<1>6. \A a : Seen(a)' <=> Seen(a) BY <1>0 DEF Seen, Refs, GCAt
<1>7. \A a \in Blobs : Expired(a, fire.age)' => a # b /\ Expired(a, fire.age)
  BY <1>0, <1>3, Constants DEF Expired, TaskTypes
<1>8. TaskTypes' /\ Judging' /\ OldIsSeen' BY <1>0, <1>3, <1>5, <1>6, <1>7, Unseen
<1>9. wr.age \in Nat /\ TaskMax \in Nat /\ wr.refs \subseteq Blobs BY Constants DEF ProjectTypes, WrType
<1>10. \A a \in Blobs, n \in Nat : (AtMost(a, n) => AtMost(a, n)') /\ (Held(a) => Held(a)')
  BY <1>0, <1>3 DEF AtMost, Held
<1>11. AtMost(b, wr.age)' /\ Held(b)' BY <1>1, <1>3, <1>9 DEF AtMost, Held
<1>12. Commits'
  <2>1. \A a \in wr.refs : Held(a)' BY <1>0, <1>9, <1>10, <1>11 DEF Commits, WriterAt
  <2>2. AtMost(b, wr.age)' BY <1>11
  <2>3. TaskMax + wr.age \in Nat BY <1>9
  <2>4. epoch = wr.epoch => \A a \in wr.refs : a \in Current' \/ AtMost(a, TaskMax + wr.age)'
    BY <1>0, <1>9, <1>10, <2>3 DEF Commits, WriterAt, Current, Refs
  <2> QED BY <1>0, <1>1, <2>1, <2>2, <2>4 DEF Commits, WriterAt, AtMost, Held, Current, Refs
<1>13. Paged' BY <1>0, <1>5, <1>9, <1>10 DEF Paged
<1>14. NothingKeptIsLost'
  <2>1. \A e \in 1 .. MaxEpoch : Refs(e) \subseteq Blobs /\ Refs(e)' = Refs(e) BY <1>0, RefsAreBlobs DEF Refs
  <2> QED BY <1>10, <2>1 DEF NothingKeptIsLost, Held
<1> QED BY <1>4, <1>8, <1>12, <1>13, <1>14

(* The manifest goes to the slot after the pointer's: nothing becomes live. *)
LEMMA PutManifestKeeps == ASSUME CollectorInv, PutManifest, UNCHANGED fire PROVE CollectorInv'
<1> USE DEF CollectorInv
<1> DEFINE f == wr.epoch + 1
<1>0. /\ wr.pc = "manifest" /\ wr' = [wr EXCEPT !.pc = "pointer"] /\ manifests[f] = None
      /\ manifests' = [manifests EXCEPT ![f] = wr.refs]
      /\ UNCHANGED <<epoch, blobs, used, pushes, replica, ppc, page, taken, gc, fire>>
  BY DEF PutManifest, WriterAt, purge, run
<1>1. /\ wr' \in WrType /\ wr'.pc = "pointer" /\ wr'.epoch = wr.epoch /\ wr'.refs = wr.refs
      /\ wr'.blob = wr.blob /\ wr'.age = wr.age
  BY <1>0, WrFields DEF ProjectTypes
<1>2. /\ wr.refs \subseteq Blobs /\ epoch \in {0, wr.epoch} /\ epoch \in Nat /\ wr.epoch \in Nat
      /\ f \in 1 .. MaxEpoch /\ f \notin Window(epoch) /\ f # epoch
  <2>1. wr.refs \subseteq Blobs /\ wr.epoch \in Nat /\ wr.epoch < MaxEpoch /\ epoch \in {0, wr.epoch}
    BY <1>0, Constants DEF Commits, WriterAt, ProjectTypes, WrType
  <2>2. Window(epoch) \subseteq 1 .. epoch BY <2>1, WindowEnds
  <2> QED BY <2>1, <2>2, Constants
<1>3. wr.refs # None BY <1>2, Constants
<1>4. /\ Refs(f)' = wr.refs /\ Refs(f) = {}
      /\ \A e \in 1 .. MaxEpoch : e # f => Refs(e)' = Refs(e)
  BY <1>0, <1>2, <1>3 DEF Refs, ProjectTypes
<1>5. ProjectTypes' BY <1>0, <1>1, <1>2 DEF ProjectTypes
<1>6. Window(epoch)' = Window(epoch) /\ Window(epoch) \subseteq 1 .. MaxEpoch
  BY <1>0, RefsAreBlobs DEF Window
<1>7. \A b \in Blobs : Live(b)' <=> Live(b) BY <1>0, <1>1, <1>2, <1>4, <1>6 DEF Live, WriterAt
<1>8. ASSUME NEW b, gc.pc \in {"manifest", "list"}, Seen(b) PROVE Seen(b)'
  <2>1. CASE b \in gc.refs BY <1>0, <2>1 DEF Seen
  <2>2. CASE GCAt("manifest") /\ \E e \in gc.from .. gc.to : b \in Refs(e)
    <3>1. PICK e \in gc.from .. gc.to : b \in Refs(e) BY <2>2
    <3>2. e \in 1 .. MaxEpoch BY <2>2, <3>1, Constants DEF TaskTypes, GCType
    <3>3. b \in Refs(e)' BY <1>4, <3>1, <3>2
    <3> QED BY <1>0, <2>2, <3>1, <3>3 DEF Seen, GCAt
  <2> QED BY <1>8, <2>1, <2>2 DEF Seen
<1>9. \A b \in Blobs : Expired(b, fire.age)' = Expired(b, fire.age) BY <1>0 DEF Expired
<1>10. TaskTypes' /\ Judging' /\ OldIsSeen'
  <2>1. TaskTypes' BY <1>0 DEF TaskTypes, GCAt, FireAt
  <2>2. Judging'
    <3>1. gc.todo \cup gc.doomed \subseteq Blobs BY DEF TaskTypes, GCType
    <3> QED BY <1>0, <1>7, <3>1 DEF Judging
  <2>3. OldIsSeen' BY <1>0, <1>7, <1>8, <1>9 DEF OldIsSeen
  <2> QED BY <2>1, <2>2, <2>3
<1>11. Current' = Current BY <1>0, <1>2, <1>4 DEF Current, ProjectTypes
<1>12. \A b : (Held(b)' <=> Held(b)) /\ \A n : AtMost(b, n)' <=> AtMost(b, n) BY <1>0 DEF Held, AtMost
<1>13. Commits'
  <2>1. \A b \in wr.refs : Held(b)' BY <1>0, <1>12 DEF Commits, WriterAt
  <2> QED BY <1>0, <1>1, <1>4, <1>11, <1>12, <2>1 DEF Commits, WriterAt
<1>14. Paged' BY <1>0, <1>7, <1>12 DEF Paged
<1>15. NothingKeptIsLost'
  <2> SUFFICES ASSUME NEW e \in 1 .. MaxEpoch, NEW b \in Refs(e)' PROVE Held(b)'
    BY DEF NothingKeptIsLost, Held
  <2>1. CASE e = f BY <1>0, <1>4, <1>12, <2>1 DEF Commits, WriterAt
  <2>2. CASE e # f BY <1>4, <1>12, <2>2 DEF NothingKeptIsLost, Held
  <2> QED BY <2>1, <2>2
<1> QED BY <1>5, <1>10, <1>13, <1>14, <1>15

(* The pointer moves to a manifest that refers to nothing that was not live. *)
LEMMA MovePointerKeeps == ASSUME CollectorInv, MovePointer, UNCHANGED fire PROVE CollectorInv'
<1> USE DEF CollectorInv
<1>0. /\ wr.pc = "pointer" /\ epoch = wr.epoch /\ epoch' = wr.epoch + 1 /\ wr' = WriterIdle
      /\ pushes' = pushes \cup ({wr.blob} \ {None})
      /\ UNCHANGED <<manifests, blobs, used, replica, ppc, page, taken, gc, fire>>
  BY DEF MovePointer, WriterAt, purge, run
<1>1. /\ epoch \in Nat /\ epoch + 1 \in 0 .. MaxEpoch /\ epoch < MaxEpoch
      /\ Refs(epoch + 1) \subseteq wr.refs /\ wr.blob \in used \cup {None}
  BY <1>0, Constants DEF Commits, WriterAt, ProjectTypes
<1>2. ProjectTypes' BY <1>0, <1>1, WrFields DEF ProjectTypes
<1>3. \A b \in Blobs : Live(b)' => Live(b)
  <2>1. Window(epoch)' \subseteq Window(epoch) \cup {epoch + 1} BY <1>0, <1>1, WindowEnds DEF Window
  <2>2. \A e : Refs(e)' = Refs(e) BY <1>0 DEF Refs
  <2> QED BY <1>0, <1>1, <2>1, <2>2, WrFields DEF Live, WriterAt
<1>4. \A b : Seen(b)' <=> Seen(b) BY <1>0 DEF Seen, Refs, GCAt
<1>5. \A b \in Blobs : Expired(b, fire.age)' = Expired(b, fire.age) BY <1>0 DEF Expired
<1>6. TaskTypes' /\ Judging' /\ OldIsSeen' BY <1>0, <1>3, <1>4, <1>5, Unseen
<1>7. Commits' BY <1>0, WrFields DEF Commits, WriterAt
<1>8. Paged' BY <1>0, <1>3 DEF Paged, AtMost
<1>9. NothingKeptIsLost' BY <1>0 DEF NothingKeptIsLost, Refs
<1> QED BY <1>2, <1>6, <1>7, <1>8, <1>9

(* A commit that ends takes back what it was about to refer to; a blob that
   reaches B2 changes nothing the collector looked at. *)
LEMMA QuietKeeps ==
  ASSUME CollectorInv, CommitEnds \/ \E b \in Blobs : Escrow(b), UNCHANGED fire
  PROVE  CollectorInv'
<1> USE DEF CollectorInv
<1>0. /\ UNCHANGED <<epoch, manifests, blobs, used, pushes, ppc, page, taken, gc, fire>>
      /\ wr' \in {wr, WriterIdle} /\ replica \subseteq replica' /\ replica' \subseteq pushes
  BY DEF CommitEnds, Escrow, ProjectTypes, r2, purge, run
<1>1. ProjectTypes' BY <1>0, WrFields DEF ProjectTypes
<1>2. \A b \in Blobs : Live(b)' => Live(b) BY <1>0, WrFields DEF Live, Window, Refs, WriterAt
<1>3. \A b : Seen(b)' <=> Seen(b) BY <1>0 DEF Seen, Refs, GCAt
<1>4. \A b \in Blobs : Expired(b, fire.age)' = Expired(b, fire.age) BY <1>0 DEF Expired
<1>5. TaskTypes' /\ Judging' /\ OldIsSeen' BY <1>0, <1>2, <1>3, <1>4, Unseen
<1>6. Commits'
  <2>1. CASE wr' = WriterIdle BY <2>1, WrFields DEF Commits, WriterAt
  <2>2. CASE wr' = wr BY <1>0, <2>2 DEF Commits, WriterAt, AtMost, Held, Refs, Current
  <2> QED BY <1>0, <2>1, <2>2
<1>7. Paged' BY <1>0, <1>2 DEF Paged, AtMost
<1>8. NothingKeptIsLost' BY <1>0 DEF NothingKeptIsLost, Refs
<1> QED BY <1>1, <1>5, <1>6, <1>7, <1>8

(* A DELETE that begins or ends moves nothing. *)
LEMMA PurgeTurns ==
  ASSUME CollectorInv, PurgeBegins \/ PurgeEnds, UNCHANGED fire
  PROVE  CollectorInv'
<1> USE DEF CollectorInv
<1>0. /\ UNCHANGED <<epoch, manifests, blobs, used, wr, pushes, replica, taken, gc, fire>>
      /\ ppc' \in {"idle", "list"} /\ page' \in {page, NoPage}
  BY DEF PurgeBegins, PurgeEnds, r2, run
<1>1. ProjectTypes'
  <2>1. NoPage \in [blobs : SUBSET used, current : BOOLEAN, epochs : SUBSET (1 .. MaxEpoch)] BY DEF NoPage
  <2>2. page' \in [blobs : SUBSET used, current : BOOLEAN, epochs : SUBSET (1 .. MaxEpoch)]
    BY <1>0, <2>1 DEF ProjectTypes
  <2> QED BY <1>0, <2>2 DEF ProjectTypes
<1>2. \A b \in Blobs : Live(b)' => Live(b) BY <1>0 DEF Live, Window, Refs, WriterAt
<1>3. \A b : Seen(b)' <=> Seen(b) BY <1>0 DEF Seen, Refs, GCAt
<1>4. \A b \in Blobs : Expired(b, fire.age)' = Expired(b, fire.age) BY <1>0 DEF Expired
<1>5. TaskTypes' /\ Judging' /\ OldIsSeen' BY <1>0, <1>2, <1>3, <1>4, Unseen
<1>6. Commits' BY <1>0 DEF Commits, WriterAt, AtMost, Held, Refs, Current
<1>7. Paged' BY <1>0 DEF Paged
<1>8. NothingKeptIsLost' BY <1>0 DEF NothingKeptIsLost, Refs
<1> QED BY <1>1, <1>5, <1>6, <1>7, <1>8

(* A page with manifests and no pointer is listed when there is no pointer. *)
LEMMA PurgeListsKeeps == ASSUME CollectorInv, PurgeLists, UNCHANGED fire PROVE CollectorInv'
<1> USE DEF CollectorInv
<1>0. /\ UNCHANGED <<epoch, manifests, blobs, used, wr, pushes, replica, taken, gc, fire>>
      /\ ppc' = "delete" /\ page' \in [blobs : SUBSET StoredBlobs, current : BOOLEAN, epochs : SUBSET StoredEpochs]
      /\ page'.epochs # {} => page'.current = (epoch # 0)
  BY DEF PurgeLists, r2, run, IsPage, Stored
<1>1. StoredBlobs \subseteq used /\ StoredEpochs \subseteq 1 .. MaxEpoch
  BY DEF ProjectTypes, StoredBlobs, StoredEpochs
<1>2. ProjectTypes' BY <1>0, <1>1 DEF ProjectTypes
<1>3. \A b \in Blobs : Live(b)' <=> Live(b) BY <1>0 DEF Live, Window, Refs, WriterAt
<1>4. \A b : Seen(b)' <=> Seen(b) BY <1>0 DEF Seen, Refs, GCAt
<1>5. \A b \in Blobs : Expired(b, fire.age)' = Expired(b, fire.age) BY <1>0 DEF Expired
<1>6. TaskTypes' /\ Judging' /\ OldIsSeen' BY <1>0, <1>3, <1>4, <1>5, Unseen
<1>7. Commits' BY <1>0 DEF Commits, WriterAt, AtMost, Held, Refs, Current
<1>8. Paged'
  <2> SUFFICES ASSUME epoch = 0, NEW b \in Blobs, Live(b) PROVE AtMost(b, TaskMax)
    BY <1>0, <1>3 DEF Paged, AtMost
  <2>1. Window(0) = {} BY WindowEnds
  <2>2. ~ WriterAt("idle") /\ wr.epoch = 0 /\ b \in wr.refs BY <2>1 DEF Live
  <2>3. b = wr.blob /\ AtMost(b, wr.age) BY <2>2, Constants DEF Commits
  <2>4. wr.age \in 0 .. TaskMax /\ blobs[b] \in AgeType BY DEF ProjectTypes, WrType
  <2> QED BY <2>3, <2>4, Constants DEF AtMost, AgeType
<1>9. NothingKeptIsLost' BY <1>0 DEF NothingKeptIsLost, Refs
<1> QED BY <1>2, <1>6, <1>7, <1>8, <1>9

(* A page goes: with the pointer nothing is live but a first commit's blob;
   without it, only what is young was. *)
LEMMA PurgeDeletesKeeps == ASSUME CollectorInv, PurgeDeletes, UNCHANGED fire PROVE CollectorInv'
<1> USE DEF CollectorInv
<1>0. /\ UNCHANGED <<used, wr, pushes, replica, gc, fire>> /\ ppc = "delete" /\ ppc' = "list" /\ page' = NoPage
      /\ blobs' = [b \in Blobs |-> IF b \in page.blobs THEN None ELSE blobs[b]]
      /\ manifests' = [e \in 1 .. MaxEpoch |-> IF e \in page.epochs THEN None ELSE manifests[e]]
      /\ epoch' = (IF page.current THEN 0 ELSE epoch) /\ taken' = taken \cup page.blobs
  BY DEF PurgeDeletes, run
<1>1. ProjectTypes'
  <2>1. manifests' \in [1 .. MaxEpoch -> (SUBSET Blobs) \cup {None}] BY <1>0 DEF ProjectTypes
  <2>2. blobs' \in [Blobs -> AgeType] BY <1>0 DEF ProjectTypes, AgeType
  <2>3. epoch' \in 0 .. MaxEpoch BY <1>0, Constants DEF ProjectTypes
  <2>4. page' \in [blobs : SUBSET used, current : BOOLEAN, epochs : SUBSET (1 .. MaxEpoch)]
    BY <1>0 DEF NoPage
  <2>5. taken' \subseteq used BY <1>0 DEF ProjectTypes
  <2> QED BY <1>0, <2>1, <2>2, <2>3, <2>4, <2>5 DEF ProjectTypes
<1>2. \A e \in 1 .. MaxEpoch : Refs(e)' \subseteq Refs(e) /\ (e \notin page.epochs => Refs(e)' = Refs(e))
  BY <1>0 DEF Refs
<1>3. /\ \A b \in Blobs : (blobs'[b] # None => blobs'[b] = blobs[b]) /\ (Held(b) => Held(b)')
      /\ \A b \in Blobs, n \in Nat : AtMost(b, n) => AtMost(b, n)'
  BY <1>0 DEF Held, AtMost
<1>4. Window(epoch) \subseteq 1 .. MaxEpoch /\ Window(0) = {} /\ epoch \in Nat BY RefsAreBlobs, WindowEnds
<1>5. epoch' = 0 \/ (epoch' = epoch /\ ~ page.current) BY <1>0
<1>6. ~ WriterAt("idle") /\ wr.epoch = 0 => epoch = 0 BY DEF Commits
<1>7. \A b \in Blobs : Live(b)' => Live(b)
  <2>1. CASE epoch' = 0
    <3>1. Window(epoch)' = {} BY <1>4, <2>1 DEF Window
    <3> QED BY <1>0, <1>6, <2>1, <3>1 DEF Live, WriterAt
  <2>2. CASE epoch' = epoch
    <3>1. Window(epoch)' = Window(epoch) BY <2>2 DEF Window
    <3> QED BY <1>0, <1>2, <1>4, <2>2, <3>1 DEF Live, WriterAt
  <2> QED BY <1>5, <2>1, <2>2
<1>8. wr.age \in 0 .. TaskMax /\ wr.refs \subseteq Blobs BY DEF ProjectTypes, WrType
<1>9. ASSUME NEW b \in Blobs, Live(b)', page.current \/ page.epochs # {} PROVE AtMost(b, TaskMax + wr.age)
  <2>1. blobs[b] = None \/ blobs[b] \in Nat BY Constants DEF ProjectTypes, AgeType
  <2>2. CASE page.current
    <3>1. Window(epoch)' = {} BY <1>0, <1>4, <2>2 DEF Window
    <3>2. ~ WriterAt("idle") /\ wr.epoch = 0 /\ b \in wr.refs BY <1>0, <1>9, <2>2, <3>1 DEF Live, WriterAt
    <3>3. b = wr.blob /\ AtMost(b, wr.age) BY <3>2, Constants DEF Commits
    <3> QED BY <1>8, <2>1, <3>3, Constants DEF AtMost
  <2>3. CASE ~ page.current
    <3>1. AtMost(b, TaskMax) BY <1>0, <1>7, <1>9, <2>3 DEF Paged
    <3> QED BY <1>8, <2>1, <3>1, Constants DEF AtMost
  <2> QED BY <2>2, <2>3
<1>10. ASSUME ~ page.current, page.epochs = {} PROVE epoch' = epoch /\ \A e \in 1 .. MaxEpoch : Refs(e)' = Refs(e)
  BY <1>0, <1>2, <1>10
<1>11. TaskTypes' /\ Judging' /\ OldIsSeen'
  <2>1. \A b \in Blobs : blobs'[b] # None /\ Expired(b, fire.age)' => blobs[b] # None /\ Expired(b, fire.age)
    BY <1>0, <1>3 DEF Expired
  <2>2. ASSUME NEW b \in Blobs, Live(b)', blobs'[b] # None, Expired(b, fire.age)'
        PROVE  Live(b) /\ blobs[b] # None /\ Expired(b, fire.age)
    BY <1>7, <2>1, <2>2
  <2>3. ASSUME NEW b \in Blobs, Live(b)', blobs'[b] # None, Expired(b, fire.age)', gc.pc \in {"manifest", "list"},
               Seen(b)
        PROVE  Seen(b)'
    <3>1. ~ page.current /\ page.epochs = {} BY <1>8, <1>9, <2>2, <2>3, YoungStays
    <3>2. GCAt("manifest") => \A e \in gc.from .. gc.to : e \in 1 .. MaxEpoch
      BY Constants DEF TaskTypes, GCType
    <3> QED BY <1>0, <1>10, <2>3, <3>1, <3>2 DEF Seen, GCAt
  <2>4. TaskTypes' BY <1>0 DEF TaskTypes, GCAt, FireAt
  <2>5. Judging'
    <3>1. gc.todo \cup gc.doomed \subseteq Blobs BY DEF TaskTypes, GCType
    <3> QED BY <1>0, <1>7, <3>1 DEF Judging
  <2>6. OldIsSeen' BY <1>0, <2>2, <2>3 DEF OldIsSeen
  <2> QED BY <2>4, <2>5, <2>6
<1>12. Commits'
  <2> SUFFICES ASSUME ~ WriterAt("idle") PROVE Commits' BY <1>0 DEF Commits, WriterAt
  <2>1. epoch' \in {0, wr.epoch} /\ wr.epoch + 1 \in 1 .. MaxEpoch /\ (wr.blob # None => wr.blob \in Blobs)
    BY <1>0, Constants DEF Commits, ProjectTypes, WrType
  <2>2. WriterAt("pointer") => Refs(wr.epoch + 1)' \subseteq wr.refs
    <3>1. Refs(wr.epoch + 1)' \subseteq Refs(wr.epoch + 1) BY <1>0, <2>1 DEF Refs
    <3> QED BY <3>1 DEF Commits
  <2>3. \A b \in wr.refs : Held(b)' \/ (WriterAt("blob") /\ b = wr.blob) BY <1>3, <1>8 DEF Commits
  <2>4. wr.blob # None => AtMost(wr.blob, wr.age)' BY <1>0, <2>1 DEF Commits, AtMost
  <2>5. ASSUME epoch' = wr.epoch, NEW b \in wr.refs PROVE b \in Current' \/ AtMost(b, TaskMax + wr.age)'
    <3>1. Live(b)' BY <1>0, <2>5 DEF Live, WriterAt
    <3>2. b \in Blobs /\ TaskMax + wr.age \in Nat BY <1>8, Constants
    <3>3. CASE page.current \/ page.epochs # {} BY <1>0, <1>9, <3>1, <3>2, <3>3 DEF AtMost
    <3>4. CASE ~ page.current /\ page.epochs = {}
      <4>1. epoch' = epoch /\ (epoch # 0 => epoch \in 1 .. MaxEpoch) BY <1>10, <3>4, Constants DEF ProjectTypes
      <4>2. Current' = Current BY <1>10, <3>4, <4>1 DEF Current
      <4>3. b \in Current \/ AtMost(b, TaskMax + wr.age) BY <2>5, <4>1 DEF Commits
      <4> QED BY <1>0, <3>2, <4>2, <4>3 DEF AtMost
    <3> QED BY <3>3, <3>4
  <2> QED BY <1>0, <2>1, <2>2, <2>3, <2>4, <2>5 DEF Commits, WriterAt
<1>13. Paged' BY <1>0 DEF Paged
<1>14. NothingKeptIsLost'
  <2>1. \A e \in 1 .. MaxEpoch : Refs(e) \subseteq Blobs BY RefsAreBlobs
  <2> QED BY <1>2, <1>3, <2>1 DEF NothingKeptIsLost, Held
<1> QED BY <1>1, <1>11, <1>12, <1>13, <1>14

(* Nothing the project does disturbs the invariant. *)
LEMMA ProjectKeeps ==
  ASSUME CollectorInv, ProjectStep \/ PurgeBegins, UNCHANGED fire
  PROVE  CollectorInv'
BY BeginCommitKeeps, PutBlobKeeps, PutManifestKeeps, MovePointerKeeps, QuietKeeps, PurgeTurns,
   PurgeListsKeeps, PurgeDeletesKeeps
DEF ProjectStep, Commit, Purge

(* Nor does it touch the collector. *)
LEMMA ProjectLeaves == ASSUME ProjectStep \/ PurgeBegins PROVE UNCHANGED <<gc, gone, rows, alerts, enabled>>
BY DEF ProjectStep, Commit, Purge, BeginCommit, PutBlob, PutManifest, MovePointer, CommitEnds, Escrow,
   PurgeBegins, PurgeLists, PurgeDeletes, PurgeEnds, run

(* Time passes: what is old now, as the run counts, was old before. *)
LEMMA TickKeeps == ASSUME CollectorInv, Tick PROVE CollectorInv'
<1> USE DEF CollectorInv
<1>0. /\ UNCHANGED <<epoch, manifests, used, pushes, replica, ppc, page, taken, gc>>
      /\ ppc # "delete" /\ (~ WriterAt("idle") => wr.age < TaskMax)
      /\ wr' = IF WriterAt("idle") THEN wr ELSE [wr EXCEPT !.age = @ + 1]
      /\ blobs' = [b \in Blobs |-> Older(blobs[b], OldestAge)]
      /\ fire' = IF FireAt("idle") THEN fire ELSE [fire EXCEPT !.age = @ + 1]
      /\ ~ FireAt("idle") => fire.age < TaskMax
  BY DEF Tick, Age, InTime, purge, run
<1>1. \A b \in Blobs : /\ blobs[b] = None <=> blobs'[b] = None
                       /\ blobs[b] # None => /\ blobs[b] \in 0 .. OldestAge /\ blobs'[b] \in 0 .. OldestAge
                                             /\ blobs'[b] <= blobs[b] + 1
  BY <1>0, Constants DEF ProjectTypes, AgeType, Older
<1>2. fire.age \in 0 .. TaskMax /\ fire.pc \in {"idle"} \cup Kinds BY DEF TaskTypes
<1>3. /\ fire' \in [pc : {"idle"} \cup Kinds, age : 0 .. TaskMax] /\ fire'.pc = fire.pc
      /\ fire.pc # "idle" => fire'.age = fire.age + 1
  BY <1>0, <1>2, Constants DEF FireAt, TaskTypes
<1>4. /\ wr' \in WrType /\ wr'.pc = wr.pc /\ wr'.epoch = wr.epoch /\ wr'.refs = wr.refs /\ wr'.blob = wr.blob
      /\ wr.age \in 0 .. TaskMax /\ (~ WriterAt("idle") => wr'.age = wr.age + 1)
  <2>1. wr \in WrType /\ wr.age \in 0 .. TaskMax BY DEF ProjectTypes, WrType
  <2>2. CASE WriterAt("idle") BY <1>0, <2>1, <2>2
  <2>3. CASE ~ WriterAt("idle")
    <3>1. wr' = [wr EXCEPT !.age = wr.age + 1] /\ wr.age + 1 \in 0 .. TaskMax BY <1>0, <2>1, <2>3, Constants
    <3> QED BY <2>1, <2>3, <3>1 DEF WrType
  <2> QED BY <2>2, <2>3
<1>5. ProjectTypes'
  <2>1. blobs' \in [Blobs -> AgeType] BY <1>0, <1>1 DEF AgeType
  <2> QED BY <1>0, <1>1, <1>4, <2>1 DEF ProjectTypes
<1>6. TaskTypes' BY <1>0, <1>3 DEF TaskTypes, GCAt, FireAt
<1>7. \A b \in Blobs : Live(b)' <=> Live(b) BY <1>0, <1>4 DEF Live, Window, Refs, WriterAt
<1>8. /\ \A b \in Blobs : Held(b)' <=> Held(b)
      /\ \A b \in Blobs, n \in Nat : AtMost(b, n) => AtMost(b, n + 1)'
  BY <1>0, <1>1, Constants DEF Held, AtMost
<1>9. Commits'
  <2> SUFFICES ASSUME ~ WriterAt("idle") PROVE Commits' BY <1>4 DEF Commits, WriterAt
  <2>0. wr.refs \subseteq Blobs /\ (wr.blob # None => wr.blob \in Blobs) BY DEF ProjectTypes, WrType
  <2>1. /\ wr.age \in Nat /\ TaskMax + wr.age \in Nat /\ (TaskMax + wr.age) + 1 = TaskMax + wr'.age
        /\ wr'.age = wr.age + 1 /\ wr.refs \subseteq Blobs /\ (wr.blob # None => wr.blob \in Blobs)
    BY <1>4, <2>0, Constants
  <2>2. wr.blob # None => AtMost(wr.blob, wr.age)'
    <3>1. wr.blob # None => blobs'[wr.blob] = None \/ blobs'[wr.blob] <= wr.age + 1
      BY <1>8, <2>1 DEF Commits, AtMost
    <3> QED BY <1>4, <2>1, <3>1 DEF AtMost
  <2>3. \A b \in wr.refs : Held(b)' \/ (WriterAt("blob") /\ b = wr.blob) BY <1>8, <2>1 DEF Commits
  <2>4. Current' = Current BY <1>0 DEF Current, Refs
  <2>5. epoch = wr.epoch => \A b \in wr.refs : b \in Current' \/ AtMost(b, TaskMax + wr.age)'
    <3>1. \A b \in wr.refs : AtMost(b, TaskMax + wr.age) =>
            blobs'[b] = None \/ blobs'[b] <= (TaskMax + wr.age) + 1
      BY <1>8, <2>1 DEF AtMost
    <3> QED BY <2>1, <2>4, <3>1 DEF Commits, AtMost
  <2>6. WriterAt("pointer") => Refs(wr.epoch + 1)' \subseteq wr.refs BY <1>0 DEF Commits, Refs
  <2> QED BY <1>0, <1>4, <2>2, <2>3, <2>5, <2>6 DEF Commits, WriterAt
<1>10. Paged' BY <1>0 DEF Paged
<1>11. Judging'
  <2>1. gc.todo \cup gc.doomed \subseteq Blobs BY DEF TaskTypes, GCType
  <2> QED BY <1>0, <1>7, <2>1 DEF Judging
<1>12. ASSUME gc.pc \in {"manifest", "list"}, NEW b \in Blobs, blobs'[b] # None, Expired(b, fire.age)'
      PROVE  blobs[b] # None /\ Expired(b, fire.age)
  <2>1. fire'.age = fire.age + 1 BY <1>3, <1>12 DEF TaskTypes, GCAt, FireAt
  <2> QED BY <1>1, <1>2, <1>12, <2>1, Constants DEF Expired
<1>13. OldIsSeen' BY <1>0, <1>7, <1>12 DEF OldIsSeen, Seen, Refs, GCAt
<1>14. NothingKeptIsLost'
  <2>1. \A e \in 1 .. MaxEpoch : Refs(e) \subseteq Blobs /\ Refs(e)' = Refs(e) BY <1>0, RefsAreBlobs DEF Refs
  <2> QED BY <1>8, <2>1 DEF NothingKeptIsLost, Held
<1> QED BY <1>5, <1>6, <1>9, <1>10, <1>11, <1>13, <1>14
-----------------------------------------------------------------------------
(* The collector's record, with one field after another replaced. *)
LEMMA GCFields ==
  ASSUME NEW g \in GCType
  PROVE  /\ \A p \in {"idle", "pointer", "manifest", "list", "check", "delete", "row", "done"} :
              [g EXCEPT !.pc = p] \in GCType
         /\ \A d \in BOOLEAN : [g EXCEPT !.dry = d] \in GCType
         /\ \A n \in 0 .. MaxEpoch : [g EXCEPT !.from = n] \in GCType /\ [g EXCEPT !.to = n] \in GCType
         /\ \A u \in SUBSET Blobs : /\ [g EXCEPT !.refs = u] \in GCType /\ [g EXCEPT !.todo = u] \in GCType
                                    /\ [g EXCEPT !.doomed = u] \in GCType
         /\ \A b \in Blobs \cup {None} : [g EXCEPT !.blob = b] \in GCType
BY DEF GCType

(* The collector at rest is typed. *)
LEMMA GCIdleType ==
  GCIdle \in GCType /\ GCIdle.pc = "idle" /\ GCIdle.todo = {} /\ GCIdle.doomed = {}
BY Constants DEF GCIdle, GCType

(* A collector with nothing to judge is as good as none. *)
LEMMA GCNone ==
  ASSUME CollectorInv, UNCHANGED project,
         gc' \in GCType, gc'.pc \in {"idle", "pointer", "done"}, gc'.todo = {}, gc'.doomed = {},
         fire' \in [pc : {"idle"} \cup Kinds, age : 0 .. TaskMax],
         gc'.pc = "idle" \/ fire'.pc # "idle"
  PROVE  CollectorInv'
<1> USE DEF CollectorInv
<1>0. UNCHANGED <<epoch, manifests, blobs, used, wr, pushes, replica, ppc, page, taken>> BY DEF project, r2, purge
<1>1. ProjectTypes' BY <1>0 DEF ProjectTypes
<1>2. TaskTypes' BY DEF TaskTypes, GCAt, FireAt
<1>3. Commits' BY <1>0 DEF Commits, WriterAt, Held, AtMost, Refs, Current
<1>4. Judging' BY DEF Judging
<1>5. OldIsSeen' BY DEF OldIsSeen
<1>6. Paged' BY <1>0 DEF Paged, AtMost, Live, Window, Refs, WriterAt
<1>7. NothingKeptIsLost' BY <1>0 DEF NothingKeptIsLost, Refs
<1> QED BY <1>1, <1>2, <1>3, <1>4, <1>5, <1>6, <1>7

(* A run that ends, or fails before it deletes, has nothing to judge. *)
LEMMA GCDoneKeeps ==
  ASSUME CollectorInv, ~ GCAt("idle"), UNCHANGED <<project, fire>>, gc' = [GCIdle EXCEPT !.pc = "done"]
  PROVE  CollectorInv'
<1>1. gc' \in GCType /\ gc'.pc = "done" /\ gc'.todo = {} /\ gc'.doomed = {}
  BY GCIdleType DEF GCType
<1>2. fire' \in [pc : {"idle"} \cup Kinds, age : 0 .. TaskMax] /\ fire'.pc # "idle"
  BY DEF CollectorInv, TaskTypes, FireAt
<1> QED BY <1>1, <1>2, GCNone

(* The window of the pointer is what the collector goes on to read. *)
LEMMA ReadPointerKeeps ==
  ASSUME CollectorInv, ReadPointer, UNCHANGED fire PROVE CollectorInv'
<1> USE DEF CollectorInv
<1>0. /\ GCAt("pointer") /\ gc \in GCType /\ UNCHANGED <<project, fire>>
      /\ UNCHANGED <<epoch, manifests, blobs, used, wr, pushes, replica, ppc, page, taken>>
      /\ epoch \in 0 .. MaxEpoch /\ gc.todo = {} /\ gc.doomed = {}
  BY DEF ReadPointer, project, r2, purge, TaskTypes, ProjectTypes, Judging, GCAt
<1>1. /\ gc' \in GCType /\ gc'.todo = {} /\ gc'.doomed = {} /\ gc'.refs = gc.refs
      /\ epoch = 0 => gc'.pc = "list"
      /\ epoch # 0 => /\ gc'.pc = "manifest" /\ gc'.from = ReadFrom(epoch) /\ gc'.to = epoch
                      /\ gc'.from .. gc'.to = Window(epoch) /\ gc'.from \in 1 .. gc'.to
  <2>1. CASE epoch = 0
    <3>1. gc' = [gc EXCEPT !.pc = "list"] BY <2>1 DEF ReadPointer
    <3> QED BY <1>0, <2>1, <3>1 DEF GCType
  <2>2. CASE epoch # 0
    <3> DEFINE g1 == [gc EXCEPT !.pc = "manifest"]
               g2 == [g1 EXCEPT !.from = ReadFrom(epoch)]
    <3>1. gc' = [g2 EXCEPT !.to = epoch] BY <2>2 DEF ReadPointer
    <3>2. ReadFrom(epoch) \in 1 .. epoch /\ ReadFrom(epoch) .. epoch = Window(epoch)
          /\ ReadFrom(epoch) \in 0 .. MaxEpoch
      BY <1>0, <2>2, Constants DEF ReadFrom, Window, Greater
    <3>3. g1 \in GCType /\ g1.todo = {} /\ g1.doomed = {} /\ g1.refs = gc.refs /\ g1.pc = "manifest"
      BY <1>0 DEF GCType
    <3> HIDE DEF g1
    <3>4. g2 \in GCType /\ g2.todo = {} /\ g2.doomed = {} /\ g2.refs = gc.refs /\ g2.pc = "manifest"
          /\ g2.from = ReadFrom(epoch)
      BY <3>2, <3>3 DEF GCType
    <3> HIDE DEF g2
    <3>5. gc' \in GCType /\ gc'.todo = {} /\ gc'.doomed = {} /\ gc'.refs = gc.refs /\ gc'.pc = "manifest"
          /\ gc'.from = ReadFrom(epoch) /\ gc'.to = epoch
      BY <1>0, <3>1, <3>4 DEF GCType
    <3> QED BY <2>2, <3>2, <3>5
  <2> QED BY <2>1, <2>2
<1>2. ProjectTypes' BY <1>0 DEF ProjectTypes
<1>3. TaskTypes' BY <1>0, <1>1 DEF TaskTypes, GCAt, FireAt
<1>4. Commits' BY <1>0 DEF Commits, WriterAt, Held, AtMost, Refs, Current
<1>5. Judging' BY <1>0, <1>1 DEF Judging
<1>6. OldIsSeen'
  <2> SUFFICES ASSUME NEW b \in Blobs, Live(b), blobs[b] # None, Expired(b, fire.age) PROVE Seen(b)'
    BY <1>0 DEF OldIsSeen, Live, Window, Refs, WriterAt, Expired
  <2>1. \E e \in Window(epoch) : b \in Refs(e)
    <3> SUFFICES ASSUME ~ WriterAt("idle"), wr.epoch = epoch, b \in wr.refs
                 PROVE  \E e \in Window(epoch) : b \in Refs(e)
      BY DEF Live
    <3>1. wr.age \in 0 .. TaskMax BY DEF ProjectTypes, WrType
    <3>2. b \in Current \/ AtMost(b, TaskMax + wr.age) BY DEF Commits
    <3>3. b \in Current BY <3>1, <3>2, YoungStays
    <3> QED BY <1>0, <3>3, RefsAreBlobs, WindowEnds DEF Current
  <2>2. epoch # 0 BY <2>1, WindowEnds
  <2>3. PICK e \in Window(epoch) : b \in Refs(e) BY <2>1
  <2>4. e \in gc'.from .. gc'.to /\ b \in Refs(e)' BY <1>0, <1>1, <2>2, <2>3 DEF Refs
  <2> QED BY <1>1, <2>2, <2>4 DEF Seen, GCAt
<1>7. Paged' BY <1>0 DEF Paged, AtMost, Live, Window, Refs, WriterAt
<1>8. NothingKeptIsLost' BY <1>0 DEF NothingKeptIsLost, Refs
<1> QED BY <1>2, <1>3, <1>4, <1>5, <1>6, <1>7, <1>8

(* What a manifest refers to is noted before the next one is read. *)
LEMMA ReadManifestKeeps ==
  ASSUME CollectorInv, ReadManifest, UNCHANGED fire PROVE CollectorInv'
<1> USE DEF CollectorInv
<1>0. /\ GCAt("manifest") /\ gc \in GCType /\ UNCHANGED <<project, fire>>
      /\ UNCHANGED <<epoch, manifests, blobs, used, wr, pushes, replica, ppc, page, taken>>
      /\ gc.todo = {} /\ gc.doomed = {}
      /\ gc.from \in 1 .. gc.to /\ gc.to \in 0 .. MaxEpoch /\ gc.from \in Nat /\ gc.to \in Nat
  BY Constants DEF ReadManifest, project, r2, purge, TaskTypes, Judging, GCAt, GCType
<1>1. Refs(gc.from) \subseteq Blobs BY <1>0, RefsAreBlobs, Constants
<1>2. /\ gc' \in GCType /\ gc'.todo = {} /\ gc'.doomed = {} /\ gc'.refs = gc.refs \cup Refs(gc.from)
      /\ gc.from = gc.to => gc'.pc = "list"
      /\ gc.from # gc.to => /\ gc'.pc = "manifest" /\ gc'.from = gc.from + 1 /\ gc'.to = gc.to
  <2> DEFINE last == gc.from = gc.to
             g1 == [gc EXCEPT !.refs = gc.refs \cup Refs(gc.from)]
             g2 == [g1 EXCEPT !.from = IF last THEN 0 ELSE gc.from + 1]
             g3 == [g2 EXCEPT !.to = IF last THEN 0 ELSE gc.to]
  <2>1. gc' = [g3 EXCEPT !.pc = IF last THEN "list" ELSE "manifest"]
    BY <1>0 DEF ReadManifest, GCAt
  <2>2. /\ g1 \in GCType /\ g1.todo = {} /\ g1.doomed = {} /\ g1.refs = gc.refs \cup Refs(gc.from)
        /\ g1.pc = "manifest"
    BY <1>0, <1>1 DEF GCType, GCAt
  <2>3. (IF last THEN 0 ELSE gc.from + 1) \in 0 .. MaxEpoch /\ (IF last THEN 0 ELSE gc.to) \in 0 .. MaxEpoch
    BY <1>0, Constants
  <2> HIDE DEF g1
  <2>4. /\ g2 \in GCType /\ g2.todo = {} /\ g2.doomed = {} /\ g2.refs = gc.refs \cup Refs(gc.from)
        /\ g2.pc = "manifest" /\ g2.from = IF last THEN 0 ELSE gc.from + 1
    BY <2>2, <2>3 DEF GCType
  <2> HIDE DEF g2
  <2>5. /\ g3 \in GCType /\ g3.todo = {} /\ g3.doomed = {} /\ g3.refs = gc.refs \cup Refs(gc.from)
        /\ g3.from = (IF last THEN 0 ELSE gc.from + 1) /\ g3.to = IF last THEN 0 ELSE gc.to
    BY <2>3, <2>4 DEF GCType
  <2> HIDE DEF g3
  <2>6. /\ gc' \in GCType /\ gc'.todo = {} /\ gc'.doomed = {} /\ gc'.refs = gc.refs \cup Refs(gc.from)
        /\ gc'.from = (IF last THEN 0 ELSE gc.from + 1) /\ gc'.to = (IF last THEN 0 ELSE gc.to)
        /\ gc'.pc = IF last THEN "list" ELSE "manifest"
    BY <2>1, <2>5 DEF GCType
  <2> QED BY <2>6
<1>3. ProjectTypes' BY <1>0 DEF ProjectTypes
<1>4. TaskTypes' BY <1>0, <1>2 DEF TaskTypes, GCAt, FireAt
<1>5. Commits' BY <1>0 DEF Commits, WriterAt, Held, AtMost, Refs, Current
<1>6. Judging' BY <1>0, <1>2 DEF Judging
<1>7. ASSUME NEW b, Seen(b) PROVE Seen(b)'
  <2>1. CASE b \in gc.refs BY <1>2, <2>1 DEF Seen
  <2>2. CASE \E f \in gc.from .. gc.to : b \in Refs(f)
    <3>1. PICK f \in gc.from .. gc.to : b \in Refs(f) BY <2>2
    <3>2. CASE f = gc.from BY <1>2, <3>1, <3>2 DEF Seen
    <3>3. CASE f # gc.from
      <4>1. f \in gc.from + 1 .. gc.to /\ gc.from # gc.to BY <1>0, <3>1, <3>3
      <4>2. b \in Refs(f)' BY <1>0, <3>1 DEF Refs
      <4> QED BY <1>2, <4>1, <4>2 DEF Seen, GCAt
    <3> QED BY <3>2, <3>3
  <2> QED BY <1>7, <2>1, <2>2 DEF Seen
<1>8. OldIsSeen' BY <1>0, <1>7 DEF OldIsSeen, Expired, Live, Refs, Window, GCAt, WriterAt
<1>9. Paged' BY <1>0 DEF Paged, AtMost, Live, Window, Refs, WriterAt
<1>10. NothingKeptIsLost' BY <1>0 DEF NothingKeptIsLost, Refs
<1> QED BY <1>3, <1>4, <1>5, <1>6, <1>8, <1>9, <1>10

(* Among what was listed, only what no manifest seen refers to is judged. *)
LEMMA ListKeeps ==
  ASSUME CollectorInv, List(fire.age), UNCHANGED fire PROVE CollectorInv'
<1> USE DEF CollectorInv
<1> DEFINE found == {b \in Blobs : blobs[b] # None /\ b \notin gc.refs /\ Expired(b, fire.age)}
<1>0. /\ gc.pc = "list" /\ gc \in GCType /\ UNCHANGED <<project, fire>>
      /\ UNCHANGED <<epoch, manifests, blobs, used, wr, pushes, replica, ppc, page, taken>> /\ gc.doomed = {}
  BY DEF List, project, r2, purge, TaskTypes, Judging, GCAt
<1>1. gc' \in GCType /\ gc'.pc = "check" /\ gc'.todo = found /\ gc'.doomed = {}
  <2> DEFINE g1 == [gc EXCEPT !.pc = "check"]
             g2 == [g1 EXCEPT !.refs = {}]
  <2>1. gc' = [g2 EXCEPT !.todo = found] BY DEF List
  <2>2. found \in SUBSET Blobs OBVIOUS
  <2>3. g1 \in GCType /\ g1.pc = "check" /\ g1.doomed = {} BY <1>0 DEF GCType
  <2> HIDE DEF g1, found
  <2>4. g2 \in GCType /\ g2.pc = "check" /\ g2.doomed = {} BY <2>3 DEF GCType
  <2> HIDE DEF g2
  <2> QED BY <2>1, <2>2, <2>4 DEF GCType
<1>2. found \subseteq used BY DEF ProjectTypes
<1>3. \A b \in found : ~ Live(b) BY <1>0 DEF OldIsSeen, Seen, GCAt
<1> HIDE DEF found
<1>4. ProjectTypes' BY <1>0 DEF ProjectTypes
<1>5. TaskTypes' BY <1>0, <1>1 DEF TaskTypes, GCAt, FireAt
<1>6. Commits' BY <1>0 DEF Commits, WriterAt, Held, AtMost, Refs, Current
<1>7. Judging' BY <1>0, <1>1, <1>2, <1>3 DEF Judging, Live, Window, Refs, WriterAt
<1>8. OldIsSeen' BY <1>1 DEF OldIsSeen
<1>9. Paged' BY <1>0 DEF Paged, AtMost, Live, Window, Refs, WriterAt
<1>10. NothingKeptIsLost' BY <1>0 DEF NothingKeptIsLost, Refs
<1> QED BY <1>4, <1>5, <1>6, <1>7, <1>8, <1>9, <1>10

(* Past the list the project is left alone, and what is judged only shrinks;
   it is doomed if B2 has it. *)
LEMMA JudgingKeeps ==
  ASSUME CollectorInv, UNCHANGED <<epoch, manifests, blobs, used, wr, pushes, replica, ppc, page, taken, fire>>,
         ~ GCAt("idle"), gc' \in GCType, gc'.pc \in {"check", "delete", "row"},
         gc'.todo \subseteq gc.todo, gc'.doomed \subseteq gc.todo \cup gc.doomed,
         gc'.doomed \subseteq replica
  PROVE  CollectorInv'
<1> USE DEF CollectorInv
<1>1. ProjectTypes' BY DEF ProjectTypes
<1>2. TaskTypes' BY DEF TaskTypes, GCAt, FireAt
<1>3. Commits' BY DEF Commits, WriterAt, Held, AtMost, Refs, Current
<1>4. Judging' BY DEF Judging, Live, Window, Refs, WriterAt
<1>5. OldIsSeen' BY DEF OldIsSeen
<1>6. Paged' BY DEF Paged, AtMost, Live, Window, Refs, WriterAt
<1>7. NothingKeptIsLost' BY DEF NothingKeptIsLost, Refs
<1> QED BY <1>1, <1>2, <1>3, <1>4, <1>5, <1>6, <1>7

(* A blob that B2 is not seen to have is let go. *)
LEMMA CheckEscrowKeeps ==
  ASSUME CollectorInv, NEW b \in gc.todo, NEW seen \in BOOLEAN, CheckEscrow(b, seen), UNCHANGED fire
  PROVE  CollectorInv'
<1> USE DEF CollectorInv
<1>0. /\ gc \in GCType /\ gc.pc = "check" /\ gc.todo \subseteq Blobs /\ gc.doomed \subseteq Blobs
      /\ UNCHANGED <<epoch, manifests, blobs, used, wr, pushes, replica, ppc, page, taken, fire>>
      /\ gc.doomed \subseteq replica
  BY DEF CheckEscrow, project, r2, purge, TaskTypes, GCType, GCAt, Judging
<1> DEFINE kept == IF Confirmed(b, seen) THEN gc.doomed \cup {b} ELSE gc.doomed
           g1 == [gc EXCEPT !.todo = gc.todo \ {b}]
<1>1. gc' = [g1 EXCEPT !.doomed = kept] BY DEF CheckEscrow
<1>2. /\ kept \subseteq Blobs /\ kept \subseteq gc.todo \cup gc.doomed /\ kept \subseteq replica
  BY <1>0 DEF Confirmed
<1>3. g1 \in GCType /\ g1.pc = "check" /\ g1.todo = gc.todo \ {b} BY <1>0 DEF GCType
<1> HIDE DEF g1, kept
<1>4. gc' \in GCType /\ gc'.pc = "check" /\ gc'.todo = gc.todo \ {b} /\ gc'.doomed = kept
  BY <1>1, <1>2, <1>3 DEF GCType
<1> QED BY <1>0, <1>2, <1>4, JudgingKeeps DEF GCAt

(* A dry run ends here; a live one goes on to delete. *)
LEMMA JudgedKeeps == ASSUME CollectorInv, Judged, UNCHANGED fire PROVE CollectorInv'
<1>0. /\ gc \in GCType /\ gc.pc = "check" /\ UNCHANGED <<project, fire>>
      /\ UNCHANGED <<epoch, manifests, blobs, used, wr, pushes, replica, ppc, page, taken, fire>>
      /\ gc.doomed \subseteq replica
  BY DEF Judged, project, r2, purge, GCAt, CollectorInv, TaskTypes, Judging
<1>1. CASE gc.dry BY <1>0, <1>1, GCDoneKeeps DEF Judged, GCAt
<1>2. CASE ~ gc.dry
  <2>1. gc' = [gc EXCEPT !.pc = "delete"] BY <1>2 DEF Judged
  <2>2. gc' \in GCType /\ gc'.pc = "delete" /\ gc'.todo = gc.todo /\ gc'.doomed = gc.doomed
    BY <1>0, <2>1 DEF GCType
  <2> QED BY <1>0, <2>2, JudgingKeeps DEF GCAt
<1> QED BY <1>1, <1>2

(* What is deleted is in B2. *)
LEMMA DeleteBlobKeeps ==
  ASSUME CollectorInv, NEW b \in gc.doomed, DeleteBlob(b), UNCHANGED fire PROVE CollectorInv'
<1> USE DEF CollectorInv
<1>0. /\ gc \in GCType /\ gc.pc = "delete" /\ b \in Blobs /\ b \in replica
      /\ UNCHANGED <<epoch, manifests, used, wr, pushes, replica, ppc, page, taken, fire>>
      /\ blobs' = [blobs EXCEPT ![b] = None]
  BY DEF DeleteBlob, purge, TaskTypes, GCType, GCAt, Judging
<1>1. gc' \in GCType /\ gc'.pc = "row" /\ gc'.todo = gc.todo /\ gc'.doomed = gc.doomed \ {b}
  <2> DEFINE g1 == [gc EXCEPT !.pc = "row"]
             g2 == [g1 EXCEPT !.blob = b]
  <2>1. gc' = [g2 EXCEPT !.doomed = gc.doomed \ {b}] BY DEF DeleteBlob
  <2>2. g1 \in GCType /\ g1.pc = "row" /\ g1.todo = gc.todo BY <1>0 DEF GCType
  <2>3. gc.doomed \ {b} \in SUBSET Blobs BY <1>0 DEF GCType
  <2> HIDE DEF g1
  <2>4. g2 \in GCType /\ g2.pc = "row" /\ g2.todo = gc.todo BY <1>0, <2>2 DEF GCType
  <2> HIDE DEF g2
  <2> QED BY <2>1, <2>3, <2>4 DEF GCType
<1>2. \A a \in Blobs : blobs'[a] = IF a = b THEN None ELSE blobs[a] BY <1>0 DEF ProjectTypes
<1>3. ProjectTypes' BY <1>0 DEF ProjectTypes, AgeType
<1>4. TaskTypes' BY <1>0, <1>1 DEF TaskTypes, GCAt, FireAt
<1>5. \A a \in Blobs : (Held(a) => Held(a)') /\ \A n : AtMost(a, n) => AtMost(a, n)'
  BY <1>0, <1>2 DEF Held, AtMost
<1>6. Commits'
  <2>1. wr.refs \subseteq Blobs /\ (wr.blob # None => wr.blob \in Blobs) BY DEF ProjectTypes, WrType
  <2>2. Current' = Current BY <1>0 DEF Current, Refs
  <2>3. ~ WriterAt("idle") => \A a \in wr.refs : Held(a)' \/ (WriterAt("blob") /\ a = wr.blob)
    BY <1>5, <2>1 DEF Commits
  <2>4. ~ WriterAt("idle") /\ epoch = wr.epoch =>
          \A a \in wr.refs : a \in Current' \/ AtMost(a, TaskMax + wr.age)'
    BY <1>0, <1>2, <2>1, <2>2 DEF Commits, AtMost
  <2>5. ~ WriterAt("idle") /\ wr.blob # None => AtMost(wr.blob, wr.age)'
    BY <1>0, <1>2, <2>1 DEF Commits, AtMost
  <2>6. TaskMax + wr'.age = TaskMax + wr.age /\ wr' = wr BY <1>0
  <2> QED BY <1>0, <2>3, <2>4, <2>5, <2>6 DEF Commits, WriterAt, Refs
<1>7. \A a : Live(a)' <=> Live(a) BY <1>0 DEF Live, Window, Refs, WriterAt
<1>8. Judging' BY <1>0, <1>1, <1>7 DEF Judging
<1>9. OldIsSeen' BY <1>1 DEF OldIsSeen
<1>10. Paged' BY <1>0, <1>5, <1>7 DEF Paged
<1>11. NothingKeptIsLost'
  <2>1. \A e \in 1 .. MaxEpoch : Refs(e) \subseteq Blobs /\ Refs(e)' = Refs(e) BY <1>0, RefsAreBlobs DEF Refs
  <2> QED BY <1>5, <2>1 DEF NothingKeptIsLost, Held
<1> QED BY <1>3, <1>4, <1>6, <1>8, <1>9, <1>10, <1>11

(* After a deletion the collector turns to the next blob. *)
LEMMA NextBlobKeeps ==
  ASSUME CollectorInv, UNCHANGED <<project, fire>>,
         \/ \E b \in gc.doomed : DeleteFails(b)
         \/ \E outcome \in {"written", "refused", "thrown"} : AuditRow(outcome)
  PROVE  CollectorInv'
<1> USE DEF CollectorInv
<1>0. /\ gc \in GCType /\ UNCHANGED <<epoch, manifests, blobs, used, wr, pushes, replica, ppc, page, taken, fire>>
      /\ gc.doomed \subseteq replica
  BY DEF project, r2, purge, TaskTypes, Judging
<1>1. ASSUME NEW b \in gc.doomed, DeleteFails(b) PROVE CollectorInv'
  <2>1. gc.pc = "delete" /\ gc' = [gc EXCEPT !.doomed = gc.doomed \ {b}] BY <1>1 DEF DeleteFails, GCAt
  <2>2. gc' \in GCType /\ gc'.pc = "delete" /\ gc'.todo = gc.todo /\ gc'.doomed = gc.doomed \ {b}
    BY <1>0, <2>1 DEF GCType
  <2> QED BY <1>0, <2>1, <2>2, JudgingKeeps DEF GCAt
<1>2. ASSUME NEW outcome \in {"written", "refused", "thrown"}, AuditRow(outcome) PROVE CollectorInv'
  <2> DEFINE g1 == [gc EXCEPT !.pc = "delete"]
  <2>1. gc.pc = "row" /\ gc' = [g1 EXCEPT !.blob = None] BY <1>2 DEF AuditRow, NextBlob, GCAt
  <2>2. g1 \in GCType /\ g1.pc = "delete" /\ g1.todo = gc.todo /\ g1.doomed = gc.doomed
    BY <1>0 DEF GCType
  <2> HIDE DEF g1
  <2>3. gc' \in GCType /\ gc'.pc = "delete" /\ gc'.todo = gc.todo /\ gc'.doomed = gc.doomed
    BY <2>1, <2>2 DEF GCType
  <2> QED BY <1>0, <2>1, <2>3, JudgingKeeps DEF GCAt
<1> QED BY <1>1, <1>2

(* Nor does anything the collector does, or fails to do. *)
LEMMA CollectorKeeps ==
  ASSUME CollectorInv, GCStep(fire.age) \/ GCFault, UNCHANGED fire PROVE CollectorInv'
<1>1. CASE GCEnds BY <1>1, GCDoneKeeps DEF GCEnds, GCAt
<1>2. CASE GCThrows BY <1>2, GCDoneKeeps DEF GCThrows, GCAt
<1>3. CASE \E outcome \in {"written", "refused", "thrown"} : AuditRow(outcome)
  BY <1>3, NextBlobKeeps DEF AuditRow
<1>4. CASE \E b \in gc.doomed : DeleteFails(b) BY <1>4, NextBlobKeeps DEF DeleteFails
<1> QED BY <1>1, <1>2, <1>3, <1>4, ReadPointerKeeps, ReadManifestKeeps, ListKeeps, CheckEscrowKeeps,
           JudgedKeeps, DeleteBlobKeeps DEF GCStep, GCFault
-----------------------------------------------------------------------------
(* The kind is stored with the alarm and never forgotten. *)
LEMMA KnowsKindKeeps == ASSUME KnowsKind, TaskTypes, Next PROVE KnowsKind'
<1>0. \A now \in Int : ComputeNextFire(now).kind \in Kinds BY DEF ComputeNextFire, Kinds
<1>1. ArmNext => pending' \in Kinds BY DEF ArmNext, ComputeNextFire, Kinds
<1>2. CASE Arm \/ Rearm BY <1>1, <1>2 DEF Arm, Rearm, KnowsKind
<1>3. CASE AlarmOff BY <1>3 DEF AlarmOff, KnowsKind, FireAt
<1>4. CASE AlarmFires BY <1>4, Constants DEF AlarmFires, KnowsKind
<1>5. CASE TaskStep \/ Failure \/ Project
  BY <1>5 DEF TaskStep, Failure, Project, schedVars, KnowsKind, FireAt
<1>6. ASSUME NEW deploy \in BOOLEAN, Crash(deploy) PROVE KnowsKind'
  BY <1>6 DEF Crash, Retries, KnowsKind, FireAt, FireIdle
<1>7. CASE Tick
  <2>1. fire'.pc = fire.pc BY <1>7 DEF Tick, TaskTypes, FireAt
  <2> QED BY <1>7, <2>1 DEF Tick, KnowsKind, FireAt
<1> QED BY <1>2, <1>3, <1>4, <1>5, <1>6, <1>7 DEF Next

(* A fresh run has nothing to judge. *)
LEMMA AlarmFiresKeeps ==
  ASSUME CollectorInv, KnowsKind, AlarmFires PROVE CollectorInv'
<1>0. /\ gc \in GCType /\ gc.pc = "idle" /\ gc.todo = {} /\ gc.doomed = {} /\ pending \in Kinds
  BY Constants DEF AlarmFires, CollectorInv, TaskTypes, Judging, KnowsKind, GCAt
<1>1. fire' \in [pc : {"idle"} \cup Kinds, age : 0 .. TaskMax] /\ fire'.pc # "idle"
  BY <1>0, Constants DEF AlarmFires, FireIdle, Kinds
<1>2. CASE pending = "weekly"
  <2> DEFINE g1 == [GCIdle EXCEPT !.pc = "pointer"]
  <2>1. gc' = [g1 EXCEPT !.dry = Dry] /\ UNCHANGED project BY <1>2 DEF AlarmFires, GCStarts
  <2>2. g1 \in GCType /\ g1.pc = "pointer" /\ g1.todo = {} /\ g1.doomed = {} BY GCIdleType DEF GCType
  <2>3. Dry \in BOOLEAN BY DEF Dry
  <2> HIDE DEF g1
  <2>4. gc' \in GCType /\ gc'.pc = "pointer" /\ gc'.todo = {} /\ gc'.doomed = {}
    BY <2>1, <2>2, <2>3 DEF GCType
  <2> QED BY <1>1, <2>1, <2>4, GCNone
<1>3. CASE pending # "weekly"
  <2>1. gc' = gc /\ UNCHANGED project BY <1>3 DEF AlarmFires, gcVars, run
  <2> QED BY <1>0, <1>1, <2>1, GCNone
<1> QED BY <1>2, <1>3

(* Every step keeps the collector's invariant. *)
LEMMA CollectorStep == CollectorInv /\ KnowsKind /\ [Next]_vars => CollectorInv' /\ KnowsKind'
<1> SUFFICES ASSUME CollectorInv, KnowsKind, [Next]_vars PROVE CollectorInv' /\ KnowsKind' OBVIOUS
<1>1. ASSUME UNCHANGED <<gcVars, fire>> PROVE CollectorInv'
  <2>0. UNCHANGED <<epoch, manifests, blobs, used, wr, pushes, replica, ppc, page, taken, gc, fire>>
    BY <1>1 DEF gcVars, project, r2, purge, run
  <2> USE <2>0 DEF CollectorInv
  <2>1. ProjectTypes' BY DEF ProjectTypes
  <2>2. TaskTypes' BY DEF TaskTypes, GCAt, FireAt
  <2>3. Commits' BY DEF Commits, WriterAt, Held, AtMost, Refs, Current
  <2>4. Paged' BY DEF Paged, AtMost, Live, Window, Refs, WriterAt
  <2>5. Judging' BY DEF Judging, Live, Window, Refs, WriterAt
  <2>6. OldIsSeen' BY DEF OldIsSeen, Live, Window, Refs, WriterAt, Seen, Expired, GCAt
  <2>7. NothingKeptIsLost' BY DEF NothingKeptIsLost, Refs
  <2> QED BY <2>1, <2>2, <2>3, <2>4, <2>5, <2>6, <2>7 DEF CollectorInv
<1>2. CASE UNCHANGED vars
  <2>1. UNCHANGED <<gcVars, fire, alarm, pending>> BY <1>2 DEF vars, schedVars
  <2> QED BY <1>1, <2>1 DEF KnowsKind, FireAt
<1>3. CASE Next
  <2>1. KnowsKind' BY <1>3, KnowsKindKeeps DEF CollectorInv
  <2> SUFFICES CollectorInv' BY <2>1
  <2>2. CASE Arm \/ AlarmOff BY <1>1, <2>2 DEF Arm, AlarmOff
  <2>3. CASE AlarmFires BY <2>3, AlarmFiresKeeps
  <2>4. CASE TaskStep BY <1>1, <2>4, CollectorKeeps DEF TaskStep, schedVars
  <2>5. CASE Failure BY <1>1, <2>5, CollectorKeeps, ProjectKeeps DEF Failure, schedVars
  <2>6. CASE Tick BY <2>6, TickKeeps
  <2>7. CASE Project BY <2>7, ProjectKeeps DEF Project, schedVars
  <2>8. CASE Rearm \/ \E deploy \in BOOLEAN : Crash(deploy)
    <3>1. gc' = GCIdle /\ fire' = FireIdle /\ UNCHANGED project BY <2>8 DEF Rearm, Crash
    <3>2. fire' \in [pc : {"idle"} \cup Kinds, age : 0 .. TaskMax] BY <3>1, Constants DEF FireIdle
    <3> QED BY <3>1, <3>2, GCIdleType, GCNone
  <2> QED BY <1>3, <2>2, <2>3, <2>4, <2>5, <2>6, <2>7, <2>8 DEF Next
<1> QED BY <1>2, <1>3

(* An empty project satisfies it. *)
LEMMA CollectorStarts == Init => CollectorInv /\ KnowsKind
<1> SUFFICES ASSUME Init PROVE CollectorInv /\ KnowsKind OBVIOUS
<1>0. /\ epoch = 0 /\ manifests = [e \in 1 .. MaxEpoch |-> None] /\ blobs = [b \in Blobs |-> None]
      /\ used = {} /\ wr = WriterIdle /\ pushes = {} /\ replica = {} /\ ppc = "idle" /\ page = NoPage
      /\ taken = {} /\ gc = GCIdle /\ fire = FireIdle /\ alarm = None
  BY DEF Init, GCInit
<1>1. ProjectTypes
  <2>1. manifests \in [1 .. MaxEpoch -> (SUBSET Blobs) \cup {None}] BY <1>0
  <2>2. epoch \in 0 .. MaxEpoch /\ blobs \in [Blobs -> AgeType] BY <1>0, Constants DEF AgeType
  <2> QED BY <1>0, <2>1, <2>2, WrFields DEF ProjectTypes, NoPage
<1>2. TaskTypes
  <2>1. FireIdle \in [pc : {"idle"} \cup Kinds, age : 0 .. TaskMax] BY Constants DEF FireIdle
  <2> QED BY <1>0, <2>1, GCIdleType DEF TaskTypes, GCAt
<1>3. Commits /\ Paged /\ Judging
  BY <1>0, GCIdleType, WrFields DEF Commits, Paged, Judging, WriterAt
<1>4. OldIsSeen /\ NothingKeptIsLost BY <1>0, GCIdleType DEF OldIsSeen, NothingKeptIsLost, Refs
<1>5. KnowsKind BY <1>0 DEF KnowsKind, FireAt, FireIdle
<1> QED BY <1>1, <1>2, <1>3, <1>4, <1>5 DEF CollectorInv

(* The inductive invariant holds. *)
THEOREM SpecCollectorInv == Spec => []CollectorInv
<1> QED BY CollectorStarts, CollectorStep, PTL DEF Spec

(* What the collector is about to delete stays unreferenced by the manifests
   of the window, whatever the writer and an administrator do meanwhile. *)
THEOREM SpecDoomedStayUnreferenced == Spec => []DoomedStayUnreferenced
<1>1. CollectorInv => DoomedStayUnreferenced
  <2>1. CollectorInv => gc.todo \cup gc.doomed \subseteq Blobs BY DEF CollectorInv, TaskTypes, GCType
  <2> QED BY <2>1 DEF CollectorInv, Judging, Live, DoomedStayUnreferenced
<1> QED BY <1>1, SpecCollectorInv, PTL

(* No blob that a stored manifest refers to is gone from both R2 and B2 unless
   a DELETE of the project took it. *)
THEOREM SpecNothingKeptIsLost == Spec => []NothingKeptIsLost
<1>1. CollectorInv => NothingKeptIsLost BY DEF CollectorInv
<1> QED BY <1>1, SpecCollectorInv, PTL
-----------------------------------------------------------------------------
(* Division leaves one remainder. *)
LEMMA DivMod ==
  ASSUME NEW p \in Nat \ {0}, NEW x \in Int
  PROVE  /\ x \div p \in Int /\ x % p \in 0 .. p - 1
         /\ x = p * (x \div p) + (x % p)
<1>1. x \div p \in Int /\ x % p \in 0 .. p - 1 OBVIOUS
<1>2. x = p * (x \div p) + (x % p) BY Z3T(30)
<1> QED BY <1>1, <1>2

(* The remainder is the only one in range. *)
LEMMA OneRemainder ==
  ASSUME NEW p \in Nat \ {0}, NEW x \in Int, NEW q \in Int, NEW r \in 0 .. p - 1, x = p * q + r
  PROVE  x % p = r
OBVIOUS

(* The time found is the first one ahead. *)
LEMMA AfterIsFirst ==
  ASSUME NEW p \in Nat \ {0}, NEW at \in 0 .. p - 1, NEW now \in Int
  PROVE  /\ After(p, at, now) \in 1 .. p
         /\ (now + After(p, at, now)) % p = at
         /\ \A k \in 1 .. p : k < After(p, at, now) => (now + k) % p # at
<1> DEFINE a == After(p, at, now)
           r == (at - now) % p
           q == (at - now) \div p
<1>1. /\ q \in Int /\ r \in 0 .. p - 1 /\ p * q \in Int /\ at - now = p * q + r /\ at - now \in Int
      /\ a = IF r = 0 THEN p ELSE r
  <2>1. at - now \in Int OBVIOUS
  <2>2. a = IF r = 0 THEN p ELSE r BY DEF After
  <2>3. q \in Int /\ r \in 0 .. p - 1 /\ at - now = p * q + r BY <2>1, DivMod, Zenon
  <2> HIDE DEF a, q, r
  <2> QED BY <2>1, <2>2, <2>3
<1>2. a \in 1 .. p BY <1>1
<1>3. (now + a) % p = at
  <2> HIDE DEF a, r, q
  <2>1. CASE r = 0
    <3>1. now + a = p * (1 - q) + at BY <1>1, <2>1
    <3>2. now + a \in Int /\ 1 - q \in Int BY <1>1, <1>2
    <3> QED BY <3>1, <3>2, OneRemainder
  <2>2. CASE r # 0
    <3>1. now + a = p * (0 - q) + at BY <1>1, <2>2
    <3>2. now + a \in Int /\ 0 - q \in Int BY <1>1, <1>2
    <3> QED BY <3>1, <3>2, OneRemainder
  <2> QED BY <2>1, <2>2
<1>4. ASSUME NEW k \in 1 .. p, k < a, (now + k) % p = at PROVE FALSE
  <2> DEFINE s == (now + k) \div p
  <2>0. now + k \in Int OBVIOUS
  <2>1. s \in Int /\ now + k = p * s + at BY <2>0, <1>4, DivMod, Zenon
  <2> HIDE DEF a, s
  <2>2. at - now = p * (0 - s) + k BY <2>1
  <2>3. k \in 0 .. p - 1 BY <1>1, <1>4
  <2>4. (at - now) % p = k BY <1>1, <2>1, <2>2, <2>3, OneRemainder
  <2> QED BY <1>1, <1>4, <2>4
<1> QED BY <1>2, <1>3, <1>4

(* What the proofs use of the calendar. *)
LEMMA Calendar ==
  /\ Day \in Nat \ {0} /\ Week \in Nat \ {0} /\ Week % Day = 0
  /\ NightlyAt \in 0 .. Day - 1 /\ WeeklyAt \in 0 .. Week - 1
BY SchedulerAssumption

(* A week further on everything is due again. *)
LEMMA WeekLater ==
  ASSUME NEW x \in Int
  PROVE  (x + Week) % Day = x % Day /\ (x + Week) % Week = x % Week
<1>1. PICK k \in Int : Week = Day * k
  <2>1. Week \in Int /\ Week = Day * (Week \div Day) + (Week % Day) /\ Week \div Day \in Int
    BY Calendar, DivMod
  <2>2. \A n \in Int : Week = Day * n + 0 => Week = Day * n BY Calendar
  <2>3. Week % Day = 0 BY Calendar
  <2>4. Week = Day * (Week \div Day) + 0 BY ONLY <2>1, <2>3, Zenon
  <2> QED BY <2>1, <2>2, <2>4, Zenon
<1>2. ASSUME NEW p \in Nat \ {0}, NEW n \in Int, Week = p * n PROVE (x + Week) % p = x % p
  <2> DEFINE q == x \div p
             r == x % p
  <2>1. q \in Int /\ r \in 0 .. p - 1 /\ x = p * q + r BY DivMod, Zenon
  <2> HIDE DEF q, r
  <2>2. x + Week = p * (q + n) + r BY <1>2, <2>1, Calendar
  <2>3. x + Week \in Int /\ q + n \in Int BY <2>1, Calendar
  <2>4. (x + Week) % p = r BY <2>1, <2>2, <2>3, OneRemainder
  <2> QED BY <2>4 DEF r
<1>3. (x + Week) % Day = x % Day BY <1>1, <1>2, Calendar
<1>4. Week = Week * 1 BY Calendar
<1>5. Week \in Nat \ {0} /\ 1 \in Int BY Calendar
<1>6. (x + Week) % Week = x % Week BY <1>2, <1>4, <1>5, Zenon
<1> QED BY <1>3, <1>6

(* The clock turns over every week, and nothing becomes due by that. *)
LEMMA DueTurnsOver ==
  ASSUME NEW now \in 0 .. Week - 1, NEW x \in Int, NEW kind
  PROVE  Due(kind, ((now + 1) % Week) + x) <=> Due(kind, now + 1 + x)
<1>1. CASE now + 1 < Week
  <2>1. (now + 1) % Week = now + 1 BY <1>1, Calendar
  <2> QED BY <2>1
<1>2. CASE now + 1 = Week
  <2>1. (now + 1) % Week = 0
    <3>1. Week = Week * 1 + 0 /\ 0 \in 0 .. Week - 1 BY Calendar
    <3> QED BY <1>2, <3>1, OneRemainder, Calendar
  <2>2. now + 1 + x = x + Week /\ 0 + x = x BY <1>2, Calendar
  <2>3. Due(kind, x + Week) <=> Due(kind, x) BY WeekLater DEF Due
  <2> QED BY <2>1, <2>2, <2>3
<1> QED BY <1>1, <1>2, Calendar

(* What is armed is the first due time ahead. *)
LEMMA ArmNextIsFirst ==
  ASSUME ArmNext, clock \in 0 .. Week - 1, clock' = clock
  PROVE  alarm' \in 1 .. Week /\ First' /\ pending' \in Kinds
<1> DEFINE d == NextDaily(clock)
           w == NextWeekly(clock)
<1>0. clock \in Int BY Calendar
<1>1. /\ d \in 1 .. Day /\ (clock + d) % Day = NightlyAt
      /\ \A k \in 1 .. Day : k < d => (clock + k) % Day # NightlyAt
  <2>1. /\ After(Day, NightlyAt, clock) \in 1 .. Day
        /\ (clock + After(Day, NightlyAt, clock)) % Day = NightlyAt
        /\ \A k \in 1 .. Day : k < After(Day, NightlyAt, clock) => (clock + k) % Day # NightlyAt
    <3>1. Day \in Nat \ {0} /\ NightlyAt \in 0 .. Day - 1 BY Calendar
    <3> QED BY ONLY <1>0, <3>1, AfterIsFirst, Zenon
  <2>2. d = After(Day, NightlyAt, clock) BY DEF NextDaily
  <2> HIDE DEF d
  <2> QED BY ONLY <2>1, <2>2, Zenon
<1>2. /\ w \in 1 .. Week /\ (clock + w) % Week = WeeklyAt
      /\ \A k \in 1 .. Week : k < w => (clock + k) % Week # WeeklyAt
  <2>1. /\ After(Week, WeeklyAt, clock) \in 1 .. Week
        /\ (clock + After(Week, WeeklyAt, clock)) % Week = WeeklyAt
        /\ \A k \in 1 .. Week : k < After(Week, WeeklyAt, clock) => (clock + k) % Week # WeeklyAt
    <3>1. Week \in Nat \ {0} /\ WeeklyAt \in 0 .. Week - 1 BY Calendar
    <3> QED BY ONLY <1>0, <3>1, AfterIsFirst, Zenon
  <2>2. w = After(Week, WeeklyAt, clock) BY DEF NextWeekly
  <2> HIDE DEF w
  <2> QED BY ONLY <2>1, <2>2, Zenon
<1>3. /\ pending' = IF w < d THEN "weekly" ELSE "nightly"
      /\ alarm' = IF w < d THEN w ELSE d
  BY DEF ArmNext, ComputeNextFire
<1> HIDE DEF d, w
<1>4. alarm' \in 1 .. Week BY <1>1, <1>2, <1>3, Calendar
<1>5. Due(pending, clock + alarm)' BY <1>1, <1>2, <1>3 DEF Due
<1>6. ASSUME NEW k \in 1 .. Week, k < alarm', NEW kind \in Kinds PROVE ~ Due(kind, clock' + k)
  <2>1. k \in 1 .. Day /\ k < d /\ k < w BY <1>1, <1>2, <1>3, <1>6, Calendar
  <2>2. (clock + k) % Day # NightlyAt /\ (clock + k) % Week # WeeklyAt BY <1>1, <1>2, <2>1
  <2> QED BY <2>2 DEF Due
<1> QED BY <1>3, <1>4, <1>5, <1>6 DEF First, Kinds

(* It stays so as time passes and while the object fails. *)
LEMMA ArmedStep == ArmedInv /\ CollectorInv /\ KnowsKind /\ [Next]_vars => ArmedInv'
<1> SUFFICES ASSUME ArmedInv, CollectorInv, KnowsKind, [Next]_vars PROVE ArmedInv' OBVIOUS
<1>0. ASSUME UNCHANGED schedVars PROVE ArmedInv' BY <1>0 DEF schedVars, ArmedInv, First, FireAt, Due
<1>1. CASE UNCHANGED vars BY <1>0, <1>1 DEF vars
<1>2. ASSUME ArmNext, clock' = clock PROVE ArmedInv'
  <2>1. alarm' \in 1 .. Week /\ First' BY <1>2, ArmNextIsFirst DEF ArmedInv
  <2>2. clock' \in 0 .. Week - 1 BY <1>2 DEF ArmedInv
  <2>3. alarm' \in 0 .. Week /\ alarm' # None BY <2>1, Calendar, Constants
  <2> QED BY <2>1, <2>2, <2>3 DEF ArmedInv
<1>3. CASE Arm \/ Rearm BY <1>2, <1>3 DEF Arm, Rearm
<1>4. CASE AlarmOff BY <1>4 DEF AlarmOff, ArmedInv
<1>5. CASE AlarmFires
  <2>1. clock' = clock /\ alarm' = None BY <1>5 DEF AlarmFires
  <2>2. ~ FireAt("idle")' BY <1>5, Constants DEF AlarmFires, KnowsKind, FireAt, FireIdle, Kinds
  <2> QED BY <2>1, <2>2 DEF ArmedInv
<1>6. CASE TaskStep \/ Failure \/ Project BY <1>0, <1>6 DEF TaskStep, Failure, Project
<1>7. ASSUME NEW deploy \in BOOLEAN, Crash(deploy) PROVE ArmedInv'
  <2>1. UNCHANGED <<clock, pending, dormant>> /\ alarm' \in Retries BY <1>7 DEF Crash
  <2>2. alarm' \in {0, alarm} /\ (alarm' = None => alarm = None /\ FireAt("idle"))
    BY <2>1, Constants DEF Retries
  <2>3. alarm' = alarm => First' = First BY <2>1 DEF First, Due
  <2>4. alarm' \in 0 .. Week \cup {None} BY <2>2, Calendar DEF ArmedInv
  <2>5. alarm' \notin {None, 0} => First' BY <2>2, <2>3 DEF ArmedInv
  <2> QED BY <2>1, <2>2, <2>4, <2>5 DEF ArmedInv
<1>8. CASE Tick
  <2>1. /\ clock \in 0 .. Week - 1 /\ clock' = (clock + 1) % Week /\ UNCHANGED <<pending, dormant>>
        /\ alarm' = IF alarm \in {None, 0} THEN alarm ELSE alarm - 1
        /\ alarm \in 0 .. Week \cup {None}
    BY <1>8 DEF Tick, ArmedInv
  <2>2. fire'.pc = fire.pc BY <1>8 DEF Tick, CollectorInv, TaskTypes, FireAt
  <2>3. clock' \in 0 .. Week - 1 BY <2>1, Calendar, DivMod
  <2>4. alarm' \in 0 .. Week \cup {None} /\ (alarm' = None <=> alarm = None)
    BY <2>1, Calendar, Constants
  <2>5. ASSUME alarm' \notin {None, 0} PROVE First'
    <3>1. alarm \in 1 .. Week /\ alarm' = alarm - 1 /\ alarm' \in Int /\ First
      BY <2>1, <2>5, Calendar, Constants DEF ArmedInv
    <3>2. clock + 1 + (alarm - 1) = clock + alarm BY <2>1, <3>1, Calendar
    <3>3. Due(pending, clock' + alarm') BY <2>1, <3>1, <3>2, DueTurnsOver DEF First
    <3>4. ASSUME NEW k \in 1 .. Week, k < alarm', NEW kind \in Kinds PROVE ~ Due(kind, clock' + k)
      <4>1. k + 1 \in 1 .. Week /\ k + 1 < alarm /\ k \in Int BY <3>1, <3>4, Calendar
      <4>2. clock + 1 + k = clock + (k + 1) BY <2>1, <4>1, Calendar
      <4>3. ~ Due(kind, clock + (k + 1)) BY <3>1, <4>1 DEF First
      <4> QED BY <2>1, <4>1, <4>2, <4>3, DueTurnsOver
    <3> QED BY <2>1, <3>3, <3>4 DEF First
  <2> QED BY <2>1, <2>2, <2>3, <2>4, <2>5 DEF ArmedInv, FireAt
<1> QED BY <1>1, <1>3, <1>4, <1>5, <1>6, <1>7, <1>8 DEF Next

(* At rest the alarm is set for the first due time still to come, after every
   failure, crash, deploy or /arm. *)
THEOREM SpecNextDueIsArmed == Spec => []NextDueIsArmed
<1>1. Init => ArmedInv BY Calendar, Constants DEF Init, ArmedInv
<1>2. ArmedInv => NextDueIsArmed BY DEF ArmedInv, NextDueIsArmed, First
<1>3. Init => CollectorInv /\ KnowsKind BY CollectorStarts
<1> QED BY <1>1, <1>2, <1>3, ArmedStep, CollectorStep, PTL DEF Spec
-----------------------------------------------------------------------------
(* A row names a blob that was deleted. *)
LEMMA RunTypesStep ==
  ASSUME gc \in GCType, gc.todo \cup gc.doomed \subseteq Blobs, RunTypes, [Next]_vars PROVE RunTypes'
<1> USE DEF RunTypes, GCAt
<1>0. ASSUME UNCHANGED <<gc, gone, rows, alerts>> PROVE RunTypes' BY <1>0
<1>1. CASE UNCHANGED vars BY <1>0, <1>1 DEF vars, gcVars, run
<1>2. ASSUME gc'.pc \notin {"manifest", "row"}, gc'.from = 0, UNCHANGED <<gone, rows, alerts>>
      PROVE  RunTypes'
  BY <1>2
<1>3. GCIdle.from = 0 /\ GCIdle.pc = "idle" /\ GCIdle \in GCType BY GCIdleType DEF GCIdle
<1>4. ASSUME \/ gc' = GCIdle
             \/ \E p \in {"pointer", "done"} : gc' = [GCIdle EXCEPT !.pc = p]
             \/ \E dry \in BOOLEAN : gc' = [GCIdle EXCEPT !.pc = "pointer", !.dry = dry],
             UNCHANGED <<gone, rows, alerts>>
      PROVE  RunTypes'
  <2>1. gc'.pc \notin {"manifest", "row"} /\ gc'.from = 0 BY <1>3, <1>4 DEF GCType
  <2> QED BY <1>2, <1>4, <2>1
<1>5. CASE Arm \/ AlarmOff \/ Tick \/ Project
  BY <1>0, <1>5, ProjectLeaves DEF Arm, AlarmOff, Tick, Project, gcVars, run
<1>6. CASE Rearm \/ \E deploy \in BOOLEAN : Crash(deploy) BY <1>4, <1>6 DEF Rearm, Crash
<1>7. CASE AlarmFires
  <2>1. CASE pending = "weekly"
    <3>1. gc' = [GCIdle EXCEPT !.pc = "pointer", !.dry = Dry] /\ UNCHANGED <<gone, rows, alerts>>
      BY <1>7, <2>1 DEF AlarmFires, GCStarts
    <3>2. Dry \in BOOLEAN BY DEF Dry
    <3> QED BY <1>4, <3>1, <3>2
  <2>2. CASE pending # "weekly" BY <1>0, <1>7, <2>2 DEF AlarmFires, gcVars, run
  <2> QED BY <2>1, <2>2
<1>8. ASSUME GCStep(fire.age) \/ GCFault PROVE RunTypes'
  <2>1. CASE ReadPointer
    <3>1. CASE epoch = 0
      <4>1. gc'.pc = "list" /\ gc'.from = gc.from BY <2>1, <3>1 DEF ReadPointer, GCType
      <4> QED BY <2>1, <4>1, <1>2 DEF ReadPointer
    <3>2. CASE epoch # 0
      <4>1. gc'.pc = "manifest" BY <2>1, <3>2 DEF ReadPointer, GCType
      <4> QED BY <2>1, <4>1 DEF ReadPointer
    <3> QED BY <3>1, <3>2
  <2>2. CASE ReadManifest
    <3>1. CASE gc.from = gc.to
      <4>1. gc'.pc = "list" /\ gc'.from = 0 BY <2>2, <3>1 DEF ReadManifest, GCType
      <4> QED BY <2>2, <4>1, <1>2 DEF ReadManifest
    <3>2. CASE gc.from # gc.to
      <4>1. gc'.pc = "manifest" BY <2>2, <3>2 DEF ReadManifest, GCType
      <4> QED BY <2>2, <4>1 DEF ReadManifest
    <3> QED BY <3>1, <3>2
  <2>3. CASE List(fire.age)
    <3>1. gc'.pc = "check" /\ gc'.from = gc.from BY <2>3 DEF List, GCType
    <3> QED BY <2>3, <3>1, <1>2 DEF List
  <2>4. CASE Judged
    <3>1. CASE gc.dry BY <1>4, <2>4, <3>1 DEF Judged
    <3>2. CASE ~ gc.dry
      <4>1. gc'.pc = "delete" /\ gc'.from = gc.from BY <2>4, <3>2 DEF Judged, GCType
      <4> QED BY <2>4, <4>1, <1>2 DEF Judged
    <3> QED BY <3>1, <3>2
  <2>5. CASE GCEnds \/ GCThrows BY <1>4, <2>5 DEF GCEnds, GCThrows
  <2>6. ASSUME NEW b \in gc.todo, NEW seen \in BOOLEAN, CheckEscrow(b, seen) PROVE RunTypes'
    <3>1. gc'.pc = "check" /\ gc'.from = gc.from BY <2>6 DEF CheckEscrow, GCType
    <3> QED BY <2>6, <3>1, <1>2 DEF CheckEscrow
  <2>7. ASSUME NEW b \in gc.doomed, DeleteBlob(b) PROVE RunTypes'
    <3>1. gc'.pc = "row" /\ gc'.from = gc.from /\ gc'.blob = b BY <2>7 DEF DeleteBlob, GCType
    <3> QED BY <2>7, <3>1 DEF DeleteBlob
  <2>8. ASSUME NEW b \in gc.doomed, DeleteFails(b) PROVE RunTypes'
    <3>1. gc'.pc = "delete" /\ gc'.from = gc.from BY <2>8 DEF DeleteFails, GCType
    <3> QED BY <2>8, <3>1 DEF DeleteFails, Alerted
  <2>9. ASSUME NEW outcome \in {"written", "refused", "thrown"}, AuditRow(outcome) PROVE RunTypes'
    <3>1. gc'.pc = "delete" /\ gc'.from = gc.from BY <2>9 DEF AuditRow, NextBlob, GCType
    <3>2. /\ rows' \subseteq rows \cup {gc.blob} /\ alerts' \subseteq alerts \cup {gc.blob}
          /\ gone' = gone /\ gc.blob \in gone /\ gc.pc = "row"
      BY <2>9 DEF AuditRow, Alerted
    <3>3. gc.from = 0 /\ rows' \subseteq gone' /\ alerts' \subseteq Blobs BY <3>2
    <3> QED BY <3>1, <3>2, <3>3
  <2> QED BY <1>8, <2>1, <2>2, <2>3, <2>4, <2>5, <2>6, <2>7, <2>8, <2>9 DEF GCStep, GCFault
<1>9. CASE TaskStep BY <1>0, <1>8, <1>9 DEF TaskStep, gcVars, run
<1>10. CASE Failure BY <1>0, <1>8, <1>10, ProjectLeaves DEF Failure, gcVars, run
<1> QED BY <1>1, <1>5, <1>6, <1>7, <1>9, <1>10 DEF Next

(* A task runs only for the alarm that started it. *)
LEMMA OneTaskStep ==
  ASSUME gc \in GCType, rep \in RepType, KnowsKind, OneTask,
         fire \in [pc : {"idle"} \cup Kinds, age : 0 .. TaskMax],
         [Next]_vars
  PROVE  OneTask'
<1> USE DEF OneTask, GCAt, RepAt, FireAt
<1>0. ASSUME UNCHANGED fire, gc'.pc = "idle" <=> gc.pc = "idle", rep'.pc = "idle" <=> rep.pc = "idle"
      PROVE  OneTask'
  BY <1>0
<1>1. CASE UNCHANGED vars BY <1>0, <1>1 DEF vars, gcVars, run, repVars, schedVars
<1>2. ASSUME GCStep(fire.age) \/ GCFault PROVE gc.pc # "idle" /\ gc'.pc # "idle"
  <2>1. [GCIdle EXCEPT !.pc = "done"].pc = "done" BY GCIdleType DEF GCType
  <2>2. gc.pc # "idle"
    BY <1>2 DEF GCStep, GCFault, ReadPointer, ReadManifest, List, Judged, GCEnds, CheckEscrow,
        DeleteBlob, AuditRow,
       GCThrows, DeleteFails
  <2>3. CASE ReadPointer \/ ReadManifest \/ List(fire.age)
    BY <2>3 DEF ReadPointer, ReadManifest, List, GCType
  <2>4. CASE Judged BY <2>1, <2>4 DEF Judged, GCType
  <2>5. CASE GCEnds \/ GCThrows BY <2>1, <2>5 DEF GCEnds, GCThrows
  <2>6. ASSUME NEW b \in gc.todo, NEW seen \in BOOLEAN, CheckEscrow(b, seen) PROVE gc'.pc # "idle"
    BY <2>6 DEF CheckEscrow, GCType
  <2>7. ASSUME NEW b \in gc.doomed, DeleteBlob(b) \/ DeleteFails(b) PROVE gc'.pc # "idle"
    BY <2>7 DEF DeleteBlob, DeleteFails, GCType
  <2>8. ASSUME NEW outcome \in {"written", "refused", "thrown"}, AuditRow(outcome) PROVE gc'.pc # "idle"
    BY <2>8 DEF AuditRow, NextBlob, GCType
  <2> QED BY <1>2, <2>2, <2>3, <2>4, <2>5, <2>6, <2>7, <2>8 DEF GCStep, GCFault
<1>3. ASSUME \/ RepStep \/ RepListFails
             \/ \E s \in rep.todo : RepGetFails(s)
             \/ \E landed \in BOOLEAN : RepFault(landed)
      PROVE  rep.pc # "idle" /\ rep'.pc # "idle"
  <2>1. [RepIdle EXCEPT !.pc = "done"].pc = "done" BY RepIdleType DEF RepType
  <2>2. NextState => rep'.pc = "get" BY NextStateDoes
  <2>3. CASE Anchor BY <2>3 DEF Anchor, RepType
  <2>4. CASE HeadSnapshot BY <2>2, <2>4 DEF HeadSnapshot, RepType
  <2>5. CASE PutSnapshot BY <2>5 DEF PutSnapshot, RepType
  <2>6. CASE PutSnapshotEvent \/ \E landed \in BOOLEAN : RepFault(landed)
    BY <2>2, <2>6 DEF PutSnapshotEvent, RepFault
  <2>7. CASE RepEnds \/ RepListFails BY <2>1, <2>7 DEF RepEnds, RepListFails
  <2>8. CASE \E found \in SUBSET States : ListStates(found) BY <2>8 DEF ListStates, RepType
  <2>9. ASSUME NEW s \in rep.todo, NEW content \in Contents \cup {NoState}, GetState(s, content)
        PROVE  rep.pc # "idle" /\ rep'.pc # "idle"
    BY <2>9 DEF GetState, RepType
  <2>10. CASE \E s \in rep.todo : RepGetFails(s) BY <2>10 DEF RepGetFails, RepType
  <2> QED BY <1>3, <2>3, <2>4, <2>5, <2>6, <2>7, <2>8, <2>9, <2>10 DEF RepStep
<1>4. CASE Arm \/ AlarmOff BY <1>0, <1>4 DEF Arm, AlarmOff, gcVars, run, repVars
<1>5. CASE Project
  BY <1>0, <1>5, ProjectLeaves DEF Project, repVars, schedVars
<1>6. CASE TaskStep
  <2>1. CASE GCStep(fire.age) /\ UNCHANGED <<repVars, schedVars>>
    BY <1>0, <1>2, <2>1 DEF repVars, schedVars
  <2>2. CASE RepStep /\ UNCHANGED <<gcVars, schedVars>>
    BY <1>0, <1>3, <2>2 DEF gcVars, run, schedVars
  <2> QED BY <1>6, <2>1, <2>2 DEF TaskStep
<1>7. CASE Failure
  <2>1. CASE GCFault /\ UNCHANGED <<repVars, schedVars>> BY <1>0, <1>2, <2>1 DEF repVars, schedVars
  <2>2. CASE PurgeBegins /\ UNCHANGED <<repVars, schedVars>>
    BY <1>0, <2>2, ProjectLeaves DEF repVars, schedVars
  <2>3. CASE /\ \/ RepListFails
                \/ \E s \in rep.todo : RepGetFails(s)
                \/ \E landed \in BOOLEAN : RepFault(landed)
             /\ UNCHANGED <<gcVars, schedVars>>
    BY <1>0, <1>3, <2>3 DEF gcVars, run, schedVars
  <2> QED BY <1>7, <2>1, <2>2, <2>3 DEF Failure
<1>8. CASE Tick
  <2>1. fire'.pc = fire.pc BY <1>8 DEF Tick
  <2> QED BY <1>8, <2>1 DEF Tick, run, repVars
<1>9. CASE Rearm \/ \E deploy \in BOOLEAN : Crash(deploy)
  BY <1>9, GCIdleType, RepIdleType DEF Rearm, Crash, FireIdle
<1>10. CASE AlarmFires
  <2>1. pending \in Kinds /\ fire'.pc = pending /\ gc.pc = "idle" /\ rep.pc = "idle"
    BY <1>10, Constants DEF AlarmFires, KnowsKind, FireIdle
  <2>2. CASE pending = "weekly"
    <3>1. gc' = [GCIdle EXCEPT !.pc = "pointer", !.dry = Dry] /\ rep' = rep
      BY <1>10, <2>2 DEF AlarmFires, GCStarts, repVars
    <3>2. gc'.pc = "pointer" BY <3>1, GCIdleType DEF GCType
    <3> QED BY <2>1, <2>2, <3>1, <3>2
  <2>3. CASE pending = "nightly"
    <3>1. rep' = [RepIdle EXCEPT !.pc = "anchor"] /\ gc' = gc
      BY <1>10, <2>3 DEF AlarmFires, RepStarts, gcVars, run
    <3>2. rep'.pc = "anchor" BY <3>1, RepIdleType DEF RepType
    <3> QED BY <2>1, <2>3, <3>1, <3>2
  <2> QED BY <2>1, <2>2, <2>3 DEF Kinds
<1> QED BY <1>1, <1>4, <1>5, <1>6, <1>7, <1>8, <1>9, <1>10 DEF Next

(* Switches and stored kind keep their types. *)
LEMMA SwitchesStep == ASSUME Switches, ArmedInv, [Next]_vars PROVE Switches'
<1> USE DEF Switches
<1>0. ASSUME UNCHANGED <<enabled, on, pending>> PROVE Switches' BY <1>0
<1>1. ArmNext => pending' \in Kinds BY DEF ArmNext, ComputeNextFire, Kinds
<1>2. CASE UNCHANGED vars BY <1>0, <1>2 DEF vars, gcVars, project, schedVars
<1>3. CASE Arm \/ Rearm BY <1>1, <1>3 DEF Arm, Rearm, gcVars, project
<1>4. CASE AlarmOff BY <1>0, <1>4 DEF AlarmOff, gcVars, project
<1>5. CASE AlarmFires BY <1>0, <1>5 DEF AlarmFires, gcVars, project
<1>6. ASSUME GCStep(fire.age) \/ GCFault PROVE UNCHANGED enabled
  BY <1>6 DEF GCStep, GCFault, ReadPointer, ReadManifest, List, Judged, GCEnds, CheckEscrow, DeleteBlob,
      AuditRow,
     GCThrows, DeleteFails, project
<1>7. CASE TaskStep BY <1>0, <1>6, <1>7 DEF TaskStep, gcVars, project, schedVars
<1>8. CASE Failure BY <1>0, <1>6, <1>8, ProjectLeaves DEF Failure, gcVars, project, schedVars
<1>9. ASSUME NEW deploy \in BOOLEAN, Crash(deploy) PROVE Switches'
  <2>1. on' \in BOOLEAN BY <1>9 DEF Crash
  <2> QED BY <1>9, <2>1 DEF Crash, project
<1>10. CASE Project
  BY <1>0, <1>10, ProjectLeaves DEF Project, schedVars
<1>11. CASE Tick
  <2>1. enabled' \in 0 .. DryRun \cup {None}
    <3>1. DryRun \in Nat BY CollectorAssumption
    <3> QED BY <1>11, <3>1, Constants DEF Tick, Age, Older
  <2> QED BY <1>11, <2>1 DEF Tick
<1> QED BY <1>2, <1>3, <1>4, <1>5, <1>7, <1>8, <1>9, <1>10, <1>11 DEF Next

(* Every variable keeps its type, one task runs at a time, and no gc.delete
   row tells of a blob that was not deleted. *)
THEOREM SpecTypeOK == Spec => []TypeOK
<1> DEFINE All == /\ CollectorInv /\ KnowsKind /\ ArmedInv /\ ReplicationInv
                  /\ RunTypes /\ OneTask /\ Switches
<1>1. Init => All
  <2> SUFFICES ASSUME Init PROVE All OBVIOUS
  <2>1. CollectorInv /\ KnowsKind BY CollectorStarts
  <2>2. ArmedInv BY Calendar, Constants DEF Init, ArmedInv
  <2>3. ReplicationInv BY RepIdleType DEF Init, RepInit, ReplicationInv
  <2>4. gc = GCIdle /\ rep = RepIdle /\ fire = FireIdle /\ gone = {} /\ rows = {} /\ alerts = {}
    BY DEF Init, GCInit, RepInit
  <2>5. RunTypes BY <2>4, GCIdleType DEF RunTypes, GCIdle, GCAt
  <2>6. OneTask BY <2>4, GCIdleType, RepIdleType DEF OneTask, GCAt, RepAt, FireAt, FireIdle
  <2>7. DryRun \in Nat BY CollectorAssumption
  <2>8. Switches BY <2>7 DEF Init, GCInit, Switches
  <2> QED BY <2>1, <2>2, <2>3, <2>5, <2>6, <2>8
<1>2. All /\ [Next]_vars => All'
  <2> SUFFICES ASSUME All, [Next]_vars PROVE All' OBVIOUS
  <2>1. gc \in GCType /\ fire \in [pc : {"idle"} \cup Kinds, age : 0 .. TaskMax] /\ rep \in RepType
    BY DEF CollectorInv, TaskTypes, ReplicationInv
  <2>2. gc.todo \cup gc.doomed \subseteq Blobs BY <2>1 DEF GCType
  <2> QED BY <2>1, <2>2, CollectorStep, ArmedStep, ReplicationStep, RunTypesStep, OneTaskStep, SwitchesStep
<1>3. All => TypeOK
  <2> SUFFICES ASSUME All PROVE TypeOK OBVIOUS
  <2>1. GCAt("manifest") <=> gc.from \in 1 .. gc.to
    <3>1. 0 \notin 1 .. gc.to OBVIOUS
    <3> QED BY <3>1 DEF CollectorInv, TaskTypes, RunTypes
  <2>2. /\ GCAt("idle") \/ RepAt("idle")
        /\ FireAt("idle") <=> GCAt("idle") /\ RepAt("idle")
    BY DEF OneTask, FireAt
  <2> QED BY <2>1, <2>2 DEF TypeOK, CollectorInv, ProjectTypes, WrType, TaskTypes, GCType, RunTypes, Switches,
      ArmedInv
<1> QED BY <1>1, <1>2, <1>3, PTL DEF Spec
=============================================================================
