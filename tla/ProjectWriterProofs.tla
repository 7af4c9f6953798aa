------------------------ MODULE ProjectWriterProofs ------------------------
(***************************************************************************)
(* Theorems about ProjectWriter, for every set of keys and requests and    *)
(* every number of commits, failures, KEK rotations and deletions: the     *)
(* pointer only ever moves to the next epoch of the history it names, and  *)
(* the ledger accounts for it truthfully.  What the four parts of          *)
(* WriterInv say of the running commit, they also say of the writes a dead *)
(* one left in R2: a late CAS carries the condition it was sent with, and  *)
(* the id of a commit that nothing was, or will be, said about.            *)
(***************************************************************************)
EXTENDS ProjectWriter, SequenceTheorems, TLAPS

(***************************************************************************)
(* Chains.                                                                 *)
(***************************************************************************)
LEMMA AppendChain ==
  ASSUME NEW s \in Seq(Nat), NEW id \in Nat
  PROVE  /\ Append(s, id) \in Seq(Nat)
         /\ Len(Append(s, id)) = Len(s) + 1
         /\ Append(s, id) # <<>>
         /\ Last(Append(s, id)) = id
         /\ IsPrefix(s, Append(s, id))
<1>1. /\ Append(s, id) \in Seq(Nat)
      /\ Len(Append(s, id)) = Len(s) + 1
      /\ \A n \in 1 .. Len(s) : Append(s, id)[n] = s[n]
      /\ Append(s, id)[Len(s) + 1] = id
      /\ Len(s) \in Nat
  BY AppendProperties, LenProperties
<1>2. Append(s, id) # <<>>
  BY <1>1, EmptySeq
<1>3. SubSeq(s, 1, Len(s)) = s
  BY SubSeqFull
<1>4. SubSeq(Append(s, id), 1, Len(s)) = s
  <2> DEFINE t == Append(s, id)
  <2>1. \A n \in 1 .. Len(s) : t[n] \in Nat
    BY <1>1, ElementOfSeq
  <2>2. /\ SubSeq(t, 1, Len(s)) \in Seq(Nat)
        /\ Len(SubSeq(t, 1, Len(s))) = IF 1 <= Len(s) THEN Len(s) - 1 + 1 ELSE 0
        /\ \A n \in 1 .. Len(s) - 1 + 1 : SubSeq(t, 1, Len(s))[n] = t[1 + n - 1]
    BY <2>1, <1>1, SubSeqProperties
  <2> QED BY <2>2, <1>1, SeqEqual
<1> QED BY <1>1, <1>2, <1>3, <1>4 DEF Last, IsPrefix

(* The chain of a commit whose manifest is made. *)
LEMMA CommitChain ==
  ASSUME Shape, pc # "idle"
  PROVE  /\ c.id \in 1 .. tries
         /\ Append(c.prev, c.id) \in Seq(Nat)
         /\ Append(c.prev, c.id) # <<>>
         /\ Last(Append(c.prev, c.id)) = c.id
         /\ pc \in Built => c.chain = Append(c.prev, c.id)
BY AppendChain DEF Shape, CommitShape

(* The chain of a CAS a dead commit left behind. *)
LEMMA LateChain ==
  ASSUME Shape, NEW w \in LateCas
  PROVE  /\ w.prev \in Seq(Nat)
         /\ w.chain = Append(w.prev, Last(w.chain))
         /\ Last(w.chain) \in 1 .. tries
         /\ w.chain \in Seq(Nat) /\ w.chain # <<>>
<1>1. PICK id \in 1 .. tries : w.prev \in Seq(Nat) /\ w.chain = Append(w.prev, id)
  BY DEF Shape, LateShape
<1>2. id \in Nat
  BY DEF Shape, CommitShape
<1> QED BY <1>1, <1>2, AppendChain
-----------------------------------------------------------------------------
(***************************************************************************)
(* Initially.                                                              *)
(***************************************************************************)
LEMMA InitWriterInv == Init => WriterInv
<1> SUFFICES ASSUME Init PROVE WriterInv
  OBVIOUS
<1> USE DEF Init, LateCas, NoCommit, NoAlarm, Drains, Built, Announced, BeforeCas, AfterCas
<1>1. Shape
  BY DEF Shape, CommitShape, LateShape, AlarmShape
<1>2. Truth
  BY DEF Truth, Denied
<1>3. Account
  BY DEF Account, AckedAccounted
<1>4. Attempts
  BY DEF Attempts, AttemptFirst
<1>5. Armed
  BY DEF Armed, PendingIsArmed
<1> QED BY <1>1, <1>2, <1>3, <1>4, <1>5 DEF WriterInv
-----------------------------------------------------------------------------
(***************************************************************************)
(* Shape, action by action.                                                *)
(***************************************************************************)
LEMMA StepCommitShape ==
  ASSUME Shape, [Next]_vars
  PROVE  CommitShape'
<1> USE DEF CommitShape, Goto, NoCommit, Built, Announced, BeforeCas, AfterCas
<1>0. CommitShape
  BY DEF Shape
<1>1. ASSUME UNCHANGED <<current, pc, c, tries>> PROVE CommitShape'
  BY <1>0, <1>1
<1>2. ASSUME NEW r \in Requests, Begin(r) PROVE CommitShape'
  <2>1. /\ c' = [id |-> tries', req |-> r, prev |-> current, chain |-> <<>>,
                 entries |-> <<>>, todo |-> {}]
        /\ tries' = tries + 1 /\ pc' = "manifest" /\ current' = current
    BY <1>2 DEF Begin, r2
  <2> QED BY <1>0, <2>1
<1>3. CASE ReadManifest
  <2>1. UNCHANGED <<current, tries>>
    BY <1>3 DEF ReadManifest, r2, observed
  <2>2. ASSUME Prepare(PrevEntries) PROVE CommitShape'
    <3>1. pc = "manifest" /\ pc' = "attempt"
      BY <1>3, <2>2 DEF ReadManifest, Prepare
    <3>2. c' = [c EXCEPT !.chain = Append(c.prev, c.id),
                         !.entries = Apply(PrevEntries, c.req, c.id),
                         !.todo = NewBlobs(c.req, c.id)]
      BY <2>2 DEF Prepare
    <3> QED BY <1>0, <2>1, <3>1, <3>2
  <2>3. ASSUME RewrapNoop(PrevEntries) PROVE CommitShape'
    BY <1>0, <2>1, <2>3 DEF RewrapNoop
  <2> QED BY <1>3, <2>2, <2>3 DEF ReadManifest
<1>4. ASSUME Refuse PROVE CommitShape'
  BY <1>0, <1>4 DEF Refuse, r2, observed
<1>5. CASE Attempt
  BY <1>0, <1>5 DEF Attempt, r2, observed
<1>6. CASE AttemptFails
  BY <1>0, <1>6 DEF AttemptFails, r2
<1>7. CASE PutBlob
  <2>1. PICK b \in c.todo : c' = [c EXCEPT !.todo = @ \ {b}]
    BY <1>7 DEF PutBlob
  <2>2. UNCHANGED <<current, tries>> /\ pc = "blobs" /\ pc' \in {"blobs", "slot"}
    BY <1>7 DEF PutBlob, observed
  <2> QED BY <1>0, <2>1, <2>2
<1>8. CASE PutManifest
  BY <1>0, <1>8 DEF PutManifest, observed
<1>9. CASE MovePointer
  <2>1. current' = c.chain /\ UNCHANGED <<c, tries>> /\ pc = "cas" /\ pc' = "outcome"
    BY <1>9 DEF MovePointer, SwapPointer
  <2>2. c.chain \in Seq(Nat)
    BY <2>1, CommitChain
  <2> QED BY <1>0, <2>1, <2>2
<1>10. CASE Outcome
  BY <1>0, <1>10 DEF Outcome, r2
<1>11. CASE PointerEvent
  BY <1>0, <1>11 DEF PointerEvent
<1>12. CASE Reply
  BY <1>0, <1>12 DEF Reply, r2
<1>13. CASE Alarm
  BY <1>1, <1>13 DEF Alarm, AlarmFires, AlarmPutEvent, AlarmDropEvent, AlarmListOutcomes,
                     AlarmAppendOutcome, AlarmDropOutcome, AlarmDropRefused, AlarmAlerts,
                     AlarmEnds, r2, observed
<1>14. ASSUME Die PROVE CommitShape'
  BY <1>0, <1>14 DEF Die
<1>15. CASE LandLate
  <2>1. UNCHANGED <<pc, c, tries>>
    BY <1>15 DEF LandLate
  <2>2. current' = current \/ \E w \in LateCas : current' = w.chain
    BY <1>15 DEF LandLate, SwapPointer, LateCas
  <2>3. current' \in Seq(Nat)
    BY <1>0, <2>2, LateChain
  <2> QED BY <1>0, <2>1, <2>3
<1>16. CASE Purge
  <2>1. UNCHANGED <<pc, c, tries>> /\ (current' = current \/ current' = <<>>)
    BY <1>16 DEF Purge, PurgeBegins, PurgeLists, PurgeDeletes, PurgeEnds, PurgeDies, r2, observed
  <2>2. current' \in Seq(Nat)
    BY <1>0, <2>1, EmptySeq
  <2> QED BY <1>0, <2>1, <2>2
<1>17. CASE UNCHANGED vars
  BY <1>1, <1>17 DEF vars, r2, observed
<1> QED BY <1>2, <1>3, <1>4, <1>5, <1>6, <1>7, <1>8, <1>9, <1>10, <1>11, <1>12, <1>13, <1>14,
           <1>15, <1>16, <1>17
        DEF Next, Commit, RefuseRequest, SlotTaken, CasLost, Crash, Deploy

(* What a commit that dies has sent. *)
LEMMA SentWrites ==
  ASSUME NEW w \in Sent
  PROVE  \/ pc = "blobs" /\ w \in [kind : {"blob"}, blob : c.todo]
         \/ pc = "slot" /\ w = [kind |-> "manifest", manifest |-> Manifest]
         \/ pc = "cas" /\ w = [kind |-> "current", prev |-> c.prev, chain |-> c.chain]
         \/ pc = "event" /\ w = [kind |-> "event", event |-> c.chain]
<1>1. CASE pc = "blobs"
  BY <1>1 DEF Sent
<1>2. CASE pc = "slot"
  BY <1>2 DEF Sent
<1>3. CASE pc = "cas"
  BY <1>3 DEF Sent
<1>4. CASE pc = "event"
  BY <1>4 DEF Sent
<1>5. CASE pc \notin {"blobs", "slot", "cas", "event"}
  BY <1>5 DEF Sent
<1> QED BY <1>1, <1>2, <1>3, <1>4, <1>5

(* Only an object that dies leaves a CAS behind: that of the commit at "cas". *)
LEMMA LeftBehind ==
  ASSUME Die, NEW w \in LateCas', w \notin LateCas
  PROVE  pc = "cas" /\ w.prev = c.prev /\ w.chain = c.chain
<1>1. w \in Sent /\ w.kind = "current"
  BY DEF Die, LateCas
<1> QED BY <1>1, SentWrites

LEMMA NoneLeftBehind ==
  ASSUME [Next]_vars, ~Die
  PROVE  limbo' \subseteq limbo
<1>1. CASE Commit
  BY <1>1 DEF Commit, ReadManifest, RefuseRequest, Attempt, AttemptFails, PutBlob, PutManifest,
              SlotTaken, MovePointer, CasLost, Outcome, PointerEvent, Reply, Refuse, r2
<1>2. CASE Alarm
  BY <1>2 DEF Alarm, AlarmFires, AlarmPutEvent, AlarmDropEvent, AlarmListOutcomes,
              AlarmAppendOutcome, AlarmDropOutcome, AlarmDropRefused, AlarmAlerts, AlarmEnds, r2
<1>3. CASE LandLate
  BY <1>3 DEF LandLate
<1>4. CASE Purge
  BY <1>4 DEF Purge, PurgeBegins, PurgeLists, PurgeDeletes, PurgeEnds, PurgeDies, r2
<1>5. CASE UNCHANGED vars \/ \E r \in Requests : Begin(r)
  BY <1>5 DEF Begin, vars, r2
<1> QED BY <1>1, <1>2, <1>3, <1>4, <1>5 DEF Next, Crash, Deploy

(* Only a commit that begins takes an id. *)
LEMMA TriesGrow ==
  ASSUME Shape, [Next]_vars
  PROVE  tries' \in Nat /\ tries <= tries'
<1>0. tries \in Nat
  BY DEF Shape, CommitShape
<1>1. tries' = tries \/ tries' = tries + 1
  BY DEF Next, Begin, Commit, ReadManifest, RefuseRequest, Attempt, AttemptFails, PutBlob,
         PutManifest, SlotTaken, MovePointer, CasLost, Outcome, PointerEvent, Reply, Refuse,
         Alarm, AlarmFires, AlarmPutEvent, AlarmDropEvent, AlarmListOutcomes, AlarmAppendOutcome,
         AlarmDropOutcome, AlarmDropRefused, AlarmAlerts,
         AlarmEnds, Crash, Deploy, Die, LandLate, Purge, PurgeBegins,
         PurgeLists, PurgeDeletes, PurgeEnds, PurgeDies, vars, observed
<1> QED BY <1>0, <1>1

LEMMA StepLateShape ==
  ASSUME Shape, [Next]_vars
  PROVE  LateShape'
<1>1. tries \in Nat /\ tries' \in Nat /\ tries <= tries' /\ LateShape
  BY TriesGrow DEF Shape, CommitShape
<1>2. CASE ~Die
  <2>1. LateCas' \subseteq LateCas
    BY <1>2, NoneLeftBehind DEF LateCas
  <2> QED BY <1>1, <2>1 DEF LateShape
<1>3. CASE Die
  <2>1. pc = "cas" => c.prev \in Seq(Nat) /\ c.id \in 1 .. tries /\ c.chain = Append(c.prev, c.id)
    BY DEF Shape, CommitShape, Built, Announced
  <2> SUFFICES ASSUME NEW w \in LateCas'
               PROVE  /\ w.prev \in Seq(Nat)
                      /\ \E id \in 1 .. tries' : w.chain = Append(w.prev, id)
    BY DEF LateShape
  <2>2. CASE w \in LateCas
    BY <1>1, <2>2 DEF LateShape
  <2>3. CASE w \notin LateCas
    <3>1. pc = "cas" /\ w.prev = c.prev /\ w.chain = c.chain
      BY <1>3, <2>3, LeftBehind
    <3>2. c.id \in 1 .. tries'
      BY <1>1, <2>1, <3>1
    <3> QED BY <2>1, <3>1, <3>2
  <2> QED BY <2>2, <2>3
<1> QED BY <1>2, <1>3

LEMMA StepAlarmShape ==
  ASSUME Shape, [Next]_vars
  PROVE  AlarmShape'
<1>0. AlarmShape
  BY DEF Shape
<1>1. ASSUME UNCHANGED alarmHandler PROVE AlarmShape'
  BY <1>0, <1>1 DEF AlarmShape, alarmHandler
<1>2. CASE AlarmFires \/ AlarmListOutcomes \/ AlarmEnds
  BY <1>0, <1>2 DEF AlarmFires, AlarmListOutcomes, AlarmEnds, AlarmShape, NoAlarm, Drains
<1>3. CASE AlarmPutEvent \/ AlarmAppendOutcome
  BY <1>0, <1>3 DEF AlarmPutEvent, AlarmAppendOutcome, AlarmShape, Drains
<1>4. CASE AlarmDropEvent \/ AlarmDropOutcome
  BY <1>0, <1>4 DEF AlarmDropEvent, AlarmDropOutcome, AlarmShape
<1>8. CASE AlarmDropRefused \/ AlarmAlerts
  BY <1>0, <1>8 DEF AlarmDropRefused, AlarmAlerts, AlarmShape, Drains
<1>5. CASE Crash \/ Deploy
  BY <1>0, <1>5 DEF Crash, Deploy, Die, AlarmShape, NoAlarm
<1>6. CASE Commit
  BY <1>1, <1>6
     DEF Commit, ReadManifest, RefuseRequest, Attempt, AttemptFails, PutBlob, PutManifest,
         SlotTaken, MovePointer, CasLost, Outcome, PointerEvent, Reply, Refuse
<1>7. CASE LandLate \/ Purge \/ UNCHANGED vars \/ \E r \in Requests : Begin(r)
  BY <1>1, <1>7 DEF LandLate, Purge, PurgeBegins, PurgeLists, PurgeDeletes, PurgeEnds, PurgeDies,
                    Begin, vars
<1> QED BY <1>2, <1>3, <1>4, <1>5, <1>6, <1>7, <1>8 DEF Next, Alarm

LEMMA StepShape ==
  ASSUME Shape, [Next]_vars
  PROVE  Shape'
BY StepCommitShape, StepLateShape, StepAlarmShape DEF Shape
-----------------------------------------------------------------------------
(***************************************************************************)
(* The pointer.                                                            *)
(***************************************************************************)
(* The pointer is written by three actions; the commit's CAS and a late one
   append to what they found. *)
LEMMA PointerSteps ==
  ASSUME Shape, [Next]_vars, current' # current
  PROVE  current' = <<>> \/ (Len(current') = Len(current) + 1 /\ IsPrefix(current, current'))
<1>1. MovePointer \/ LandLate \/ PurgeDeletes
  BY DEF Next, Begin, Commit, ReadManifest, RefuseRequest, Attempt, AttemptFails, PutBlob,
         PutManifest, SlotTaken, CasLost, Outcome, PointerEvent, Reply, Refuse,
         Alarm, AlarmFires, AlarmPutEvent, AlarmDropEvent, AlarmListOutcomes, AlarmAppendOutcome,
         AlarmDropOutcome, AlarmDropRefused, AlarmAlerts,
         AlarmEnds, Crash, Deploy, Die, Purge, PurgeBegins,
         PurgeLists, PurgeEnds, PurgeDies, vars, r2
<1>2. CASE MovePointer
  <2>1. pc = "cas" /\ current = c.prev /\ current' = c.chain
    BY <1>2 DEF MovePointer, SwapPointer
  <2>2. c.prev \in Seq(Nat) /\ c.id \in Nat /\ c.chain = Append(c.prev, c.id)
    BY <2>1 DEF Shape, CommitShape, Built, Announced
  <2> QED BY <2>1, <2>2, AppendChain
<1>3. CASE LandLate
  <2>1. PICK w \in LateCas : current = w.prev /\ current' = w.chain
    BY <1>3 DEF LandLate, SwapPointer, LateCas
  <2>2. w.prev \in Seq(Nat) /\ Last(w.chain) \in Nat /\ w.chain = Append(w.prev, Last(w.chain))
    BY LateChain DEF Shape, CommitShape
  <2> QED BY <2>1, <2>2, AppendChain
<1>4. CASE PurgeDeletes
  BY <1>4 DEF PurgeDeletes
<1> QED BY <1>1, <1>2, <1>3, <1>4
-----------------------------------------------------------------------------
(***************************************************************************)
(* The ledger and the alerts.                                              *)
(***************************************************************************)
(* What a step may add to the ledger and to the committed chains, and from
   where. *)
LEMMA LedgerSteps ==
  ASSUME Shape, [Next]_vars, NEW row \in ledger', row \notin ledger
  PROVE  \/ row.what = "deny" /\ pc \in BeforeCas /\ row.chain = Append(c.prev, c.id) /\ Refuse
         \/ row.what = "attempt" /\ pc = "attempt" /\ row.chain = c.chain
         \/ row.what = "outcome" /\ pc = "outcome" /\ row.chain = c.chain
         \/ row.what = "outcome" /\ apc = "outcomes" /\ row.chain \in al.todo
         \/ row.what = "project.delete"
<1> USE DEF audit
<1>1. CASE RefuseRequest \/ SlotTaken \/ CasLost
  BY <1>1 DEF RefuseRequest, SlotTaken, CasLost, Refuse, BeforeCas
<1>2. CASE Attempt \/ AttemptFails
  BY <1>2 DEF Attempt, AttemptFails
<1>3. CASE Outcome
  BY <1>3 DEF Outcome, OutcomeRow
<1>4. CASE AlarmAppendOutcome
  BY <1>4 DEF AlarmAppendOutcome, OutcomeRow
<1>5. CASE PurgeBegins
  BY <1>5 DEF PurgeBegins
<1>6. ledger' = ledger \/ RefuseRequest \/ SlotTaken \/ CasLost \/ Attempt \/ AttemptFails
      \/ Outcome \/ AlarmAppendOutcome \/ PurgeBegins
  BY DEF Next, Begin, Commit, ReadManifest, PutBlob, PutManifest, MovePointer, PointerEvent, Reply,
         Alarm, AlarmFires, AlarmPutEvent, AlarmDropEvent, AlarmListOutcomes,
         AlarmDropOutcome, AlarmDropRefused, AlarmAlerts,
         AlarmEnds, Crash, Deploy, Die, LandLate, Purge,
         PurgeLists, PurgeDeletes, PurgeEnds, PurgeDies, vars
<1> QED BY <1>1, <1>2, <1>3, <1>4, <1>5, <1>6

LEMMA CommittedSteps ==
  ASSUME Shape, [Next]_vars
  PROVE  \/ committed' = committed
         \/ MovePointer /\ pc = "cas" /\ committed' = committed \cup {c.chain}
         \/ LandLate /\ \E w \in LateCas : committed' = committed \cup {w.chain}
<1> USE DEF observed
<1>1. committed' = committed \/ MovePointer \/ LandLate
  BY DEF Next, Begin, Commit, ReadManifest, RefuseRequest, Attempt, AttemptFails, PutBlob,
         PutManifest, SlotTaken, CasLost, Outcome, PointerEvent, Reply, Refuse,
         Alarm, AlarmFires, AlarmPutEvent, AlarmDropEvent, AlarmListOutcomes, AlarmAppendOutcome,
         AlarmDropOutcome, AlarmDropRefused, AlarmAlerts,
         AlarmEnds, Crash, Deploy, Die, Purge, PurgeBegins,
         PurgeLists, PurgeDeletes, PurgeEnds, PurgeDies, vars
<1>2. CASE MovePointer
  BY <1>2 DEF MovePointer, SwapPointer
<1>3. CASE LandLate
  BY <1>3 DEF LandLate, SwapPointer, LateCas
<1> QED BY <1>1, <1>2, <1>3

(* Rows, refusals and alerts are never taken back. *)
LEMMA LedgerGrows ==
  ASSUME [Next]_vars
  PROVE  ledger \subseteq ledger' /\ refused \subseteq refused' /\ alerts \subseteq alerts'
BY DEF Next, Begin, Commit, ReadManifest, RefuseRequest, Attempt, AttemptFails, PutBlob,
       PutManifest, SlotTaken, MovePointer, CasLost, Outcome, PointerEvent, Reply, Refuse,
       Alarm, AlarmFires, AlarmPutEvent, AlarmDropEvent, AlarmListOutcomes, AlarmAppendOutcome,
       AlarmDropOutcome, AlarmDropRefused, AlarmAlerts,
       AlarmEnds, Crash, Deploy, Die, LandLate, Purge, PurgeBegins,
       PurgeLists, PurgeDeletes, PurgeEnds, PurgeDies, vars, audit
-----------------------------------------------------------------------------
(***************************************************************************)
(* The running commit and the alarm handler.                               *)
(***************************************************************************)
(* A commit begins, goes on to its CAS, passes it, goes on, or ends. *)
LEMMA CommitSteps ==
  ASSUME Shape, [Next]_vars
  PROVE  \/ UNCHANGED <<pc, c>>
         \/ pc = "idle" /\ pc' = "manifest" /\ c'.id = tries + 1
         \/ pc \in BeforeCas /\ pc' \in BeforeCas /\ c'.id = c.id
         \/ MovePointer /\ pc = "cas" /\ pc' = "outcome" /\ c' = c
         \/ pc \in AfterCas /\ pc' \in AfterCas /\ c' = c
         \/ pc' = "idle"
<1> USE DEF BeforeCas, AfterCas, Goto
<1>1. ASSUME NEW r \in Requests, Begin(r)
      PROVE  pc = "idle" /\ pc' = "manifest" /\ c'.id = tries + 1
  BY <1>1 DEF Begin, NoCommit
<1>2. CASE ReadManifest
  <2>1. pc = "manifest" /\ (Prepare(PrevEntries) \/ RewrapNoop(PrevEntries))
    BY <1>2 DEF ReadManifest
  <2>2. CASE Prepare(PrevEntries)
    BY <2>1, <2>2 DEF Prepare, Shape, CommitShape
  <2>3. CASE RewrapNoop(PrevEntries)
    BY <2>3 DEF RewrapNoop
  <2> QED BY <2>1, <2>2, <2>3
<1>3. CASE PutBlob
  <2>1. PICK b \in c.todo : c' = [c EXCEPT !.todo = @ \ {b}]
    BY <1>3 DEF PutBlob
  <2>2. c'.id = c.id
    BY <2>1 DEF Shape, CommitShape
  <2> QED BY <1>3, <2>2 DEF PutBlob
<1>4. CASE RefuseRequest \/ SlotTaken \/ CasLost \/ AttemptFails \/ Reply \/ Crash \/ Deploy
  BY <1>4 DEF RefuseRequest, SlotTaken, CasLost, Refuse, AttemptFails, Reply, Crash, Deploy, Die
<1>5. CASE Attempt \/ PutManifest
  BY <1>5 DEF Attempt, PutManifest
<1>6. CASE MovePointer
  BY <1>6 DEF MovePointer
<1>7. CASE Outcome \/ PointerEvent
  BY <1>7 DEF Outcome, PointerEvent
<1>8. CASE Alarm \/ LandLate \/ Purge \/ UNCHANGED vars
  BY <1>8 DEF Alarm, AlarmFires, AlarmPutEvent, AlarmDropEvent, AlarmListOutcomes,
              AlarmAppendOutcome, AlarmDropOutcome, AlarmDropRefused, AlarmAlerts,
              AlarmEnds, LandLate, Purge, PurgeBegins,
              PurgeLists, PurgeDeletes, PurgeEnds, PurgeDies, vars
<1> QED BY <1>1, <1>2, <1>3, <1>4, <1>5, <1>6, <1>7, <1>8 DEF Next, Commit

(* The handler works off the outcomes it has listed. *)
LEMMA TodoSteps ==
  ASSUME Shape, [Next]_vars, apc' \in Drains
  PROVE  \/ apc \in Drains /\ al'.todo \subseteq al.todo
         \/ al'.todo = pendingOutcomes
<1> USE DEF Drains
<1>0. AlarmShape
  BY DEF Shape
<1>1. CASE AlarmListOutcomes
  BY <1>0, <1>1 DEF AlarmListOutcomes, AlarmShape
<1>2. CASE AlarmAppendOutcome
  BY <1>0, <1>2 DEF AlarmAppendOutcome, AlarmShape
<1>3. CASE AlarmDropOutcome \/ AlarmDropRefused \/ AlarmAlerts
  BY <1>0, <1>3 DEF AlarmDropOutcome, AlarmDropRefused, AlarmAlerts, AlarmShape
<1>4. CASE AlarmFires \/ AlarmPutEvent \/ AlarmDropEvent \/ AlarmEnds \/ Crash \/ Deploy
  BY <1>4 DEF AlarmFires, AlarmPutEvent, AlarmDropEvent, AlarmEnds, Crash, Deploy, Die
<1>5. CASE Commit
  BY <1>5
     DEF Commit, ReadManifest, RefuseRequest, Attempt, AttemptFails, PutBlob, PutManifest,
         SlotTaken, MovePointer, CasLost, Outcome, PointerEvent, Reply, Refuse, alarmHandler
<1>6. CASE LandLate \/ Purge \/ UNCHANGED vars \/ \E r \in Requests : Begin(r)
  BY <1>6 DEF LandLate, Purge, PurgeBegins, PurgeLists, PurgeDeletes, PurgeEnds, PurgeDies,
              Begin, vars, alarmHandler
<1> QED BY <1>1, <1>2, <1>3, <1>4, <1>5, <1>6 DEF Next, Alarm

(* A record is added by the commit whose outcome goes unanswered, and dropped
   by the handler that is done with it. *)
LEMMA PendingSteps ==
  ASSUME Shape, [Next]_vars
  PROVE  \/ pendingOutcomes' = pendingOutcomes
         \/ pc = "outcome" /\ pendingOutcomes' = pendingOutcomes \cup {c.chain}
         \/ /\ (apc = "outcomes" /\ al.done # None) \/ apc = "refused"
            /\ pendingOutcomes' = pendingOutcomes \ {al.done}
<1>1. CASE Outcome
  BY <1>1 DEF Outcome, EnqueueOutcome
<1>2. CASE AlarmDropOutcome \/ AlarmDropRefused
  BY <1>2 DEF AlarmDropOutcome, AlarmDropRefused
<1>3. pendingOutcomes' = pendingOutcomes \/ Outcome \/ AlarmDropOutcome \/ AlarmDropRefused
  BY DEF Next, Begin, Commit, ReadManifest, RefuseRequest, Attempt, AttemptFails, PutBlob,
         PutManifest, SlotTaken, MovePointer, CasLost, PointerEvent, Reply, Refuse,
         Alarm, AlarmFires, AlarmPutEvent, AlarmDropEvent, AlarmListOutcomes, AlarmAppendOutcome,
         AlarmAlerts, AlarmEnds, Crash, Deploy, Die, LandLate, Purge, PurgeBegins,
         PurgeLists, PurgeDeletes, PurgeEnds, PurgeDies, vars, storage
<1> QED BY <1>1, <1>2, <1>3
-----------------------------------------------------------------------------
(***************************************************************************)
(* Truth.                                                                  *)
(***************************************************************************)
LEMMA StepTruth ==
  ASSUME Shape, Truth, [Next]_vars
  PROVE  Truth'
<1>1. tries \in Nat /\ tries' \in Nat /\ tries <= tries'
  BY TriesGrow DEF Shape, CommitShape
<1>2. \A ch : Named(ch) => Named(ch)' /\ Last(ch) <= tries
  BY <1>1 DEF Named
<1>3. pc \in BeforeCas \cup AfterCas => pc # "idle"
  BY DEF BeforeCas, AfterCas
<1>4. ASSUME NEW ch \in Denied', ch \notin Denied
      PROVE  /\ pc \in BeforeCas /\ ch = Append(c.prev, c.id) /\ Named(ch) /\ Last(ch) = c.id
             /\ UNCHANGED <<committed, limbo>> /\ pc' = "idle"
  <2>1. PICK row \in ledger' : row.what = "deny" /\ row.chain = ch /\ row \notin ledger
    BY <1>4 DEF Denied
  <2>2. pc \in BeforeCas /\ ch = Append(c.prev, c.id) /\ Refuse
    BY <2>1, LedgerSteps
  <2> QED BY <1>3, <2>2, CommitChain DEF Refuse, Named, Goto, r2, observed
<1>5. ASSUME NEW w \in LateCas', w \notin LateCas
      PROVE  pc = "cas" /\ w.chain = c.chain /\ Last(w.chain) = c.id /\ pc' = "idle"
  <2>1. Die
    BY <1>5, NoneLeftBehind DEF LateCas
  <2>2. pc = "cas" /\ w.chain = c.chain
    BY <1>5, <2>1, LeftBehind
  <2> QED BY <2>1, <2>2, CommitChain DEF Die, Goto, Built, Announced
<1>6. ASSUME NEW ch \in committed', ch \notin committed
      PROVE  \/ pc = "cas" /\ ch = c.chain /\ Named(ch) /\ Last(ch) = c.id /\ pc' = "outcome"
             \/ LandLate /\ \E w \in LateCas : ch = w.chain /\ Named(ch)
  <2>1. CASE MovePointer /\ pc = "cas" /\ ch = c.chain
    BY <2>1, CommitChain DEF MovePointer, Goto, Built, Announced, Named
  <2>2. CASE LandLate /\ \E w \in LateCas : ch = w.chain
    BY <2>2, LateChain DEF Named
  <2> QED BY <1>6, <2>1, <2>2, CommittedSteps
<1>7. committed \subseteq committed'
  BY CommittedSteps
<1>8. \A ch \in (committed \cup Denied)' : Named(ch)'
  BY <1>2, <1>4, <1>6 DEF Truth
<1>9. ASSUME NEW ch \in Denied'
      PROVE  /\ ch \notin committed'
             /\ \A w \in LateCas' : w.chain # ch
             /\ pc' # "idle" => Last(ch) # c'.id
  <2>1. CASE ch \notin Denied
    BY <1>4, <2>1 DEF Truth, LateCas
  <2>2. CASE ch \in Denied
    <3>1. ch \notin committed'
      BY <1>3, <1>6, <2>2 DEF Truth, BeforeCas
    <3>2. \A w \in LateCas' : w.chain # ch
      BY <1>3, <1>5, <2>2 DEF Truth, BeforeCas
    <3>3. pc' # "idle" => Last(ch) # c'.id
      <4>1. Last(ch) \in Nat /\ Last(ch) <= tries
        BY <1>1, <1>2, <2>2 DEF Truth, Named
      <4>2. pc # "idle" => Last(ch) # c.id
        BY <2>2 DEF Truth
      <4> QED BY <1>1, <1>3, <4>1, <4>2, CommitSteps DEF BeforeCas
    <3> QED BY <3>1, <3>2, <3>3
  <2> QED BY <2>1, <2>2
<1>10. ASSUME pc' \in BeforeCas
       PROVE  /\ \A ch \in committed' : Last(ch) # c'.id
              /\ \A w \in LateCas' : Last(w.chain) # c'.id
  <2>1. \/ pc \in BeforeCas /\ c'.id = c.id
        \/ pc = "idle" /\ c'.id = tries + 1
    BY <1>10, CommitSteps DEF BeforeCas, AfterCas
  <2>2. LateCas' \subseteq LateCas
    BY <1>5, <1>10 DEF BeforeCas
  <2>3. \A ch \in committed' : ch \in committed \/ \E w \in LateCas : ch = w.chain
    BY <1>6, <1>10 DEF BeforeCas
  <2>4. \A w \in LateCas : Last(w.chain) \in 1 .. tries
    BY LateChain
  <2>5. \A ch \in committed : Last(ch) \in 1 .. tries
    BY DEF Truth, Named
  <2> QED BY <1>1, <2>1, <2>2, <2>3, <2>4, <2>5 DEF Truth
<1>11. ASSUME NEW row \in ledger', row.what = "outcome"
       PROVE  row.chain \in committed'
  <2>1. row \in ledger \/ (pc = "outcome" /\ row.chain = c.chain)
        \/ (apc = "outcomes" /\ row.chain \in al.todo)
    BY <1>11, LedgerSteps
  <2> QED BY <1>7, <1>11, <2>1 DEF Truth, AfterCas, Drains
<1>12. pc' \in AfterCas => c'.chain \in committed'
  <2>1. CASE UNCHANGED <<pc, c>> \/ (pc \in AfterCas /\ c' = c)
    BY <1>7, <2>1 DEF Truth
  <2>2. CASE MovePointer /\ c' = c
    BY <2>2 DEF MovePointer, SwapPointer
  <2> QED BY <2>1, <2>2, CommitSteps DEF BeforeCas, AfterCas
<1>13. pendingOutcomes' \subseteq committed'
  BY <1>7, PendingSteps DEF Truth, AfterCas
<1>14. apc' \in Drains => al'.todo \subseteq committed'
  BY <1>7, TodoSteps DEF Truth
<1> QED BY <1>8, <1>9, <1>10, <1>11, <1>12, <1>13, <1>14 DEF Truth
-----------------------------------------------------------------------------
(***************************************************************************)
(* Account.                                                                *)
(***************************************************************************)
LEMMA AckedSteps ==
  ASSUME [Next]_vars
  PROVE  acked' = acked \/ (pc = "escrow" /\ acked' = acked \cup {c.chain})
<1>1. CASE Reply
  BY <1>1 DEF Reply
<1>2. acked' = acked \/ Reply
  BY DEF Next, Begin, Commit, ReadManifest, RefuseRequest, Attempt, AttemptFails, PutBlob,
         PutManifest, SlotTaken, MovePointer, CasLost, Outcome, PointerEvent, Refuse,
         Alarm, AlarmFires, AlarmPutEvent, AlarmDropEvent, AlarmListOutcomes, AlarmAppendOutcome,
         AlarmDropOutcome, AlarmDropRefused, AlarmAlerts,
         AlarmEnds, Crash, Deploy, Die, LandLate, Purge, PurgeBegins,
         PurgeLists, PurgeDeletes, PurgeEnds, PurgeDies, vars, observed
<1> QED BY <1>1, <1>2

(* A commit leaves "outcome" with its rows or its record, or refused. *)
LEMMA OutcomeSteps ==
  ASSUME Shape, [Next]_vars, pc' \in {"event", "escrow"}
  PROVE  \/ pc \in {"event", "escrow"} /\ c' = c
         \/ c' = c /\ Accounted(c.chain)'
<1> USE DEF AfterCas, BeforeCas
<1>1. CASE pc = "outcome"
  <2>1. Outcome
    BY <1>1 DEF Next, Begin, Commit, ReadManifest, RefuseRequest, Attempt, AttemptFails, PutBlob,
         PutManifest, SlotTaken, MovePointer, CasLost, PointerEvent, Reply, Refuse,
         Alarm, AlarmFires, AlarmPutEvent, AlarmDropEvent, AlarmListOutcomes, AlarmAppendOutcome,
         AlarmDropOutcome, AlarmDropRefused, AlarmAlerts,
         AlarmEnds, Crash, Deploy, Die, LandLate, Purge, PurgeBegins,
         PurgeLists, PurgeDeletes, PurgeEnds, PurgeDies, vars, Goto
  <2>2. c' = c
    BY <2>1 DEF Outcome
  <2>3. OutcomeRow(c.chain) \in ledger' \/ c.chain \in refused' \/ c.chain \in pendingOutcomes'
    BY <2>1 DEF Outcome, EnqueueOutcome
  <2> QED BY <2>2, <2>3 DEF Accounted, OutcomeRow
<1>2. CASE pc # "outcome"
  BY <1>2, CommitSteps
<1> QED BY <1>1, <1>2

(* The handler is done with a record when its rows are in, or refused. *)
LEMMA DoneSteps ==
  ASSUME Shape, [Next]_vars
  PROVE  /\ apc' = "outcomes" /\ al'.done # None =>
              \/ apc = "outcomes" /\ al'.done = al.done
              \/ [what |-> "outcome", chain |-> al'.done] \in ledger'
         /\ apc' \in {"refused", "alert"} =>
              \/ apc \in {"refused", "alert"} /\ al'.done = al.done
              \/ al'.done \in refused'
<1>0. AlarmShape
  BY DEF Shape
<1>1. CASE AlarmListOutcomes
  BY <1>0, <1>1 DEF AlarmListOutcomes, AlarmShape
<1>2. CASE AlarmAppendOutcome
  BY <1>0, <1>2 DEF AlarmAppendOutcome, AlarmShape, OutcomeRow
<1>3. CASE AlarmDropOutcome \/ AlarmDropRefused \/ AlarmAlerts
  BY <1>0, <1>3 DEF AlarmDropOutcome, AlarmDropRefused, AlarmAlerts, AlarmShape
<1>4. CASE AlarmFires \/ AlarmPutEvent \/ AlarmDropEvent \/ AlarmEnds \/ Crash \/ Deploy
  BY <1>4 DEF AlarmFires, AlarmPutEvent, AlarmDropEvent, AlarmEnds, Crash, Deploy, Die
<1>5. CASE Commit
  BY <1>5
     DEF Commit, ReadManifest, RefuseRequest, Attempt, AttemptFails, PutBlob, PutManifest,
         SlotTaken, MovePointer, CasLost, Outcome, PointerEvent, Reply, Refuse, alarmHandler
<1>6. CASE LandLate \/ Purge \/ UNCHANGED vars \/ \E r \in Requests : Begin(r)
  BY <1>6 DEF LandLate, Purge, PurgeBegins, PurgeLists, PurgeDeletes, PurgeEnds, PurgeDies,
              Begin, vars, alarmHandler
<1> QED BY <1>1, <1>2, <1>3, <1>4, <1>5, <1>6 DEF Next, Alarm

(* Only a refusal that was seen is alerted: at once by the commit, by the alarm
   handler once it has dropped the record. *)
LEMMA AlertSteps ==
  ASSUME Shape, Account, [Next]_vars
  PROVE  alerts' \subseteq refused'
<1>1. refused \subseteq refused' /\ alerts \subseteq refused
  BY LedgerGrows DEF Account
<1>2. CASE Outcome
  BY <1>1, <1>2 DEF Outcome
<1>3. CASE AlarmAlerts
  BY <1>1, <1>3 DEF AlarmAlerts, Account
<1>4. alerts' = alerts \/ Outcome \/ AlarmAlerts
  BY DEF Next, Begin, Commit, ReadManifest, RefuseRequest, Attempt, AttemptFails, PutBlob,
         PutManifest, SlotTaken, MovePointer, CasLost, PointerEvent, Reply, Refuse,
         Alarm, AlarmFires, AlarmPutEvent, AlarmDropEvent, AlarmListOutcomes, AlarmAppendOutcome,
         AlarmDropOutcome, AlarmDropRefused, AlarmEnds, Crash, Deploy, Die, LandLate, Purge,
         PurgeBegins, PurgeLists, PurgeDeletes, PurgeEnds, PurgeDies, vars, audit
<1> QED BY <1>1, <1>2, <1>3, <1>4

(* What is accounted for stays so: the one record that is dropped has its rows in,
   or was refused. *)
LEMMA AccountedStays ==
  ASSUME Shape, Account, [Next]_vars, NEW ch, Accounted(ch)
  PROVE  Accounted(ch)'
<1>1. CASE OutcomeRow(ch) \in ledger \/ ch \in refused
  BY <1>1, LedgerGrows DEF Accounted, OutcomeRow
<1>2. CASE ch \in pendingOutcomes
  <2>1. CASE ch \in pendingOutcomes'
    BY <2>1 DEF Accounted
  <2>2. CASE ch \notin pendingOutcomes'
    <3>1. ((apc = "outcomes" /\ al.done # None) \/ apc = "refused") /\ ch = al.done
      BY <1>2, <2>2, PendingSteps
    <3>2. OutcomeRow(ch) \in ledger \/ ch \in refused
      BY <3>1 DEF Account
    <3> QED BY <1>1, <3>2
  <2> QED BY <2>1, <2>2
<1> QED BY <1>1, <1>2 DEF Accounted

LEMMA StepAccount ==
  ASSUME Shape, Account, [Next]_vars
  PROVE  Account'
<1>1. ASSUME NEW ch \in acked' PROVE Accounted(ch)'
  <2>1. Accounted(ch)
    BY <1>1, AckedSteps DEF Account, AckedAccounted
  <2> QED BY <2>1, AccountedStays
<1>2. ASSUME pc' \in {"event", "escrow"} PROVE Accounted(c.chain)'
  <2>1. CASE pc \in {"event", "escrow"} /\ c' = c
    <3>1. Accounted(c.chain)
      BY <2>1 DEF Account
    <3>2. ASSUME NEW ch, Accounted(ch)
          PROVE  OutcomeRow(ch) \in ledger' \/ ch \in pendingOutcomes' \cup refused'
      BY <3>2, AccountedStays DEF Accounted, OutcomeRow
    <3> QED BY <2>1, <3>1, <3>2 DEF Accounted, OutcomeRow
  <2>2. CASE c' = c /\ Accounted(c.chain)'
    BY <2>2
  <2> QED BY <1>2, <2>1, <2>2, OutcomeSteps
<1>3. ASSUME apc' = "outcomes", al'.done # None
      PROVE  OutcomeRow(al'.done) \in ledger'
  <2>1. CASE apc = "outcomes" /\ al'.done = al.done
    BY <1>3, <2>1, LedgerGrows DEF Account, OutcomeRow
  <2> QED BY <1>3, <2>1, DoneSteps DEF OutcomeRow
<1>4. ASSUME apc' \in {"refused", "alert"}
      PROVE  al'.done \in refused'
  <2>1. CASE apc \in {"refused", "alert"} /\ al'.done = al.done
    BY <2>1, LedgerGrows DEF Account
  <2> QED BY <1>4, <2>1, DoneSteps
<1> QED BY <1>1, <1>2, <1>3, <1>4, AlertSteps DEF Account, AckedAccounted, OutcomeRow
-----------------------------------------------------------------------------
(***************************************************************************)
(* Attempts.                                                               *)
(***************************************************************************)
(* Objects come from the running commit or from a dead one's writes. *)
LEMMA ManifestSteps ==
  ASSUME Shape, [Next]_vars, NEW m \in manifests', m \notin manifests
  PROVE  \/ pc = "slot" /\ m = Manifest
         \/ \E w \in limbo : w.kind = "manifest" /\ m = w.manifest
<1>1. CASE PutManifest
  BY <1>1 DEF PutManifest
<1>2. CASE LandLate
  BY <1>2 DEF LandLate
<1>3. CASE PurgeDeletes
  BY <1>3 DEF PurgeDeletes
<1>4. manifests' = manifests \/ PutManifest \/ LandLate \/ PurgeDeletes
  BY DEF Next, Begin, Commit, ReadManifest, RefuseRequest, Attempt, AttemptFails, PutBlob,
         SlotTaken, MovePointer, CasLost, Outcome, PointerEvent, Reply, Refuse,
         Alarm, AlarmFires, AlarmPutEvent, AlarmDropEvent, AlarmListOutcomes, AlarmAppendOutcome,
         AlarmDropOutcome, AlarmDropRefused, AlarmAlerts,
         AlarmEnds, Crash, Deploy, Die, Purge, PurgeBegins,
         PurgeLists, PurgeEnds, PurgeDies, vars, r2
<1> QED BY <1>1, <1>2, <1>3, <1>4

LEMMA BlobSteps ==
  ASSUME Shape, [Next]_vars, NEW b \in blobs', b \notin blobs
  PROVE  \/ pc = "blobs" /\ b \in c.todo
         \/ \E w \in limbo : w.kind = "blob" /\ b = w.blob
<1>1. CASE PutBlob
  BY <1>1 DEF PutBlob
<1>2. CASE LandLate
  BY <1>2 DEF LandLate
<1>3. CASE PurgeDeletes
  BY <1>3 DEF PurgeDeletes
<1>4. blobs' = blobs \/ PutBlob \/ LandLate \/ PurgeDeletes
  BY DEF Next, Begin, Commit, ReadManifest, RefuseRequest, Attempt, AttemptFails, PutManifest,
         SlotTaken, MovePointer, CasLost, Outcome, PointerEvent, Reply, Refuse,
         Alarm, AlarmFires, AlarmPutEvent, AlarmDropEvent, AlarmListOutcomes, AlarmAppendOutcome,
         AlarmDropOutcome, AlarmDropRefused, AlarmAlerts,
         AlarmEnds, Crash, Deploy, Die, Purge, PurgeBegins,
         PurgeLists, PurgeEnds, PurgeDies, vars, r2
<1> QED BY <1>1, <1>2, <1>3, <1>4

(* A commit is announced before it goes on, and stays the commit that was. *)
LEMMA AnnouncedSteps ==
  ASSUME Shape, [Next]_vars, pc' \in Announced
  PROVE  /\ c'.chain = c.chain
         /\ pc \in Announced \/ [what |-> "attempt", chain |-> c.chain] \in ledger'
<1> USE DEF Announced, AfterCas, Goto
<1>1. CASE Attempt
  BY <1>1 DEF Attempt
<1>2. CASE PutBlob
  <2>1. PICK b \in c.todo : c' = [c EXCEPT !.todo = @ \ {b}]
    BY <1>2 DEF PutBlob
  <2>2. c'.chain = c.chain
    BY <2>1 DEF Shape, CommitShape
  <2> QED BY <1>2, <2>2 DEF PutBlob
<1>3. CASE PutManifest \/ MovePointer \/ Outcome \/ PointerEvent
  BY <1>3 DEF PutManifest, MovePointer, Outcome, PointerEvent
<1>4. CASE ReadManifest \/ RefuseRequest \/ SlotTaken \/ CasLost \/ AttemptFails \/ Reply
           \/ Crash \/ Deploy
  BY <1>4 DEF ReadManifest, Prepare, RewrapNoop, RefuseRequest, SlotTaken, CasLost, Refuse,
              AttemptFails, Reply, Crash, Deploy, Die
<1>5. ASSUME NEW r \in Requests PROVE ~Begin(r)
  BY DEF Begin
<1>6. CASE Alarm \/ LandLate \/ Purge \/ UNCHANGED vars
  BY <1>6 DEF Alarm, AlarmFires, AlarmPutEvent, AlarmDropEvent, AlarmListOutcomes,
              AlarmAppendOutcome, AlarmDropOutcome, AlarmDropRefused, AlarmAlerts,
              AlarmEnds, LandLate, Purge, PurgeBegins,
              PurgeLists, PurgeDeletes, PurgeEnds, PurgeDies, vars
<1> QED BY <1>1, <1>2, <1>3, <1>4, <1>5, <1>6 DEF Next, Commit

(* The blobs of a commit carry its id. *)
LEMMA TodoBlobSteps ==
  ASSUME Shape, [Next]_vars, pc' \in Built
  PROVE  /\ c'.id = c.id
         /\ \/ pc \in Built /\ c'.todo \subseteq c.todo
            \/ \A b \in c'.todo : b.id = c.id
<1> USE DEF Built, Announced, AfterCas, Goto
<1>1. CASE ReadManifest
  <2>1. Prepare(PrevEntries)
    BY <1>1 DEF ReadManifest, RewrapNoop
  <2>2. c' = [c EXCEPT !.chain = Append(c.prev, c.id),
                       !.entries = Apply(PrevEntries, c.req, c.id),
                       !.todo = NewBlobs(c.req, c.id)]
    BY <2>1 DEF Prepare
  <2>3. c'.id = c.id /\ c'.todo = NewBlobs(c.req, c.id)
    BY <2>2 DEF Shape, CommitShape
  <2>4. \A b \in NewBlobs(c.req, c.id) : b.id = c.id
    BY DEF NewBlobs
  <2> QED BY <2>3, <2>4
<1>2. CASE PutBlob
  <2>1. PICK b \in c.todo : c' = [c EXCEPT !.todo = @ \ {b}]
    BY <1>2 DEF PutBlob
  <2>2. c'.id = c.id /\ c'.todo \subseteq c.todo
    BY <2>1 DEF Shape, CommitShape
  <2> QED BY <1>2, <2>2 DEF PutBlob
<1>3. CASE Attempt \/ PutManifest \/ MovePointer \/ Outcome \/ PointerEvent
  BY <1>3 DEF Attempt, PutManifest, MovePointer, Outcome, PointerEvent
<1>4. CASE RefuseRequest \/ SlotTaken \/ CasLost \/ AttemptFails \/ Reply \/ Crash \/ Deploy
  BY <1>4 DEF RefuseRequest, SlotTaken, CasLost, Refuse, AttemptFails, Reply, Crash, Deploy, Die
<1>5. ASSUME NEW r \in Requests PROVE ~Begin(r)
  BY DEF Begin
<1>6. CASE Alarm \/ LandLate \/ Purge \/ UNCHANGED vars
  BY <1>6 DEF Alarm, AlarmFires, AlarmPutEvent, AlarmDropEvent, AlarmListOutcomes,
              AlarmAppendOutcome, AlarmDropOutcome, AlarmDropRefused, AlarmAlerts,
              AlarmEnds, LandLate, Purge, PurgeBegins,
              PurgeLists, PurgeDeletes, PurgeEnds, PurgeDies, vars
<1> QED BY <1>1, <1>2, <1>3, <1>4, <1>5, <1>6 DEF Next, Commit

LEMMA StepAttempts ==
  ASSUME Shape, Attempts, [Next]_vars
  PROVE  Attempts'
<1>1. Attempted \subseteq Attempted'
  BY LedgerGrows DEF Attempted
<1>2. ASSUME NEW m \in manifests' PROVE m.chain \in Attempted'
  <2>1. m.chain \in Attempted
    BY <1>2, ManifestSteps DEF Attempts, AttemptFirst, Announced, Manifest
  <2> QED BY <1>1, <2>1
<1>3. pc \in Announced /\ pc # "idle" => c.chain \in Attempted /\ Last(c.chain) = c.id
  BY CommitChain DEF Attempts, Built
<1>4. ASSUME NEW b \in blobs' PROVE \E ch \in Attempted' : Last(ch) = b.id
  <2>1. \E ch \in Attempted : Last(ch) = b.id
    BY <1>3, <1>4, BlobSteps DEF Attempts, AttemptFirst, Announced, Built
  <2> QED BY <1>1, <2>1
<1>5. pc' \in Announced => c'.chain \in Attempted'
  <2>1. [what |-> "attempt", chain |-> c.chain] \in ledger' => c.chain \in Attempted'
    BY DEF Attempted
  <2> QED BY <1>1, <2>1, AnnouncedSteps DEF Attempts
<1>6. pc' \in Built => \A b \in c'.todo : b.id = c'.id
  BY TodoBlobSteps DEF Attempts
<1>7. ASSUME NEW w \in limbo'
      PROVE  /\ w.kind = "manifest" => w.manifest.chain \in Attempted'
             /\ w.kind = "blob" => \E ch \in Attempted' : Last(ch) = w.blob.id
  <2>1. CASE w \in limbo
    BY <1>1, <2>1 DEF Attempts
  <2>2. CASE w \notin limbo
    <3>1. w \in Sent
      BY <1>7, <2>2, NoneLeftBehind DEF Die
    <3>2. CASE pc = "blobs" /\ w \in [kind : {"blob"}, blob : c.todo]
      BY <1>1, <1>3, <3>2 DEF Attempts, Announced, Built
    <3>3. CASE pc = "slot" /\ w = [kind |-> "manifest", manifest |-> Manifest]
      BY <1>1, <1>3, <3>3 DEF Manifest, Announced
    <3>4. CASE w.kind \in {"current", "event"}
      BY <3>4
    <3> QED BY <3>1, <3>2, <3>3, <3>4, SentWrites
  <2> QED BY <2>1, <2>2
<1> QED BY <1>2, <1>4, <1>5, <1>6, <1>7 DEF Attempts, AttemptFirst
-----------------------------------------------------------------------------
(***************************************************************************)
(* Armed.                                                                  *)
(***************************************************************************)
LEMMA StepArmed ==
  ASSUME Shape, Armed, [Next]_vars
  PROVE  Armed'
<1> USE DEF Armed, PendingIsArmed, Drains
<1>0. AlarmShape
  BY DEF Shape
<1>1. ASSUME UNCHANGED <<pendingEvents, pendingOutcomes, alarm, apc, al>>
      PROVE  Armed'
  BY <1>1
<1>2. CASE Outcome
  <2>1. UNCHANGED <<pendingEvents, apc, al>>
        /\ (alarm' = TRUE \/ UNCHANGED <<alarm, pendingOutcomes>>)
    BY <1>2 DEF Outcome, EnqueueOutcome, alarmHandler
  <2> QED BY <2>1
<1>3. CASE PointerEvent
  <2>1. UNCHANGED <<pendingOutcomes, apc, al>>
        /\ (alarm' = TRUE \/ UNCHANGED <<alarm, pendingEvents>>)
    BY <1>3 DEF PointerEvent, EnqueueEvent, alarmHandler
  <2> QED BY <2>1
<1>4. CASE Reply
  <2>1. UNCHANGED <<pendingEvents, pendingOutcomes, apc, al>> /\ (alarm => alarm')
    BY <1>4 DEF Reply, alarmHandler
  <2> QED BY <2>1
<1>5. CASE Commit
  BY <1>1, <1>2, <1>3, <1>4, <1>5
     DEF Commit, ReadManifest, RefuseRequest, Attempt, AttemptFails, PutBlob, PutManifest,
         SlotTaken, MovePointer, CasLost, Refuse, storage, alarmHandler
<1>6. CASE AlarmFires
  BY <1>0, <1>6 DEF AlarmFires, NoAlarm
<1>7. CASE AlarmPutEvent
  BY <1>0, <1>7 DEF AlarmPutEvent, AlarmShape, storage
<1>8. CASE AlarmDropEvent
  BY <1>0, <1>8 DEF AlarmDropEvent, AlarmShape
<1>9. CASE AlarmListOutcomes
  BY <1>0, <1>9 DEF AlarmListOutcomes, AlarmShape, storage
<1>10. CASE AlarmAppendOutcome
  BY <1>0, <1>10 DEF AlarmAppendOutcome, AlarmShape, storage
<1>11. CASE AlarmDropOutcome
  BY <1>0, <1>11 DEF AlarmDropOutcome, AlarmShape
<1>15. CASE AlarmDropRefused \/ AlarmAlerts
  BY <1>0, <1>15 DEF AlarmDropRefused, AlarmAlerts, AlarmShape, storage
<1>12. CASE AlarmEnds
  BY <1>0, <1>12 DEF AlarmEnds, Rearm, NoAlarm
<1>13. CASE Crash \/ Deploy
  BY <1>13 DEF Crash, Deploy, Die
<1>14. CASE LandLate \/ Purge \/ UNCHANGED vars \/ \E r \in Requests : Begin(r)
  BY <1>1, <1>14 DEF LandLate, Purge, PurgeBegins, PurgeLists, PurgeDeletes, PurgeEnds, PurgeDies,
                     Begin, vars, storage, alarmHandler
<1> QED BY <1>5, <1>6, <1>7, <1>8, <1>9, <1>10, <1>11, <1>12, <1>13, <1>14,
           <1>15 DEF Next, Alarm
-----------------------------------------------------------------------------
(***************************************************************************)
(* The theorems.                                                           *)
(***************************************************************************)
(* What the commit, the alarm handler and the writes of dead commits can rely
   on at every step (writer-do.ts: commit, alarm). *)
THEOREM WriterInvHolds == Spec => []WriterInv
<1>1. WriterInv /\ [Next]_vars => WriterInv'
  BY StepShape, StepTruth, StepAccount, StepAttempts, StepArmed DEF WriterInv
<1> QED BY <1>1, InitWriterInv, PTL DEF Spec

(* The pointer only moves to the next epoch of the history it names, however
   late the CAS of a dead commit lands (casPutCurrent). *)
THEOREM HistoryIsLinear == Spec => LinearHistory
<1>1. WriterInv /\ [Next]_vars =>
        [current' = <<>> \/ (Len(current') = Len(current) + 1 /\ IsPrefix(current, current'))]_current
  BY PointerSteps DEF WriterInv
<1> QED BY <1>1, WriterInvHolds, PTL DEF Spec, LinearHistory

(* Outcome rows are of committed epochs and deny rows of commits that never were
   and never will be, a dead one's late CAS included (appendDeny, outcome batch). *)
THEOREM LedgerIsTrue == Spec => []LedgerTellsTruth
<1>1. WriterInv => LedgerTellsTruth
  BY DEF WriterInv, Truth, Denied, LedgerTellsTruth
<1> QED BY <1>1, WriterInvHolds, PTL

(* An answered commit has its outcome rows or a record that will get them, unless
   the audit DO refused them, through crashes, a deletion of the project and
   epochs given out again (enqueuePendingOutcome, alarm). *)
THEOREM AckedIsAccounted == Spec => []AckedAccounted
<1>1. WriterInv => AckedAccounted
  BY DEF WriterInv, Account
<1> QED BY <1>1, WriterInvHolds, PTL

(* No object is stored that the ledger does not announce (attempt-first). *)
THEOREM AttemptsComeFirst == Spec => []AttemptFirst
<1>1. WriterInv => AttemptFirst
  BY DEF WriterInv, Attempts
<1> QED BY <1>1, WriterInvHolds, PTL

(* Whatever is pending will be drained: an alarm is set or its handler, which
   sets it again, is running (alarm). *)
THEOREM PendingStaysArmed == Spec => []PendingIsArmed
<1>1. WriterInv => PendingIsArmed
  BY DEF WriterInv, Armed
<1> QED BY <1>1, WriterInvHolds, PTL
=============================================================================
