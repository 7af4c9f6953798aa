------------------------- MODULE ProjectStoreProofs -------------------------
(***************************************************************************)
(* More theorems about ProjectWriter, on what its stores hold: everything  *)
(* has its shape, an epoch its one manifest, and the pointer a manifest    *)
(* with all its blobs.  A commit sends its objects in order, each after    *)
(* the one before was stored, so a write of a dead commit that lands late  *)
(* finds in place what it names.                                           *)
(***************************************************************************)
EXTENDS ProjectWriterProofs

(***************************************************************************)
(* Histories.                                                              *)
(***************************************************************************)
LEMMA EmptyHistory ==
  ASSUME NEW n
  PROVE  History(<<>>, n)
BY EmptySeq DEF History

LEMMA HistoryGrows ==
  ASSUME NEW n \in Nat, NEW m \in Nat, n <= m, NEW chain, History(chain, n)
  PROVE  History(chain, m)
<1>1. /\ chain \in Seq(Nat)
      /\ \A i \in 1 .. Len(chain) : chain[i] \in Nat
  BY ElementOfSeq DEF History
<1> QED BY <1>1 DEF History

(* The ids of a history are its commits in order: it is no longer than the
   number of commits begun. *)
LEMMA HistoryAppend ==
  ASSUME NEW chain, NEW id \in Nat \ {0}, History(chain, id - 1)
  PROVE  History(Append(chain, id), id)
<1> DEFINE t == Append(chain, id)
<1>1. /\ chain \in Seq(Nat) /\ Len(chain) \in Nat
      /\ \A i \in 1 .. Len(chain) : chain[i] \in Nat /\ i <= chain[i] /\ chain[i] <= id - 1
      /\ \A i, j \in 1 .. Len(chain) : i < j => chain[i] < chain[j]
  BY ElementOfSeq, LenProperties DEF History
<1>2. /\ t \in Seq(Nat)
      /\ Len(t) = Len(chain) + 1
      /\ \A i \in 1 .. Len(chain) : t[i] = chain[i]
      /\ t[Len(chain) + 1] = id
  BY <1>1, AppendProperties
<1> HIDE DEF t
<1>3. Len(chain) + 1 <= id
  <2>1. CASE Len(chain) = 0
    BY <2>1
  <2>2. CASE Len(chain) # 0
    <3>1. Len(chain) \in 1 .. Len(chain)
      BY <1>1, <2>2
    <3> DEFINE l == chain[Len(chain)]
    <3>2. l \in Nat /\ Len(chain) <= l /\ l <= id - 1
      BY <1>1, <3>1
    <3> HIDE DEF l
    <3> QED BY <1>1, <3>2
  <2> QED BY <2>1, <2>2
<1>4. ASSUME NEW i \in 1 .. Len(t) PROVE i <= t[i] /\ t[i] <= id
  <2>1. CASE i \in 1 .. Len(chain)
    <3>1. t[i] \in Nat /\ i <= t[i] /\ t[i] <= id - 1
      BY <1>1, <1>2, <2>1
    <3> QED BY <3>1
  <2>2. CASE i = Len(chain) + 1
    BY <1>1, <1>2, <1>3, <2>2
  <2> QED BY <1>1, <1>2, <2>1, <2>2
<1>5. ASSUME NEW i \in 1 .. Len(t), NEW j \in 1 .. Len(t), i < j PROVE t[i] < t[j]
  <2>1. i \in 1 .. Len(chain)
    BY <1>1, <1>2, <1>5
  <2>2. CASE j \in 1 .. Len(chain)
    BY <1>1, <1>2, <1>5, <2>1, <2>2
  <2>3. CASE j = Len(chain) + 1
    <3>1. t[i] \in Nat /\ t[i] <= id - 1 /\ t[j] = id
      BY <1>1, <1>2, <2>1, <2>3
    <3> QED BY <3>1
  <2> QED BY <1>1, <1>2, <2>2, <2>3
<1>6. History(t, id)
  BY <1>2, <1>4, <1>5 DEF History
<1> QED BY <1>6 DEF t

LEMMA HistoryIsChain ==
  ASSUME NEW chain, History(chain, MaxTries)
  PROVE  chain \in Chains
<1>1. /\ MaxTries \in Nat
      /\ chain \in Seq(Nat) /\ Len(chain) \in Nat /\ DOMAIN chain = 1 .. Len(chain)
      /\ \A i \in 1 .. Len(chain) : chain[i] \in Nat /\ i <= chain[i] /\ chain[i] <= MaxTries
      /\ \A i, j \in 1 .. Len(chain) : i < j => chain[i] < chain[j]
  BY ElementOfSeq, LenProperties, WriterAssumption DEF History
<1>2. Len(chain) \in 0 .. MaxTries
  <2>1. CASE Len(chain) = 0
    BY <1>1, <2>1
  <2>2. CASE Len(chain) # 0
    <3>1. Len(chain) \in 1 .. Len(chain)
      BY <1>1, <2>2
    <3> DEFINE l == chain[Len(chain)]
    <3>2. l \in Nat /\ Len(chain) <= l /\ l <= MaxTries
      BY <1>1, <3>1
    <3> HIDE DEF l
    <3> QED BY <1>1, <3>2
  <2> QED BY <2>1, <2>2
<1>3. chain \in [1 .. Len(chain) -> Ids]
  <2>1. ASSUME NEW i \in 1 .. Len(chain) PROVE chain[i] \in Ids
    <3>1. chain[i] \in Nat /\ i <= chain[i] /\ chain[i] <= MaxTries
      BY <1>1
    <3> QED BY <1>1, <3>1 DEF Ids
  <2>2. chain = [i \in 1 .. Len(chain) |-> chain[i]]
    BY <1>1
  <2> QED BY <2>1, <2>2
<1>4. chain \in UNION {[1 .. n -> Ids] : n \in 0 .. MaxTries}
  BY <1>2, <1>3
<1> QED BY <1>1, <1>4 DEF Chains
-----------------------------------------------------------------------------
(***************************************************************************)
(* Entries and manifests.                                                  *)
(***************************************************************************)
LEMMA ManifestGrows ==
  ASSUME NEW n \in Nat, NEW k \in Nat, n <= k, NEW m, ManifestOK(m, n)
  PROVE  ManifestOK(m, k)
BY DEF ManifestOK, EntriesOK

(* A manifest keeps the entries of the one before that its request leaves, and
   names new blobs of its commit for the rest. *)
LEMMA ApplyEntries ==
  ASSUME NEW r \in Requests, NEW entries, kek \in Nat, EntriesOK(entries, kek),
         NEW id \in 1 .. MaxTries
  PROVE  /\ EntriesOK(Apply(entries, r, id), kek)
         /\ NewBlobs(r, id) \subseteq Blobs
         /\ \A k \in DOMAIN Apply(entries, r, id) :
              \/ Apply(entries, r, id)[k].blob \in NewBlobs(r, id)
              \/ k \in DOMAIN entries /\ Apply(entries, r, id)[k].blob = entries[k].blob
<1> DEFINE after == Apply(entries, r, id)
<1>0. r.op \in {"put", "delete", "rewrap"} /\ r.keys \subseteq Keys
  BY WriterAssumption DEF RequestOK
<1>1. NewBlobs(r, id) \subseteq Blobs
  BY <1>0 DEF NewBlobs, Blobs, Ids
<1>2. /\ DOMAIN entries \subseteq Keys
      /\ \A k \in DOMAIN entries : entries[k] \in [version : Nat \ {0}, blob : Blobs, kid : 0 .. kek]
  BY DEF EntriesOK
<1>3. CASE r.op = "put"
  <2>1. after = [k \in DOMAIN entries \cup r.keys |->
                   IF k \in r.keys
                   THEN [version |-> Version(entries, k) + 1, blob |-> [id |-> id, key |-> k],
                         kid |-> kek]
                   ELSE entries[k]]
    BY <1>3 DEF Apply
  <2> HIDE DEF after
  <2>2. \A k \in r.keys : Version(entries, k) + 1 \in Nat \ {0}
    <3> SUFFICES ASSUME NEW k \in r.keys PROVE Version(entries, k) \in Nat
      OBVIOUS
    <3> QED BY <1>2 DEF Version
  <2>3. \A k \in r.keys : [id |-> id, key |-> k] \in NewBlobs(r, id)
    BY <1>3 DEF NewBlobs
  <2>4. DOMAIN after = DOMAIN entries \cup r.keys
    BY <2>1
  <2>5. ASSUME NEW k \in DOMAIN after, k \in r.keys
        PROVE  after[k] \in [version : Nat \ {0}, blob : Blobs, kid : 0 .. kek]
               /\ after[k].blob \in NewBlobs(r, id)
    <3>1. after[k] = [version |-> Version(entries, k) + 1, blob |-> [id |-> id, key |-> k],
                      kid |-> kek]
      BY <2>1, <2>4, <2>5
    <3> QED BY <1>1, <2>2, <2>3, <2>5, <3>1
  <2>6. ASSUME NEW k \in DOMAIN after, k \notin r.keys
        PROVE  k \in DOMAIN entries /\ after[k] = entries[k]
    BY <2>1, <2>4, <2>6
  <2>7. EntriesOK(after, kek)
    BY <1>0, <1>2, <2>4, <2>5, <2>6 DEF EntriesOK
  <2>8. \A k \in DOMAIN after : \/ after[k].blob \in NewBlobs(r, id)
                                \/ k \in DOMAIN entries /\ after[k].blob = entries[k].blob
    BY <2>5, <2>6
  <2> QED BY <1>1, <2>7, <2>8 DEF after
<1>4. CASE r.op = "delete"
  <2>1. after = [k \in (DOMAIN entries) \cap (DOMAIN entries \ r.keys) |-> entries[k]]
    BY <1>4 DEF Apply, Restrict
  <2> HIDE DEF after
  <2>2. \A k \in DOMAIN after : k \in DOMAIN entries /\ after[k] = entries[k]
    BY <2>1
  <2>3. EntriesOK(after, kek)
    BY <1>2, <2>2 DEF EntriesOK
  <2>4. \A k \in DOMAIN after : k \in DOMAIN entries /\ after[k].blob = entries[k].blob
    BY <2>2
  <2> QED BY <1>1, <2>3, <2>4 DEF after
<1>5. CASE r.op = "rewrap"
  <2>1. after = [k \in DOMAIN entries |-> [entries[k] EXCEPT !.kid = kek]]
    BY <1>5 DEF Apply
  <2> HIDE DEF after
  <2>2. ASSUME NEW k \in DOMAIN after
        PROVE  /\ k \in DOMAIN entries
               /\ after[k] \in [version : Nat \ {0}, blob : Blobs, kid : 0 .. kek]
               /\ after[k].blob = entries[k].blob
    <3>1. k \in DOMAIN entries /\ after[k] = [entries[k] EXCEPT !.kid = kek]
      BY <2>1
    <3> QED BY <1>2, <3>1
  <2>3. EntriesOK(after, kek)
    BY <1>2, <2>2 DEF EntriesOK
  <2>4. \A k \in DOMAIN after : k \in DOMAIN entries /\ after[k].blob = entries[k].blob
    BY <2>2
  <2> QED BY <1>1, <2>3, <2>4 DEF after
<1> QED BY <1>0, <1>3, <1>4, <1>5

(* What a commit reads: the entries of a manifest in the store, or none. *)
LEMMA ReadEntries ==
  ASSUME kek \in Nat, \A m \in manifests : ManifestOK(m, kek), c.prev = <<>> \/ Resolves(c.prev)
  PROVE  /\ EntriesOK(PrevEntries, kek)
         /\ \/ DOMAIN PrevEntries = {}
            \/ \E m \in manifests : m.chain = c.prev /\ PrevEntries = m.entries
<1>1. CASE c.prev = <<>>
  <2>1. PrevEntries = <<>> /\ DOMAIN <<>> = {}
    BY <1>1 DEF PrevEntries
  <2> QED BY <2>1 DEF EntriesOK
<1>2. CASE c.prev # <<>>
  <2>1. \E m \in manifests : m.chain = c.prev
    BY <1>2 DEF Resolves
  <2>2. ManifestOf(c.prev) \in manifests /\ ManifestOf(c.prev).chain = c.prev
    BY <2>1 DEF ManifestOf
  <2>3. PrevEntries = ManifestOf(c.prev).entries
    BY <1>2 DEF PrevEntries
  <2> QED BY <2>2, <2>3 DEF ManifestOK
<1> QED BY <1>1, <1>2
-----------------------------------------------------------------------------
(***************************************************************************)
(* The counters.                                                           *)
(***************************************************************************)
LEMMA StepCounted ==
  ASSUME Counted, [Next]_vars
  PROVE  Counted' /\ tries <= tries' /\ kek <= kek'
<1>0. MaxTries \in Nat /\ KekMax \in Nat /\ tries \in 0 .. MaxTries /\ kek \in 0 .. KekMax
      /\ purges \in Nat
  BY WriterAssumption DEF Counted
<1>1. tries' = tries \/ (tries < MaxTries /\ tries' = tries + 1)
  BY DEF Next, Begin, Commit, ReadManifest, RefuseRequest, Attempt, AttemptFails, PutBlob,
         PutManifest, SlotTaken, MovePointer, CasLost, Outcome, PointerEvent, Reply, Refuse,
         Alarm, AlarmFires, AlarmPutEvent, AlarmDropEvent, AlarmListOutcomes, AlarmAppendOutcome,
         AlarmDropOutcome, AlarmDropRefused, AlarmAlerts,
         AlarmEnds, Crash, Deploy, Die, LandLate, Purge, PurgeBegins,
         PurgeLists, PurgeDeletes, PurgeEnds, PurgeDies, vars, observed
<1>2. kek' = kek \/ (kek < KekMax /\ kek' = kek + 1)
  BY DEF Next, Begin, Commit, ReadManifest, RefuseRequest, Attempt, AttemptFails, PutBlob,
         PutManifest, SlotTaken, MovePointer, CasLost, Outcome, PointerEvent, Reply, Refuse,
         Alarm, AlarmFires, AlarmPutEvent, AlarmDropEvent, AlarmListOutcomes, AlarmAppendOutcome,
         AlarmDropOutcome, AlarmDropRefused, AlarmAlerts,
         AlarmEnds, Crash, Deploy, LandLate, Purge, PurgeBegins,
         PurgeLists, PurgeDeletes, PurgeEnds, PurgeDies, vars
<1>3. purges' = purges \/ purges' = purges + 1
  BY DEF Next, Begin, Commit, ReadManifest, RefuseRequest, Attempt, AttemptFails, PutBlob,
         PutManifest, SlotTaken, MovePointer, CasLost, Outcome, PointerEvent, Reply, Refuse,
         Alarm, AlarmFires, AlarmPutEvent, AlarmDropEvent, AlarmListOutcomes, AlarmAppendOutcome,
         AlarmDropOutcome, AlarmDropRefused, AlarmAlerts,
         AlarmEnds, Crash, Deploy, Die, LandLate, Purge, PurgeBegins,
         PurgeLists, PurgeDeletes, PurgeEnds, PurgeDies, vars, purger
<1>4. tries' \in 0 .. MaxTries /\ tries <= tries'
  BY <1>0, <1>1
<1>5. kek' \in 0 .. KekMax /\ kek <= kek'
  BY <1>0, <1>2
<1> QED BY <1>0, <1>3, <1>4, <1>5 DEF Counted

(* Without a deletion. *)
LEMMA PurgeSteps ==
  ASSUME Counted, ~Purging, [Next]_vars, purges' = 0
  PROVE  ~Purge /\ ~Purging'
<1>1. ~PurgeBegins
  BY DEF PurgeBegins, Counted
<1>2. ~Purge
  BY <1>1 DEF Purge, Purging, PurgeLists, PurgeDeletes, PurgeEnds, PurgeDies
<1>3. UNCHANGED ppc
  BY <1>2
     DEF Next, Begin, Commit, ReadManifest, RefuseRequest, Attempt, AttemptFails, PutBlob,
         PutManifest, SlotTaken, MovePointer, CasLost, Outcome, PointerEvent, Reply, Refuse,
         Alarm, AlarmFires, AlarmPutEvent, AlarmDropEvent, AlarmListOutcomes, AlarmAppendOutcome,
         AlarmDropOutcome, AlarmDropRefused, AlarmAlerts,
         AlarmEnds, Crash, Deploy, Die, LandLate, vars, purger
<1> QED BY <1>2, <1>3 DEF Purging
-----------------------------------------------------------------------------
(***************************************************************************)
(* The commit.                                                             *)
(***************************************************************************)
(* A commit that runs began, prepared its manifest, or goes on with what it
   had. *)
LEMMA CommitRuns ==
  ASSUME Shape, [Next]_vars, pc' # "idle"
  PROVE  \/ /\ pc = "idle" /\ pc' = "manifest"
            /\ tries' = tries + 1 /\ c'.id = tries' /\ c'.prev = current
            /\ c'.req \in Requests
         \/ /\ ReadManifest /\ pc' = "attempt"
            /\ c.prev = <<>> \/ Resolves(c.prev)
            /\ EpochPin(c.req, Epoch(c.prev))
            /\ c' = [c EXCEPT !.chain = Append(c.prev, c.id),
                              !.entries = Apply(PrevEntries, c.req, c.id),
                              !.todo = NewBlobs(c.req, c.id)]
         \/ /\ pc \in Built /\ pc' \in Built
            /\ c'.id = c.id /\ c'.req = c.req /\ c'.prev = c.prev
            /\ Manifest' = Manifest
            /\ c'.todo \subseteq c.todo
         \/ pc = "manifest" /\ UNCHANGED <<pc, c>>
<1> USE DEF Built, Announced, AfterCas, Goto
<1>1. ASSUME NEW r \in Requests, Begin(r)
      PROVE  /\ pc = "idle" /\ pc' = "manifest"
             /\ tries' = tries + 1 /\ c'.id = tries' /\ c'.prev = current
             /\ c'.req \in Requests
  BY <1>1 DEF Begin, NoCommit
<1>2. CASE ReadManifest
  <2>1. Prepare(PrevEntries)
    BY <1>2 DEF ReadManifest, RewrapNoop
  <2> QED BY <1>2, <2>1 DEF ReadManifest, Prepare, Admitted
<1>3. CASE PutBlob
  <2>1. PICK b \in c.todo : c' = [c EXCEPT !.todo = @ \ {b}]
    BY <1>3 DEF PutBlob
  <2>2. /\ c'.id = c.id /\ c'.req = c.req /\ c'.prev = c.prev /\ c'.chain = c.chain
        /\ c'.entries = c.entries /\ c'.todo \subseteq c.todo
    BY <2>1 DEF Shape, CommitShape
  <2> QED BY <1>3, <2>2 DEF PutBlob, Manifest
<1>4. CASE RefuseRequest \/ SlotTaken \/ CasLost \/ AttemptFails \/ Reply \/ Crash \/ Deploy
  BY <1>4 DEF RefuseRequest, SlotTaken, CasLost, Refuse, AttemptFails, Reply, Crash, Deploy, Die
<1>5. CASE Attempt \/ PutManifest \/ MovePointer \/ Outcome \/ PointerEvent
  BY <1>5 DEF Attempt, PutManifest, MovePointer, Outcome, PointerEvent, Manifest
<1>6. CASE UNCHANGED <<pc, c>>
  BY <1>6 DEF Shape, CommitShape, BeforeCas, Manifest
<1>7. CASE Alarm \/ LandLate \/ Purge \/ UNCHANGED vars
  BY <1>6, <1>7 DEF Alarm, AlarmFires, AlarmPutEvent, AlarmDropEvent, AlarmListOutcomes,
              AlarmAppendOutcome, AlarmDropOutcome, AlarmDropRefused, AlarmAlerts,
              AlarmEnds, LandLate, Purge, PurgeBegins,
              PurgeLists, PurgeDeletes, PurgeEnds, PurgeDies, vars
<1> QED BY <1>1, <1>2, <1>3, <1>4, <1>5, <1>7 DEF Next, Commit

(* The manifest a commit prepares. *)
LEMMA PrepareManifest ==
  ASSUME Shape, Counted, StoresOK, CommitOK, ReadManifest,
         c.prev = <<>> \/ Resolves(c.prev),
         EpochPin(c.req, Epoch(c.prev)),
         c' = [c EXCEPT !.chain = Append(c.prev, c.id),
                        !.entries = Apply(PrevEntries, c.req, c.id),
                        !.todo = NewBlobs(c.req, c.id)]
  PROVE  /\ c'.id = c.id /\ c'.req = c.req /\ c'.prev = c.prev
         /\ ManifestOK(Manifest', kek)
         /\ c'.todo \subseteq Blobs
         /\ \A k \in DOMAIN c'.entries :
              \/ c'.entries[k].blob \in c'.todo
              \/ \E m \in manifests : k \in DOMAIN m.entries
                                      /\ c'.entries[k].blob = m.entries[k].blob
<1>1. /\ c'.id = c.id /\ c'.req = c.req /\ c'.prev = c.prev
      /\ c'.chain = Append(c.prev, c.id)
      /\ c'.entries = Apply(PrevEntries, c.req, c.id)
      /\ c'.todo = NewBlobs(c.req, c.id)
  BY DEF Shape, CommitShape
<1>2. pc = "manifest" /\ pc # "idle"
  BY DEF ReadManifest
<1>3. /\ tries \in 0 .. MaxTries /\ kek \in Nat /\ MaxTries \in Nat
      /\ c.id \in 1 .. tries /\ History(c.prev, c.id - 1) /\ c.req \in Requests
      /\ c.prev \in Seq(Nat)
  BY <1>2, WriterAssumption DEF Counted, CommitOK, Shape, CommitShape
<1>4. c.id \in Nat \ {0} /\ c.id \in 1 .. MaxTries /\ c.id <= MaxTries
  BY <1>3
<1>5. History(Append(c.prev, c.id), MaxTries)
  BY <1>3, <1>4, HistoryAppend, HistoryGrows
<1>6. Append(c.prev, c.id) # <<>> /\ Len(Append(c.prev, c.id)) = Len(c.prev) + 1
  BY <1>3, <1>4, AppendChain
<1>7. /\ EntriesOK(PrevEntries, kek)
      /\ \/ DOMAIN PrevEntries = {}
         \/ \E m \in manifests : m.chain = c.prev /\ PrevEntries = m.entries
  BY <1>3, ReadEntries DEF StoresOK
<1> DEFINE after == Apply(PrevEntries, c.req, c.id)
<1>8. /\ EntriesOK(after, kek)
      /\ NewBlobs(c.req, c.id) \subseteq Blobs
      /\ \A k \in DOMAIN after :
           \/ after[k].blob \in NewBlobs(c.req, c.id)
           \/ k \in DOMAIN PrevEntries /\ after[k].blob = PrevEntries[k].blob
  BY <1>3, <1>4, <1>7, ApplyEntries
<1>9. Manifest' = [chain |-> Append(c.prev, c.id), req |-> c.req, entries |-> after]
  BY <1>1 DEF Manifest
<1> HIDE DEF after
<1>10. c.req.ifEpoch # None => Len(Append(c.prev, c.id)) = c.req.ifEpoch + 1
  BY <1>6 DEF EpochPin, Epoch
<1>11. ManifestOK(Manifest', kek)
  BY <1>3, <1>5, <1>6, <1>8, <1>9, <1>10 DEF ManifestOK
<1>12. c'.entries = after
  BY <1>1 DEF after
<1> QED BY <1>1, <1>7, <1>8, <1>11, <1>12

LEMMA StepCommitOK ==
  ASSUME Shape, Counted, StoresOK, CommitOK, [Next]_vars
  PROVE  CommitOK'
<1>1. /\ tries \in Nat /\ tries' \in Nat /\ tries <= tries'
      /\ kek \in Nat /\ kek' \in Nat /\ kek <= kek'
  BY StepCounted, WriterAssumption DEF Counted
<1>2. CASE pc' = "idle"
  BY <1>2 DEF CommitOK, Built, Announced, AfterCas
<1>3. CASE /\ pc = "idle" /\ pc' = "manifest"
           /\ tries' = tries + 1 /\ c'.id = tries' /\ c'.prev = current
           /\ c'.req \in Requests
  <2>1. c'.id - 1 = tries /\ c'.id \in 1 .. tries'
    BY <1>1, <1>3
  <2>2. History(c'.prev, c'.id - 1)
    BY <1>3, <2>1 DEF StoresOK
  <2> QED BY <1>3, <2>1, <2>2 DEF CommitOK, Built, Announced, AfterCas, History
<1>4. CASE /\ ReadManifest /\ pc' = "attempt"
           /\ c.prev = <<>> \/ Resolves(c.prev)
           /\ EpochPin(c.req, Epoch(c.prev))
           /\ c' = [c EXCEPT !.chain = Append(c.prev, c.id),
                             !.entries = Apply(PrevEntries, c.req, c.id),
                             !.todo = NewBlobs(c.req, c.id)]
  <2>1. /\ c'.id = c.id /\ c'.req = c.req /\ c'.prev = c.prev
        /\ ManifestOK(Manifest', kek) /\ c'.todo \subseteq Blobs
    BY <1>4, PrepareManifest
  <2>2. ManifestOK(Manifest', kek')
    BY <1>1, <2>1, ManifestGrows
  <2>3. pc # "idle"
    BY <1>4 DEF ReadManifest
  <2>4. c.id \in 1 .. tries'
    BY <1>1, <2>3 DEF CommitOK
  <2> QED BY <2>1, <2>2, <2>3, <2>4 DEF CommitOK, ManifestOK, EntriesOK, History
<1>5. CASE /\ pc \in Built /\ pc' \in Built
           /\ c'.id = c.id /\ c'.req = c.req /\ c'.prev = c.prev
           /\ Manifest' = Manifest
           /\ c'.todo \subseteq c.todo
  <2>1. pc # "idle"
    BY <1>5 DEF Built, Announced, AfterCas
  <2>2. c.id \in 1 .. tries'
    BY <1>1, <2>1 DEF CommitOK
  <2>3. ManifestOK(Manifest, kek')
    BY <1>1, <1>5, ManifestGrows DEF CommitOK
  <2>4. ManifestOK(Manifest', kek')
    BY <1>5, <2>3
  <2> QED BY <1>5, <2>1, <2>2, <2>4 DEF CommitOK, ManifestOK, EntriesOK, History
<1>6. CASE pc = "manifest" /\ UNCHANGED <<pc, c>>
  <2>1. c.id \in 1 .. tries'
    BY <1>1, <1>6 DEF CommitOK
  <2> QED BY <1>6, <2>1 DEF CommitOK, Built, Announced, AfterCas, History
<1> QED BY <1>2, <1>3, <1>4, <1>5, <1>6, CommitRuns
-----------------------------------------------------------------------------
(***************************************************************************)
(* The stores.                                                             *)
(***************************************************************************)
LEMMA CurrentSteps ==
  ASSUME [Next]_vars
  PROVE  \/ current' = current
         \/ Purge /\ current' = <<>>
         \/ pc = "cas" /\ current' = c.chain
         \/ \E w \in limbo : w.kind = "current" /\ current' = w.chain
<1>1. CASE MovePointer
  BY <1>1 DEF MovePointer, SwapPointer
<1>2. CASE LandLate
  BY <1>2 DEF LandLate, SwapPointer
<1>3. CASE PurgeDeletes
  BY <1>3 DEF PurgeDeletes, Purge
<1>4. current' = current \/ MovePointer \/ LandLate \/ PurgeDeletes
  BY DEF Next, Begin, Commit, ReadManifest, RefuseRequest, Attempt, AttemptFails, PutBlob,
         PutManifest, SlotTaken, CasLost, Outcome, PointerEvent, Reply, Refuse,
         Alarm, AlarmFires, AlarmPutEvent, AlarmDropEvent, AlarmListOutcomes, AlarmAppendOutcome,
         AlarmDropOutcome, AlarmDropRefused, AlarmAlerts,
         AlarmEnds, Crash, Deploy, Die, Purge, PurgeBegins,
         PurgeLists, PurgeEnds, PurgeDies, vars, r2
<1> QED BY <1>1, <1>2, <1>3, <1>4

(* A manifest goes into a slot that is free; only a deletion removes one. *)
LEMMA SlotSteps ==
  ASSUME [Next]_vars
  PROVE  \/ manifests' = manifests
         \/ Purge /\ manifests' \subseteq manifests
         \/ \E m : /\ manifests' = manifests \cup {m} /\ ~Taken(Epoch(m.chain))
                   /\ \/ pc = "slot" /\ m = Manifest
                      \/ \E w \in limbo : w.kind = "manifest" /\ m = w.manifest
<1>1. CASE PutManifest
  <2>1. /\ manifests' = manifests \cup {Manifest} /\ ~Taken(Epoch(Manifest.chain))
        /\ pc = "slot"
    BY <1>1 DEF PutManifest, Manifest
  <2> QED BY <2>1
<1>2. CASE LandLate
  <2>1. PICK w \in limbo : \/ manifests' = manifests
                           \/ /\ w.kind = "manifest" /\ ~Taken(Epoch(w.manifest.chain))
                              /\ manifests' = manifests \cup {w.manifest}
    BY <1>2 DEF LandLate
  <2> QED BY <2>1
<1>3. CASE PurgeDeletes
  BY <1>3 DEF PurgeDeletes, Purge
<1>4. manifests' = manifests \/ PutManifest \/ LandLate \/ PurgeDeletes
  BY DEF Next, Begin, Commit, ReadManifest, RefuseRequest, Attempt, AttemptFails, PutBlob,
         SlotTaken, MovePointer, CasLost, Outcome, PointerEvent, Reply, Refuse,
         Alarm, AlarmFires, AlarmPutEvent, AlarmDropEvent, AlarmListOutcomes, AlarmAppendOutcome,
         AlarmDropOutcome, AlarmDropRefused, AlarmAlerts,
         AlarmEnds, Crash, Deploy, Die, Purge, PurgeBegins,
         PurgeLists, PurgeEnds, PurgeDies, vars, r2
<1> QED BY <1>1, <1>2, <1>3, <1>4

(* A write stays on its way, or was sent by a commit that died. *)
LEMMA LimboSteps ==
  ASSUME [Next]_vars, NEW w \in limbo', w \notin limbo
  PROVE  w \in Sent /\ Die
BY NoneLeftBehind DEF Die

LEMMA StepStoresOK ==
  ASSUME Shape, Counted, StoresOK, CommitOK, [Next]_vars
  PROVE  StoresOK'
<1>1. /\ tries \in Nat /\ tries' \in Nat /\ tries <= tries'
      /\ kek \in Nat /\ kek' \in Nat /\ kek <= kek'
      /\ MaxTries \in Nat
  BY StepCounted, WriterAssumption DEF Counted
<1>2. pc \in Built => /\ History(c.chain, tries) /\ History(c.chain, MaxTries)
                      /\ ManifestOK(Manifest, kek) /\ c.todo \subseteq Blobs
  <2> SUFFICES ASSUME pc \in Built
               PROVE  History(c.chain, tries) /\ History(c.chain, MaxTries)
    BY DEF CommitOK
  <2>1. /\ pc # "idle" /\ c.chain = Append(c.prev, c.id)
        /\ c.id \in 1 .. tries /\ History(c.prev, c.id - 1)
    BY DEF CommitOK, Shape, CommitShape, Built, Announced, AfterCas
  <2>2. c.id \in Nat \ {0} /\ c.id <= tries
    BY <1>1, <2>1
  <2>3. History(c.chain, tries)
    BY <1>1, <2>1, <2>2, HistoryAppend, HistoryGrows
  <2>4. History(c.chain, MaxTries)
    BY <2>3, <1>1, HistoryGrows DEF Counted
  <2> QED BY <2>3, <2>4
<1>3. History(current', tries')
  <2>1. \A w \in limbo : w.kind = "current" => History(w.chain, tries)
    BY DEF StoresOK, WriteOK
  <2>2. History(current, tries)
    BY DEF StoresOK
  <2>3. \E ch : current' = ch /\ History(ch, tries)
    BY <1>2, <2>1, <2>2, CurrentSteps, EmptyHistory DEF Built, Announced
  <2> QED BY <1>1, <2>3, HistoryGrows
<1>4. ASSUME NEW m \in manifests' PROVE ManifestOK(m, kek')
  <2>1. ManifestOK(m, kek)
    BY <1>2, <1>4, SlotSteps DEF StoresOK, WriteOK, Built, Announced
  <2> QED BY <1>1, <2>1, ManifestGrows
<1>5. ASSUME NEW m \in manifests', NEW n \in manifests', Epoch(m.chain) = Epoch(n.chain)
      PROVE  m = n
  BY <1>5, SlotSteps DEF StoresOK, OneSlot, Taken
<1>6. blobs' \subseteq Blobs
  BY <1>2, BlobSteps DEF StoresOK, WriteOK, Built, Announced
<1>7. ASSUME NEW w \in limbo'
      PROVE  /\ w.kind = "blob" => w.blob \in Blobs
             /\ w.kind = "manifest" => ManifestOK(w.manifest, kek')
             /\ w.kind = "current" => History(w.chain, tries')
             /\ w.kind = "event" => History(w.event, MaxTries)
  <2>1. CASE w \in limbo
    <3>1. WriteOK(w)
      BY <2>1 DEF StoresOK
    <3> QED BY <1>1, <3>1, ManifestGrows, HistoryGrows DEF WriteOK
  <2>2. CASE w \notin limbo
    <3>1. w \in Sent
      BY <1>7, <2>2, LimboSteps
    <3>2. CASE pc = "blobs" /\ w \in [kind : {"blob"}, blob : c.todo]
      BY <1>2, <3>2 DEF Built, Announced
    <3>3. CASE pc = "slot" /\ w = [kind |-> "manifest", manifest |-> Manifest]
      <4>1. ManifestOK(Manifest, kek')
        BY <1>1, <1>2, <3>3, ManifestGrows DEF Built, Announced
      <4> QED BY <3>3, <4>1
    <3>4. CASE pc = "cas" /\ w = [kind |-> "current", prev |-> c.prev, chain |-> c.chain]
      <4>1. History(c.chain, tries')
        BY <1>1, <1>2, <3>4, HistoryGrows DEF Built, Announced
      <4> QED BY <3>4, <4>1
    <3>5. CASE pc = "event" /\ w = [kind |-> "event", event |-> c.chain]
      BY <1>2, <3>5 DEF Built, Announced, AfterCas
    <3> QED BY <3>1, <3>2, <3>3, <3>4, <3>5, SentWrites
  <2> QED BY <2>1, <2>2
<1>8. \A m \in manifests' : ManifestOK(m, kek')
  BY <1>4
<1>9. \A w \in limbo' : /\ w.kind = "blob" => w.blob \in Blobs
                        /\ w.kind = "manifest" => ManifestOK(w.manifest, kek')
                        /\ w.kind = "current" => History(w.chain, tries')
                        /\ w.kind = "event" => History(w.event, MaxTries)
  BY <1>7
<1>10. \A m, n \in manifests' : Epoch(m.chain) = Epoch(n.chain) => m = n
  BY <1>5
<1> QED BY <1>3, <1>6, <1>8, <1>9, <1>10
        DEF StoresOK, OneSlot, WriteOK, ManifestOK, EntriesOK, History, Epoch
-----------------------------------------------------------------------------
(***************************************************************************)
(* The queues and the events.                                              *)
(***************************************************************************)
LEMMA EventSteps ==
  ASSUME [Next]_vars
  PROVE  \/ events' = events
         \/ \E ch : /\ PutEvent(ch)
                    /\ \/ pc = "event" /\ ch = c.chain
                       \/ ch \in al.todo
                       \/ \E w \in limbo : w.kind = "event" /\ ch = w.event
<1>1. CASE PointerEvent
  BY <1>1 DEF PointerEvent
<1>2. CASE AlarmPutEvent
  BY <1>2 DEF AlarmPutEvent
<1>3. CASE LandLate
  BY <1>3 DEF LandLate
<1>4. events' = events \/ PointerEvent \/ AlarmPutEvent \/ LandLate
  BY DEF Next, Begin, Commit, ReadManifest, RefuseRequest, Attempt, AttemptFails, PutBlob,
         PutManifest, SlotTaken, MovePointer, CasLost, Outcome, Reply, Refuse,
         Alarm, AlarmFires, AlarmDropEvent, AlarmListOutcomes, AlarmAppendOutcome,
         AlarmDropOutcome, AlarmDropRefused, AlarmAlerts,
         AlarmEnds, Crash, Deploy, Die, Purge, PurgeBegins,
         PurgeLists, PurgeDeletes, PurgeEnds, PurgeDies, vars, r2
<1> QED BY <1>1, <1>2, <1>3, <1>4

(* A record is keyed by its epoch. *)
LEMMA PendingEventSteps ==
  ASSUME [Next]_vars
  PROVE  \/ pendingEvents' \subseteq pendingEvents
         \/ /\ pc = "event"
            /\ pendingEvents' = {p \in pendingEvents : Epoch(p) # Epoch(c.chain)} \cup {c.chain}
<1>1. CASE PointerEvent
  BY <1>1 DEF PointerEvent, EnqueueEvent
<1>2. CASE AlarmDropEvent
  BY <1>2 DEF AlarmDropEvent
<1>3. pendingEvents' = pendingEvents \/ PointerEvent \/ AlarmDropEvent
  BY DEF Next, Begin, Commit, ReadManifest, RefuseRequest, Attempt, AttemptFails, PutBlob,
         PutManifest, SlotTaken, MovePointer, CasLost, Outcome, Reply, Refuse,
         Alarm, AlarmFires, AlarmPutEvent, AlarmListOutcomes, AlarmAppendOutcome,
         AlarmDropOutcome, AlarmDropRefused, AlarmAlerts,
         AlarmEnds, Crash, Deploy, Die, LandLate, Purge, PurgeBegins,
         PurgeLists, PurgeDeletes, PurgeEnds, PurgeDies, vars, storage
<1> QED BY <1>1, <1>2, <1>3

LEMMA RefusedSteps ==
  ASSUME [Next]_vars
  PROVE  \A ch \in refused' : ch \in refused \/ (pc = "outcome" /\ ch = c.chain) \/ ch \in al.todo
<1>1. CASE Outcome
  BY <1>1 DEF Outcome
<1>2. CASE AlarmAppendOutcome
  BY <1>2 DEF AlarmAppendOutcome
<1>3. refused' = refused \/ Outcome \/ AlarmAppendOutcome
  BY DEF Next, Begin, Commit, ReadManifest, RefuseRequest, Attempt, AttemptFails, PutBlob,
         PutManifest, SlotTaken, MovePointer, CasLost, PointerEvent, Reply, Refuse,
         Alarm, AlarmFires, AlarmPutEvent, AlarmDropEvent, AlarmListOutcomes,
         AlarmDropOutcome, AlarmDropRefused, AlarmAlerts,
         AlarmEnds, Crash, Deploy, Die, LandLate, Purge, PurgeBegins,
         PurgeLists, PurgeDeletes, PurgeEnds, PurgeDies, vars, audit
<1> QED BY <1>1, <1>2, <1>3

(* The handler works off what it listed. *)
LEMMA ListedSteps ==
  ASSUME Shape, [Next]_vars
  PROVE  al'.todo \subseteq al.todo \cup pendingEvents \cup pendingOutcomes
<1>0. al = [todo |-> al.todo, done |-> al.done, left |-> al.left]
  BY DEF Shape, AlarmShape
<1>1. CASE AlarmFires
  BY <1>1 DEF AlarmFires, NoAlarm
<1>2. CASE AlarmListOutcomes
  BY <1>0, <1>2 DEF AlarmListOutcomes
<1>3. CASE AlarmPutEvent \/ AlarmAppendOutcome
  BY <1>0, <1>3 DEF AlarmPutEvent, AlarmAppendOutcome
<1>4. CASE AlarmDropEvent \/ AlarmDropOutcome \/ AlarmDropRefused \/ AlarmAlerts
  BY <1>0, <1>4 DEF AlarmDropEvent, AlarmDropOutcome, AlarmDropRefused, AlarmAlerts
<1>5. CASE AlarmEnds \/ Crash \/ Deploy
  BY <1>5 DEF AlarmEnds, Crash, Deploy, Die, NoAlarm
<1>6. CASE Commit
  BY <1>6
     DEF Commit, ReadManifest, RefuseRequest, Attempt, AttemptFails, PutBlob, PutManifest,
         SlotTaken, MovePointer, CasLost, Outcome, PointerEvent, Reply, Refuse, alarmHandler
<1>7. CASE LandLate \/ Purge \/ UNCHANGED vars \/ \E r \in Requests : Begin(r)
  BY <1>7 DEF LandLate, Purge, PurgeBegins, PurgeLists, PurgeDeletes, PurgeEnds, PurgeDies,
              Begin, vars, alarmHandler
<1> QED BY <1>1, <1>2, <1>3, <1>4, <1>5, <1>6, <1>7 DEF Next, Alarm

LEMMA StepQueuesOK ==
  ASSUME Shape, StoresOK, CommitOK, QueuesOK, [Next]_vars
  PROVE  QueuesOK'
<1>1. pc \in Built => History(c.chain, MaxTries)
  BY DEF CommitOK, ManifestOK, Manifest
<1>2. \A ch \in events \cup pendingEvents \cup pendingOutcomes \cup refused \cup al.todo :
        History(ch, MaxTries)
  BY DEF QueuesOK
<1>3. \A w \in limbo : w.kind = "event" => History(w.event, MaxTries)
  BY DEF StoresOK, WriteOK
<1>4. ASSUME NEW ch \in events' PROVE History(ch, MaxTries)
  BY <1>1, <1>2, <1>3, <1>4, EventSteps DEF PutEvent, Built, Announced, AfterCas
<1>5. ASSUME NEW ch \in pendingEvents' PROVE History(ch, MaxTries)
  BY <1>1, <1>2, <1>5, PendingEventSteps DEF Built, Announced, AfterCas
<1>6. ASSUME NEW ch \in pendingOutcomes' PROVE History(ch, MaxTries)
  BY <1>1, <1>2, <1>6, PendingSteps DEF Built, Announced, AfterCas
<1>7. ASSUME NEW ch \in refused' PROVE History(ch, MaxTries)
  BY <1>1, <1>2, <1>7, RefusedSteps DEF Built, Announced, AfterCas
<1>8. ASSUME NEW ch \in al'.todo PROVE History(ch, MaxTries)
  BY <1>2, <1>8, ListedSteps
<1>9. \A ch \in (events \cup pendingEvents \cup pendingOutcomes \cup refused \cup al.todo)' :
        History(ch, MaxTries)
  BY <1>4, <1>5, <1>6, <1>7, <1>8
<1>10. \A x, y \in events' : Epoch(x) = Epoch(y) => x = y
  BY EventSteps DEF PutEvent, EventAt, QueuesOK, OneAnEpoch
<1>11. \A x, y \in pendingEvents' : Epoch(x) = Epoch(y) => x = y
  BY PendingEventSteps DEF QueuesOK, OneAnEpoch
<1> QED BY <1>9, <1>10, <1>11 DEF QueuesOK, OneAnEpoch, History, Epoch
-----------------------------------------------------------------------------
(***************************************************************************)
(* The order of the writes.                                                *)
(***************************************************************************)
(* A commit goes on to its manifest with every blob stored, and to the pointer
   with its manifest stored. *)
LEMMA StageSteps ==
  ASSUME Shape, [Next]_vars, pc \in Built, pc' \in Built
  PROVE  /\ c.todo \subseteq c'.todo \cup blobs'
         /\ pc' \in {"slot", "cas"} => c'.todo = {} \/ (pc \in {"slot", "cas"} /\ c' = c)
         /\ pc' = "cas" => (pc = "cas" /\ c' = c) \/ (c' = c /\ Manifest \in manifests')
<1> USE DEF Built, Announced, AfterCas, Goto
<1>1. CASE PutBlob
  <2>1. PICK b \in c.todo : /\ c' = [c EXCEPT !.todo = @ \ {b}] /\ blobs' = blobs \cup {b}
                            /\ pc' = IF c.todo = {b} THEN "slot" ELSE "blobs"
    BY <1>1 DEF PutBlob
  <2>2. c'.todo = c.todo \ {b}
    BY <2>1 DEF Shape, CommitShape
  <2> QED BY <2>1, <2>2
<1>2. CASE Attempt
  BY <1>2 DEF Attempt
<1>3. CASE PutManifest
  BY <1>3 DEF PutManifest
<1>4. CASE MovePointer \/ Outcome \/ PointerEvent
  BY <1>4 DEF MovePointer, Outcome, PointerEvent
<1>5. CASE RefuseRequest \/ SlotTaken \/ CasLost \/ AttemptFails \/ Reply \/ Crash \/ Deploy
           \/ ReadManifest
  BY <1>5 DEF RefuseRequest, SlotTaken, CasLost, Refuse, AttemptFails, Reply, Crash, Deploy, Die,
              ReadManifest
<1>6. ASSUME NEW r \in Requests PROVE ~Begin(r)
  BY DEF Begin
<1>7. CASE Alarm \/ LandLate \/ Purge \/ UNCHANGED vars
  <2>1. UNCHANGED <<pc, c>>
    BY <1>7 DEF Alarm, AlarmFires, AlarmPutEvent, AlarmDropEvent, AlarmListOutcomes,
                AlarmAppendOutcome, AlarmDropOutcome, AlarmDropRefused, AlarmAlerts,
                AlarmEnds, LandLate, Purge, PurgeBegins,
                PurgeLists, PurgeDeletes, PurgeEnds, PurgeDies, vars
  <2> QED BY <2>1
<1> QED BY <1>1, <1>2, <1>3, <1>4, <1>5, <1>6, <1>7 DEF Next, Commit

LEMMA BlobsStay ==
  ASSUME [Next]_vars, ~Purge
  PROVE  blobs \subseteq blobs'
<1>1. CASE PutBlob \/ LandLate
  BY <1>1 DEF PutBlob, LandLate
<1>2. blobs' = blobs \/ PutBlob \/ LandLate
  BY DEF Next, Begin, Commit, ReadManifest, RefuseRequest, Attempt, AttemptFails, PutManifest,
         SlotTaken, MovePointer, CasLost, Outcome, PointerEvent, Reply, Refuse,
         Alarm, AlarmFires, AlarmPutEvent, AlarmDropEvent, AlarmListOutcomes, AlarmAppendOutcome,
         AlarmDropOutcome, AlarmDropRefused, AlarmAlerts,
         AlarmEnds, Crash, Deploy, Die, vars, r2
<1> QED BY <1>1, <1>2

LEMMA StepOrdered ==
  ASSUME Shape, Counted, StoresOK, CommitOK, Ordered, [Next]_vars, purges' = 0
  PROVE  Ordered'
<1>1. ~Purge /\ ~Purging'
  BY PurgeSteps DEF Ordered
<1>2. blobs \subseteq blobs' /\ manifests \subseteq manifests'
  BY <1>1, BlobsStay, SlotSteps
<1>3. \A m \in manifests : \A k \in DOMAIN m.entries : m.entries[k].blob \in blobs
  BY DEF Ordered, Stands
<1>4. pc = "slot" => \A k \in DOMAIN c.entries : c.entries[k].blob \in blobs
  BY DEF Ordered, Built, Announced
<1>5. ASSUME NEW m \in manifests', NEW k \in DOMAIN m.entries PROVE m.entries[k].blob \in blobs'
  <2>1. CASE m \in manifests
    BY <1>2, <1>3, <2>1
  <2>2. CASE m \notin manifests
    <3>1. CASE pc = "slot" /\ m = Manifest
      BY <1>2, <1>4, <3>1 DEF Manifest
    <3>2. CASE \E w \in limbo : w.kind = "manifest" /\ m = w.manifest
      BY <1>2, <3>2 DEF Ordered, Stands
    <3> QED BY <1>5, <2>2, <3>1, <3>2, ManifestSteps
  <2> QED BY <2>1, <2>2
<1>6. ASSUME NEW w \in limbo'
      PROVE  /\ w.kind = "manifest" =>
                  \A k \in DOMAIN w.manifest.entries : w.manifest.entries[k].blob \in blobs'
             /\ w.kind = "current" => \E m \in manifests' : m.chain = w.chain
  <2>1. CASE w \in limbo
    BY <1>2, <2>1 DEF Ordered, Stands, Resolves
  <2>2. CASE w \notin limbo
    <3>1. w \in Sent
      BY <1>6, <2>2, LimboSteps
    <3>2. CASE pc = "slot" /\ w = [kind |-> "manifest", manifest |-> Manifest]
      BY <1>2, <1>4, <3>2 DEF Manifest
    <3>3. CASE pc = "cas" /\ w = [kind |-> "current", prev |-> c.prev, chain |-> c.chain]
      BY <1>2, <3>3 DEF Ordered, Resolves
    <3>4. CASE w.kind \in {"blob", "event"}
      BY <3>4
    <3> QED BY <3>1, <3>2, <3>3, <3>4, SentWrites
  <2> QED BY <2>1, <2>2
<1>7. current' # <<>> => \E m \in manifests' : m.chain = current'
  BY <1>1, <1>2, CurrentSteps DEF Ordered, Resolves
<1>8. ASSUME pc' \in Built, NEW k \in DOMAIN c'.entries
      PROVE  c'.entries[k].blob \in blobs' \cup c'.todo
  <2>1. CASE pc \in Built
    <3>1. c'.entries = c.entries
      BY <1>8, <2>1, CommitRuns
         DEF ReadManifest, Built, Announced, AfterCas, Manifest
    <3>2. c.entries[k].blob \in blobs \cup c.todo
      BY <1>8, <2>1, <3>1 DEF Ordered
    <3>3. c.todo \subseteq c'.todo \cup blobs'
      BY <1>8, <2>1, StageSteps
    <3> QED BY <1>2, <3>1, <3>2, <3>3
  <2>2. CASE pc \notin Built
    <3>1. /\ ReadManifest
          /\ c.prev = <<>> \/ Resolves(c.prev)
          /\ EpochPin(c.req, Epoch(c.prev))
          /\ c' = [c EXCEPT !.chain = Append(c.prev, c.id),
                            !.entries = Apply(PrevEntries, c.req, c.id),
                            !.todo = NewBlobs(c.req, c.id)]
      BY <1>8, <2>2, CommitRuns DEF Built, Announced, AfterCas
    <3>2. \/ c'.entries[k].blob \in c'.todo
          \/ \E m \in manifests : k \in DOMAIN m.entries
                                  /\ c'.entries[k].blob = m.entries[k].blob
      BY <1>8, <3>1, PrepareManifest
    <3> QED BY <1>2, <1>3, <3>2
  <2> QED BY <2>1, <2>2
<1>9. pc' \in {"slot", "cas"} => c'.todo = {}
  <2> SUFFICES ASSUME pc' \in {"slot", "cas"} PROVE c'.todo = {}
    OBVIOUS
  <2>1. pc' \in Built /\ pc \in Built
    BY CommitRuns DEF Built, Announced
  <2> QED BY <2>1, StageSteps DEF Ordered
<1>10. pc' = "cas" => \E m \in manifests' : m.chain = c'.chain
  <2> SUFFICES ASSUME pc' = "cas" PROVE \E m \in manifests' : m.chain = c'.chain
    OBVIOUS
  <2>1. pc' \in Built /\ pc \in Built
    BY CommitRuns DEF Built, Announced
  <2>2. CASE pc = "cas" /\ c' = c
    BY <1>2, <2>2 DEF Ordered, Resolves
  <2>3. CASE c' = c /\ Manifest \in manifests'
    BY <2>3 DEF Manifest
  <2> QED BY <2>1, <2>2, <2>3, StageSteps
<1>11. \A m \in manifests' : \A k \in DOMAIN m.entries : m.entries[k].blob \in blobs'
  BY <1>5
<1>12. \A w \in limbo' :
         /\ w.kind = "manifest" =>
              \A k \in DOMAIN w.manifest.entries : w.manifest.entries[k].blob \in blobs'
         /\ w.kind = "current" => \E m \in manifests' : m.chain = w.chain
  BY <1>6
<1>13. pc' \in Built => \A k \in DOMAIN c'.entries : c'.entries[k].blob \in blobs' \cup c'.todo
  BY <1>8
<1> QED BY <1>1, <1>7, <1>9, <1>10, <1>11, <1>12, <1>13 DEF Ordered, Stands, Resolves
-----------------------------------------------------------------------------
(***************************************************************************)
(* The theorems.                                                           *)
(***************************************************************************)
LEMMA InitStoreInv == Init => StoreInv
<1> SUFFICES ASSUME Init PROVE StoreInv
  OBVIOUS
<1> USE DEF Init, NoCommit, NoAlarm, Built, Announced, AfterCas
<1>1. Counted
  BY WriterAssumption DEF Counted
<1>2. StoresOK
  BY EmptyHistory DEF StoresOK, OneSlot
<1>3. QueuesOK
  BY DEF QueuesOK, OneAnEpoch
<1>4. CommitOK
  BY DEF CommitOK
<1>5. Ordered
  BY DEF Ordered, Purging
<1> QED BY <1>1, <1>2, <1>3, <1>4, <1>5 DEF StoreInv

(* What R2 and the object hold at every step, the writes of dead commits that
   are still on their way included (writer-do.ts: commit, casPutCurrent). *)
THEOREM StoreInvHolds == Spec => []StoreInv
<1>1. StoreInv /\ Shape /\ [Next]_vars => StoreInv'
  <2> SUFFICES ASSUME StoreInv, Shape, [Next]_vars PROVE StoreInv'
    OBVIOUS
  <2>1. Counted' /\ StoresOK' /\ QueuesOK' /\ CommitOK'
    BY StepCounted, StepStoresOK, StepQueuesOK, StepCommitOK DEF StoreInv
  <2>2. purges' = 0 => Ordered'
    <3> SUFFICES ASSUME purges' = 0 PROVE Ordered'
      OBVIOUS
    <3>1. purges = 0
      <4>1. purges \in Nat
        BY DEF StoreInv, Counted
      <4>2. purges' = purges \/ purges' = purges + 1
        BY DEF Next, Begin, Commit, ReadManifest, RefuseRequest, Attempt, AttemptFails, PutBlob,
               PutManifest, SlotTaken, MovePointer, CasLost, Outcome, PointerEvent, Reply, Refuse,
               Alarm, AlarmFires, AlarmPutEvent, AlarmDropEvent, AlarmListOutcomes,
               AlarmAppendOutcome, AlarmDropOutcome, AlarmDropRefused, AlarmAlerts,
               AlarmEnds, Crash, Deploy, Die, LandLate,
               Purge, PurgeBegins, PurgeLists, PurgeDeletes, PurgeEnds, PurgeDies, vars, purger
      <4> QED BY <4>1, <4>2
    <3> QED BY <3>1, StepOrdered DEF StoreInv
  <2> QED BY <2>1, <2>2 DEF StoreInv
<1>2. WriterInv => Shape
  BY DEF WriterInv
<1> QED BY <1>1, <1>2, InitStoreInv, WriterInvHolds, PTL DEF Spec

(* Both invariants of ProjectWriter hold, whatever crashes, late writes and
   deletions come between the awaits of commit and alarm. *)
THEOREM IInvHolds == Spec => []IInv
<1>1. WriterInv /\ StoreInv => IInv
  BY DEF IInv
<1> QED BY <1>1, WriterInvHolds, StoreInvHolds, PTL

(* Every variable keeps its shape, an epoch has one manifest, one event and one
   pending-event record (slotPut with onlyIf, enqueueEvent's key). *)
THEOREM TypeCorrect == Spec => []TypeOK
<1>1. WriterInv /\ StoreInv => TypeOK
  <2> SUFFICES ASSUME WriterInv, StoreInv PROVE TypeOK
    OBVIOUS
  <2>1. tries \in 0 .. MaxTries /\ kek \in 0 .. KekMax /\ MaxTries \in Nat
    BY WriterAssumption DEF StoreInv, Counted
  <2>2. current \in Chains
    <3>1. History(current, MaxTries)
      BY <2>1, HistoryGrows DEF StoreInv, StoresOK
    <3> QED BY <3>1, HistoryIsChain
  <2>3. ASSUME NEW m \in manifests
        PROVE  /\ m.chain \in Chains \ {<<>>}
               /\ m.req \in Requests
               /\ DOMAIN m.entries \subseteq Keys
               /\ \A k \in DOMAIN m.entries :
                    m.entries[k] \in [version : Nat \ {0}, blob : Blobs, kid : 0 .. kek]
    BY HistoryIsChain DEF StoreInv, StoresOK, ManifestOK, EntriesOK
  <2>4. OneAnEpoch({m.chain : m \in manifests})
    BY DEF StoreInv, StoresOK, OneSlot, OneAnEpoch
  <2>5. blobs \subseteq Blobs
    BY DEF StoreInv, StoresOK
  <2>6. /\ events \subseteq Chains /\ pendingEvents \subseteq Chains
        /\ pendingOutcomes \subseteq Chains
        /\ refused \subseteq Chains /\ alerts \subseteq refused
    BY HistoryIsChain DEF StoreInv, QueuesOK, WriterInv, Account
  <2>7. OneAnEpoch(events) /\ OneAnEpoch(pendingEvents)
    BY DEF StoreInv, QueuesOK
  <2> QED BY <2>1, <2>2, <2>3, <2>4, <2>5, <2>6, <2>7 DEF TypeOK
<1> QED BY <1>1, WriterInvHolds, StoreInvHolds, PTL

(* A reader that follows the pointer of a project that was never deleted finds
   its manifest and every blob of it, whichever commits died half-way and however
   late their writes landed (commit: blobs, manifest slot, pointer CAS). *)
THEOREM PointerAlwaysResolves == Spec => []PointerResolves
<1>1. StoreInv => PointerResolves
  <2> SUFFICES ASSUME StoreInv, purges = 0, current # <<>>
               PROVE  /\ Resolves(current)
                      /\ \A k \in DOMAIN ManifestOf(current).entries :
                           ManifestOf(current).entries[k].blob \in blobs
    BY DEF PointerResolves
  <2>1. Ordered /\ Resolves(current)
    BY DEF StoreInv, Ordered
  <2>2. \E m \in manifests : m.chain = current
    BY <2>1 DEF Resolves
  <2>3. ManifestOf(current) \in manifests
    BY <2>2 DEF ManifestOf
  <2> QED BY <2>1, <2>3 DEF Ordered, Stands
<1> QED BY <1>1, StoreInvHolds, PTL

(* A request that pins the epoch it expects makes one manifest at most, however
   often it is sent again (commit: ifEpoch, the manifest slot). *)
THEOREM PinnedCommitsOnce == Spec => []PinnedOnce
<1>1. StoreInv => PinnedOnce
  <2> SUFFICES ASSUME StoreInv, NEW m \in manifests, NEW n \in manifests,
                      m.req = n.req, m.req.ifEpoch # None
               PROVE  m = n
    BY DEF PinnedOnce
  <2>1. /\ Len(m.chain) = m.req.ifEpoch + 1
        /\ Len(n.chain) = n.req.ifEpoch + 1
    BY DEF StoreInv, StoresOK, ManifestOK
  <2> QED BY <2>1 DEF StoreInv, StoresOK, OneSlot, Epoch
<1> QED BY <1>1, StoreInvHolds, PTL
=============================================================================
