--------------------------- MODULE ProjectWriter ---------------------------
(***************************************************************************)
(* ProjectWriterDO (worker/src/writer-do.ts): the one writer of a project. *)
(* A commit touches four stores and no transaction spans them:             *)
(*                                                                         *)
(*    audit attempt -> blobs -> manifest slot -> pointer CAS (R2)          *)
(*      -> audit outcome -> pointer event -> escrow queue                  *)
(*                                                                         *)
(* Commits run one at a time (blockConcurrencyWhile), but the object can   *)
(* die between any two steps, with an R2 write still on its way; its alarm *)
(* handler is suspended at its awaits while commits run; and an admin's    *)
(* DELETE of the project removes the same R2 objects from outside.         *)
(*                                                                         *)
(* Hashes.  A manifest holds the hash of the one before it, so its hash    *)
(* commits to the whole history: it is modelled by the sequence of the ids *)
(* of the commits that led to it (chain), the epoch being its length.  A   *)
(* commit has fresh DEKs, so no two blobs and no two manifests are equal:  *)
(* a blob is named by the commit and the key it was sealed for.            *)
(***************************************************************************)
EXTENDS Naturals, Sequences, FiniteSets, SequencesExt, FiniteSetsExt, Functions

CONSTANTS
  Keys,       \* key names
  Requests,   \* requests a caller may send, as often as it likes
  KekMax,     \* bound: KEK rotations
  MaxTries,   \* bound: commits begun
  MaxFails,   \* bound: crashes, refused and unanswered calls
  MaxPurges,  \* bound: DELETEs of the project
  PageSize,   \* objects in a page of an R2 list
  EscrowOn,   \* the escrow is configured
  None        \* "absent"

(* A request puts values (set: one key, import: several), deletes a key or
   rewraps the DEKs; a put may pin the epoch it expects. *)
RequestOK(r) ==
  /\ r.op \in {"put", "delete", "rewrap"}
  /\ r.keys \subseteq Keys
  /\ r.op = "put" => r.keys # {}
  /\ r.op = "delete" => Cardinality(r.keys) = 1
  /\ r.ifEpoch \in Nat \cup {None}

ASSUME WriterAssumption ==
  /\ \A r \in Requests : RequestOK(r)
  /\ KekMax \in Nat /\ MaxTries \in Nat /\ MaxFails \in Nat /\ MaxPurges \in Nat
  /\ PageSize \in Nat \ {0}
  /\ EscrowOn \in BOOLEAN

VARIABLES
  \* R2
  current,   \* the pointer: the chain of the manifest it names, <<>> if absent
  manifests, \* one at most for an epoch
  blobs, events,
  limbo,     \* R2 writes a dead commit had sent: each may still be executed
  \* storage of the object
  pendingEvents, pendingOutcomes,
  alarm,     \* an alarm is set
  queued,    \* R2 objects ever queued for the escrow
  \* the audit DO
  ledger,
  refused,   \* commits whose outcome batch it was seen to refuse for good
  \* the A8 channel
  alerts,    \* commits an alert was raised for; its delivery is best effort
  \* memory of the running object
  pc, c,     \* the commit
  apc, al,   \* the alarm handler
  kek,       \* the current KEK (MASTER_KEK); the one before is MASTER_KEK_PREV
  \* the DELETE handler in the Worker
  ppc, page,
  \* observation
  committed, \* chains the pointer ever named
  acked,     \* chains a caller was told are committed
  tries, fails, purges

r2 == <<current, manifests, blobs, events, limbo>>
storage == <<pendingEvents, pendingOutcomes, alarm, queued>>
audit == <<ledger, refused, alerts>>
alarmHandler == <<apc, al>>
purger == <<ppc, page, purges>>
observed == <<committed, acked, tries, fails>>
vars == <<r2, storage, audit, pc, c, alarmHandler, kek, purger, observed>>
-----------------------------------------------------------------------------
Epoch(chain) == Len(chain)
Taken(epoch) == \E m \in manifests : Epoch(m.chain) = epoch
EventAt(epoch) == \E ch \in events : Epoch(ch) = epoch

(* The entries of the manifest the pointer names. *)
ManifestOf(chain) == CHOOSE m \in manifests : m.chain = chain
Resolves(chain) == \E m \in manifests : m.chain = chain

Version(entries, k) == IF k \in DOMAIN entries THEN entries[k].version ELSE 0

(* What a request makes of the entries. *)
Apply(entries, r, id) ==
  CASE r.op = "put" ->
         [k \in DOMAIN entries \cup r.keys |->
            IF k \in r.keys
            THEN [version |-> Version(entries, k) + 1, blob |-> [id |-> id, key |-> k], kid |-> kek]
            ELSE entries[k]]
    [] r.op = "delete" -> Restrict(entries, DOMAIN entries \ r.keys)
    [] r.op = "rewrap" -> [k \in DOMAIN entries |-> [entries[k] EXCEPT !.kid = kek]]

NewBlobs(r, id) == IF r.op = "put" THEN [id : {id}, key : r.keys] ELSE {}

Stale(entries) == {k \in DOMAIN entries : entries[k].kid # kek}

(* The masters a KEK rotation leaves: the current one and the one before. *)
Unwraps(kid) == kid = kek \/ kid + 1 = kek

EpochPinNone(r, epoch) == TRUE
EpochPin(r, epoch) == r.ifEpoch # None => r.ifEpoch = epoch

(* The checks of a commit that has read the entries. *)
Admitted(entries, r) ==
  /\ EpochPin(r, Epoch(c.prev))
  /\ r.op = "delete" => r.keys \subseteq DOMAIN entries
  /\ r.op = "rewrap" => \A k \in Stale(entries) : Unwraps(entries[k].kid)

NoCommit == [id |-> 0, req |-> None, prev |-> <<>>, chain |-> <<>>, entries |-> <<>>, todo |-> {}]

Goto(label) == pc' = label

Fail == fails < MaxFails /\ fails' = fails + 1
-----------------------------------------------------------------------------
(***************************************************************************)
(* commit                                                                  *)
(***************************************************************************)
(* The request is delivered and the pointer read.  Worker and caller both
   retry, so any request may come again. *)
Begin(r) ==
  /\ pc = "idle"
  /\ tries < MaxTries
  /\ tries' = tries + 1
  /\ c' = [NoCommit EXCEPT !.id = tries', !.req = r, !.prev = current]
  /\ Goto("manifest")
  /\ UNCHANGED <<r2, storage, audit, alarmHandler, kek, purger, committed, acked, fails>>

(* The manifest resolves, the request is admitted and applied. *)
Prepare(entries) ==
  /\ Admitted(entries, c.req)
  /\ c.req.op = "rewrap" => Stale(entries) # {}
  /\ c' = [c EXCEPT !.chain = Append(c.prev, c.id),
                    !.entries = Apply(entries, c.req, c.id),
                    !.todo = NewBlobs(c.req, c.id)]
  /\ Goto("attempt")

(* A rewrap that finds nothing to do answers 200 and makes no epoch. *)
RewrapNoop(entries) ==
  /\ c.req.op = "rewrap"
  /\ Admitted(entries, c.req)
  /\ Stale(entries) = {}
  /\ c' = NoCommit
  /\ Goto("idle")

PrevEntries == IF c.prev = <<>> THEN <<>> ELSE ManifestOf(c.prev).entries

ReadManifest ==
  /\ pc = "manifest"
  /\ c.prev = <<>> \/ Resolves(c.prev)
  /\ Prepare(PrevEntries) \/ RewrapNoop(PrevEntries)
  /\ UNCHANGED <<r2, storage, audit, alarmHandler, kek, purger, observed>>

(* A CommitError: a deny row, if the audit DO takes it, and the answer. *)
Refuse ==
  /\ ledger' \in {ledger, ledger \cup {[what |-> "deny", chain |-> Append(c.prev, c.id)]}}
  /\ c' = NoCommit
  /\ Goto("idle")
  /\ UNCHANGED <<r2, storage, refused, alerts, alarmHandler, kek, purger, observed>>

(* 412, 404 or 503: the pinned epoch is not the current one, the key is absent,
   a DEK cannot be unwrapped, or the pointer's manifest is missing. *)
RefuseRequest ==
  /\ pc = "manifest"
  /\ \/ c.prev # <<>> /\ ~Resolves(c.prev)
     \/ /\ c.prev = <<>> \/ Resolves(c.prev)
        /\ ~Admitted(PrevEntries, c.req)
  /\ Refuse

(* The attempt row comes before any object of the commit. *)
Attempt ==
  /\ pc = "attempt"
  /\ ledger' = ledger \cup {[what |-> "attempt", chain |-> c.chain]}
  /\ Goto(IF c.todo = {} THEN "slot" ELSE "blobs")
  /\ UNCHANGED <<r2, storage, refused, alerts, c, alarmHandler, kek, purger, observed>>

(* Mutation: the commit goes on without its attempt row. *)
AttemptFailOpen ==
  /\ pc = "attempt"
  /\ Fail
  /\ Goto(IF c.todo = {} THEN "slot" ELSE "blobs")
  /\ UNCHANGED <<r2, storage, audit, c, alarmHandler, kek, purger, committed, acked, tries>>

(* 503 AUDIT_UNAVAILABLE; only the answer may be what was lost. *)
AttemptFails ==
  /\ pc = "attempt"
  /\ Fail
  /\ ledger' \in {ledger, ledger \cup {[what |-> "attempt", chain |-> c.chain]}}
  /\ c' = NoCommit
  /\ Goto("idle")
  /\ UNCHANGED <<r2, storage, refused, alerts, alarmHandler, kek, purger, committed, acked,
                 tries>>

PutBlob ==
  /\ pc = "blobs"
  /\ \E b \in c.todo :
       /\ blobs' = blobs \cup {b}
       /\ c' = [c EXCEPT !.todo = @ \ {b}]
       /\ Goto(IF c.todo = {b} THEN "slot" ELSE "blobs")
  /\ UNCHANGED <<current, manifests, events, limbo, storage, audit, alarmHandler, kek,
                 purger, observed>>

Manifest == [chain |-> c.chain, req |-> c.req, entries |-> c.entries]

(* Mutation: the slot is written whether it is free or not. *)
PutManifestOver ==
  /\ pc = "slot"
  /\ manifests' = {m \in manifests : Epoch(m.chain) # Epoch(c.chain)} \cup {Manifest}
  /\ Goto("cas")
  /\ UNCHANGED <<current, blobs, events, limbo, storage, audit, c, alarmHandler, kek,
                 purger, observed>>

(* The first writer of an epoch's slot keeps it. *)
PutManifest ==
  /\ pc = "slot"
  /\ ~Taken(Epoch(c.chain))
  /\ manifests' = manifests \cup {Manifest}
  /\ Goto("cas")
  /\ UNCHANGED <<current, blobs, events, limbo, storage, audit, c, alarmHandler, kek,
                 purger, observed>>

SlotTaken == pc = "slot" /\ Taken(Epoch(c.chain)) /\ Refuse

(* Mutation: the pointer is replaced whatever it names. *)
SwapPointerBlind(chain, prev) ==
  /\ current' = chain
  /\ committed' = committed \cup {chain}

(* The pointer moves only from what the commit has read. *)
SwapPointer(chain, prev) ==
  /\ current = prev
  /\ current' = chain
  /\ committed' = committed \cup {chain}

MovePointer ==
  /\ pc = "cas"
  /\ SwapPointer(c.chain, c.prev)
  /\ Goto("outcome")
  /\ UNCHANGED <<manifests, blobs, events, limbo, storage, audit, c, alarmHandler, kek,
                 purger, acked, tries, fails>>

(* Mutation: a lost CAS goes unnoticed. *)
CasLostIgnored ==
  /\ pc = "cas"
  /\ current # c.prev
  /\ Goto("outcome")
  /\ UNCHANGED <<r2, storage, audit, c, alarmHandler, kek, purger, observed>>

CasLost == pc = "cas" /\ current # c.prev /\ Refuse

(***************************************************************************)
(* After the CAS the commit is durable; what follows is fail-soft.         *)
(***************************************************************************)
OutcomeRow(chain) == [what |-> "outcome", chain |-> chain]

(* Mutation: the record is keyed by the epoch alone. *)
EnqueueOutcomeByEpoch(chain) ==
  /\ pendingOutcomes' = {p \in pendingOutcomes : Epoch(p) # Epoch(chain)} \cup {chain}
  /\ alarm' = TRUE

EnqueueOutcome(chain) ==
  /\ pendingOutcomes' = pendingOutcomes \cup {chain}
  /\ alarm' = TRUE

(* The outcome rows are appended; or the audit DO refuses them on purpose (400,
   409), which is alerted and not retried; or no answer comes, whether they were
   appended or not, and the batch is queued. *)
Outcome ==
  /\ pc = "outcome"
  /\ \/ /\ ledger' = ledger \cup {OutcomeRow(c.chain)}
        /\ UNCHANGED <<refused, alerts, pendingOutcomes, alarm, fails>>
     \/ /\ refused' = refused \cup {c.chain}
        /\ alerts' = alerts \cup {c.chain}
        /\ UNCHANGED <<ledger, pendingOutcomes, alarm, fails>>
     \/ /\ Fail
        /\ ledger' \in {ledger, ledger \cup {OutcomeRow(c.chain)}}
        /\ EnqueueOutcome(c.chain)
        /\ UNCHANGED <<refused, alerts>>
  /\ Goto("event")
  /\ UNCHANGED <<r2, pendingEvents, queued, c, alarmHandler, kek, purger, committed, acked,
                 tries>>

(* Mutation: the event is written over the one that is there. *)
PutEventOver(chain) == events' = events \cup {chain}

(* The event of an epoch is written once (onlyIf-absent). *)
PutEvent(chain) == events' = IF EventAt(Epoch(chain)) THEN events ELSE events \cup {chain}

(* Mutation: the alarm is left as it is. *)
EnqueueEventUnarmed(chain) ==
  /\ pendingEvents' = {p \in pendingEvents : Epoch(p) # Epoch(chain)} \cup {chain}
  /\ UNCHANGED alarm

(* The record is keyed by the epoch. *)
EnqueueEvent(chain) ==
  /\ pendingEvents' = {p \in pendingEvents : Epoch(p) # Epoch(chain)} \cup {chain}
  /\ alarm' = TRUE

PointerEvent ==
  /\ pc = "event"
  /\ \/ /\ PutEvent(c.chain)
        /\ UNCHANGED <<pendingEvents, alarm, fails>>
     \/ /\ Fail
        /\ PutEvent(c.chain) \/ UNCHANGED events
        /\ EnqueueEvent(c.chain)
  /\ Goto("escrow")
  /\ UNCHANGED <<current, manifests, blobs, limbo, pendingOutcomes, queued, audit, c,
                 alarmHandler, kek, purger, committed, acked, tries>>

(* The objects of a commit, as they are queued for the escrow. *)
EscrowItems(chain, r) ==
  [kind : {"manifest", "event"}, of : {chain}]
    \cup [kind : {"blob"}, blob : NewBlobs(r, Last(chain))]

(* The escrow items are queued and the drain alarm armed, where there is an
   escrow, and the caller gets the new epoch. *)
Reply ==
  /\ pc = "escrow"
  /\ queued' = IF EscrowOn THEN queued \cup EscrowItems(c.chain, c.req) ELSE queued
  /\ alarm' = (alarm \/ EscrowOn)
  /\ acked' = acked \cup {c.chain}
  /\ c' = NoCommit
  /\ Goto("idle")
  /\ UNCHANGED <<r2, pendingEvents, pendingOutcomes, audit, alarmHandler, kek, purger,
                 committed, tries, fails>>

(***************************************************************************)
(* alarm: drains what commits have queued.  It is suspended at its awaits  *)
(* while a commit runs; what it has sent is executed all the same.         *)
(***************************************************************************)
NoAlarm == [todo |-> {}, done |-> None, left |-> FALSE]

AlarmFires ==
  /\ alarm
  /\ apc = "idle" /\ pc = "idle"
  /\ alarm' = FALSE
  /\ apc' = "events"
  /\ al' = [NoAlarm EXCEPT !.todo = pendingEvents]
  /\ UNCHANGED <<r2, pendingEvents, pendingOutcomes, queued, audit, pc, c, kek, purger,
                 observed>>

(* One event is put, or the put fails and the record stays. *)
AlarmPutEvent ==
  /\ apc = "events"
  /\ al.done = None
  /\ \E ch \in al.todo :
       \/ /\ PutEvent(ch)
          /\ al' = [al EXCEPT !.done = ch]
          /\ UNCHANGED fails
       \/ /\ Fail
          /\ PutEvent(ch) \/ UNCHANGED events
          /\ al' = [al EXCEPT !.todo = @ \ {ch}, !.left = TRUE]
  /\ UNCHANGED <<current, manifests, blobs, limbo, storage, audit, pc, c, apc, kek, purger,
                 committed, acked, tries>>

(* Its record is deleted by its key, the epoch. *)
AlarmDropEvent ==
  /\ apc = "events" /\ pc = "idle"
  /\ al.done # None
  /\ pendingEvents' = {p \in pendingEvents : Epoch(p) # Epoch(al.done)}
  /\ al' = [al EXCEPT !.todo = @ \ {al.done}, !.done = None]
  /\ UNCHANGED <<r2, pendingOutcomes, alarm, queued, audit, pc, c, apc, kek, purger, observed>>

AlarmListOutcomes ==
  /\ apc = "events" /\ pc = "idle"
  /\ al.todo = {}
  /\ apc' = "outcomes"
  /\ al' = [al EXCEPT !.todo = pendingOutcomes]
  /\ UNCHANGED <<r2, storage, audit, pc, c, kek, purger, observed>>

(* One batch is appended, refused on purpose, or unanswered. *)
AlarmAppendOutcome ==
  /\ apc = "outcomes"
  /\ al.done = None
  /\ \E ch \in al.todo :
       \/ /\ ledger' = ledger \cup {OutcomeRow(ch)}
          /\ al' = [al EXCEPT !.done = ch]
          /\ UNCHANGED <<refused, apc, fails>>
       \/ /\ refused' = refused \cup {ch}
          /\ al' = [al EXCEPT !.done = ch]
          /\ apc' = "refused"
          /\ UNCHANGED <<ledger, fails>>
       \/ /\ Fail
          /\ ledger' \in {ledger, ledger \cup {OutcomeRow(ch)}}
          /\ al' = [al EXCEPT !.todo = @ \ {ch}, !.left = TRUE]
          /\ UNCHANGED <<refused, apc>>
  /\ UNCHANGED <<r2, storage, alerts, pc, c, kek, purger, committed, acked, tries>>

AlarmDropOutcome ==
  /\ apc = "outcomes" /\ pc = "idle"
  /\ al.done # None
  /\ pendingOutcomes' = pendingOutcomes \ {al.done}
  /\ al' = [al EXCEPT !.todo = @ \ {al.done}, !.done = None]
  /\ UNCHANGED <<r2, pendingEvents, alarm, queued, audit, pc, c, apc, kek, purger, observed>>

(* The record of a refused batch is deleted first, and only then alerted. *)
AlarmDropRefused ==
  /\ apc = "refused" /\ pc = "idle"
  /\ pendingOutcomes' = pendingOutcomes \ {al.done}
  /\ al' = [al EXCEPT !.todo = @ \ {al.done}]
  /\ apc' = "alert"
  /\ UNCHANGED <<r2, pendingEvents, alarm, queued, audit, pc, c, kek, purger, observed>>

AlarmAlerts ==
  /\ apc = "alert" /\ pc = "idle"
  /\ alerts' = alerts \cup {al.done}
  /\ al' = [al EXCEPT !.done = None]
  /\ apc' = "outcomes"
  /\ UNCHANGED <<r2, storage, ledger, refused, pc, c, kek, purger, observed>>

(* Mutation: what is left waits for the next commit. *)
RearmNever(left) == UNCHANGED alarm

Rearm(left) == alarm' = (alarm \/ left)

(* The escrow drain (EscrowOutbox) may leave items of its own. *)
AlarmEnds ==
  /\ apc = "outcomes" /\ pc = "idle"
  /\ al.todo = {}
  /\ \E escrowLeft \in BOOLEAN :
       /\ escrowLeft => queued # {}
       /\ Rearm(al.left \/ escrowLeft)
  /\ apc' = "idle"
  /\ al' = NoAlarm
  /\ UNCHANGED <<r2, pendingEvents, pendingOutcomes, queued, audit, pc, c, kek, purger, observed>>

(***************************************************************************)
(* The object dies: a crash, an eviction, or an R2 call that throws out of *)
(* the commit.  What the commit had sent to R2 may be executed later.  The *)
(* platform runs an alarm handler again that did not return.  A deploy,    *)
(* which kills the object too, may bring the next KEK.                     *)
(***************************************************************************)
Sent ==
  CASE pc = "blobs" -> [kind : {"blob"}, blob : c.todo]
    [] pc = "slot"  -> {[kind |-> "manifest", manifest |-> Manifest]}
    [] pc = "cas"   -> {[kind |-> "current", prev |-> c.prev, chain |-> c.chain]}
    [] pc = "event" -> {[kind |-> "event", event |-> c.chain]}
    [] OTHER        -> {}

Die ==
  /\ limbo' = limbo \cup Sent
  /\ c' = NoCommit
  /\ Goto("idle")
  /\ alarm' = (alarm \/ apc # "idle")
  /\ apc' = "idle"
  /\ al' = NoAlarm
  /\ UNCHANGED <<current, manifests, blobs, events, pendingEvents, pendingOutcomes, queued,
                 audit, purger, committed, acked, tries>>

Crash ==
  /\ pc # "idle" \/ apc # "idle"
  /\ Fail
  /\ Die
  /\ UNCHANGED kek

Deploy ==
  /\ kek < KekMax
  /\ kek' = kek + 1
  /\ Die
  /\ UNCHANGED fails

(* R2 executes a write of a dead commit, each with the condition it was sent
   with. *)
LandLate ==
  /\ \E w \in limbo :
       /\ limbo' = limbo \ {w}
       /\ \/ /\ w.kind = "blob"
             /\ blobs' = blobs \cup {w.blob}
             /\ UNCHANGED <<current, manifests, events, committed>>
          \/ /\ w.kind = "manifest"
             /\ ~Taken(Epoch(w.manifest.chain))
             /\ manifests' = manifests \cup {w.manifest}
             /\ UNCHANGED <<current, blobs, events, committed>>
          \/ /\ w.kind = "current"
             /\ SwapPointer(w.chain, w.prev)
             /\ UNCHANGED <<manifests, blobs, events>>
          \/ /\ w.kind = "event"
             /\ PutEvent(w.event)
             /\ UNCHANGED <<current, manifests, blobs, committed>>
  /\ UNCHANGED <<storage, audit, pc, c, alarmHandler, kek, purger, acked, tries, fails>>

(***************************************************************************)
(* DELETE /v1/admin/projects/{p}: an audit row, then pages of the project's *)
(* R2 objects, listed and removed until none is left.  The pointer events  *)
(* stay.                                                                   *)
(***************************************************************************)
NoPage == [blobs |-> {}, current |-> FALSE, epochs |-> {}]
Epochs == {Epoch(m.chain) : m \in manifests}
PageLen(p) == Cardinality(p.blobs) + Cardinality(p.epochs) + (IF p.current THEN 1 ELSE 0)
Stored == [blobs |-> blobs, current |-> current # <<>>, epochs |-> Epochs]
Lesser(x, y) == IF x < y THEN x ELSE y

(* The first objects in the order of their keys: blobs/, current, manifests/. *)
IsPage(p) ==
  /\ PageLen(p) = Lesser(PageSize, PageLen(Stored))
  /\ p.current => Stored.current /\ p.blobs = blobs
  /\ p.epochs # {} => p.blobs = blobs /\ p.current = Stored.current
  /\ \A e \in p.epochs, f \in Epochs \ p.epochs : e < f

Purging == ppc \in {"list", "delete"}

PurgeBegins ==
  /\ ~Purging
  /\ purges < MaxPurges
  /\ PageLen(Stored) > 0
  /\ purges' = purges + 1
  /\ ledger' = ledger \cup {[what |-> "project.delete", chain |-> <<>>]}
  /\ ppc' = "list"
  /\ UNCHANGED <<r2, storage, refused, alerts, pc, c, alarmHandler, kek, page, observed>>

PurgeLists ==
  /\ ppc = "list"
  /\ PageLen(Stored) > 0
  /\ page' \in {p \in [blobs : SUBSET blobs, current : BOOLEAN, epochs : SUBSET Epochs] : IsPage(p)}
  /\ ppc' = "delete"
  /\ UNCHANGED <<r2, storage, audit, pc, c, alarmHandler, kek, purges, observed>>

PurgeDeletes ==
  /\ ppc = "delete"
  /\ blobs' = blobs \ page.blobs
  /\ current' = IF page.current THEN <<>> ELSE current
  /\ manifests' = {m \in manifests : Epoch(m.chain) \notin page.epochs}
  /\ ppc' = "list"
  /\ page' = NoPage
  /\ UNCHANGED <<events, limbo, storage, audit, pc, c, alarmHandler, kek, purges, observed>>

PurgeEnds ==
  /\ ppc = "list"
  /\ PageLen(Stored) = 0
  /\ ppc' = "done"
  /\ UNCHANGED <<r2, storage, audit, pc, c, alarmHandler, kek, page, purges, observed>>

(* The Worker dies or R2 refuses: what is removed is removed. *)
PurgeDies ==
  /\ Purging
  /\ Fail
  /\ ppc' = "idle"
  /\ page' = NoPage
  /\ UNCHANGED <<r2, storage, audit, pc, c, alarmHandler, kek, purges, committed, acked, tries>>
-----------------------------------------------------------------------------
Init ==
  /\ current = <<>>
  /\ manifests = {} /\ blobs = {} /\ events = {} /\ limbo = {}
  /\ pendingEvents = {} /\ pendingOutcomes = {}
  /\ alarm = FALSE
  /\ queued = {}
  /\ ledger = {} /\ refused = {} /\ alerts = {}
  /\ pc = "idle" /\ c = NoCommit
  /\ apc = "idle" /\ al = NoAlarm
  /\ kek = 0
  /\ ppc = "idle" /\ page = NoPage
  /\ committed = {} /\ acked = {}
  /\ tries = 0 /\ fails = 0 /\ purges = 0

Commit ==
  \/ ReadManifest \/ RefuseRequest
  \/ Attempt \/ AttemptFails
  \/ PutBlob
  \/ PutManifest \/ SlotTaken
  \/ MovePointer \/ CasLost
  \/ Outcome \/ PointerEvent \/ Reply

Alarm ==
  \/ AlarmFires \/ AlarmPutEvent \/ AlarmDropEvent
  \/ AlarmListOutcomes \/ AlarmAppendOutcome \/ AlarmDropOutcome
  \/ AlarmDropRefused \/ AlarmAlerts
  \/ AlarmEnds

Purge == PurgeBegins \/ PurgeLists \/ PurgeDeletes \/ PurgeEnds \/ PurgeDies

Next ==
  \/ \E r \in Requests : Begin(r)
  \/ Commit
  \/ Alarm
  \/ Crash \/ Deploy \/ LandLate
  \/ Purge

Spec == Init /\ [][Next]_vars

(***************************************************************************)
(* Fairness.  A commit that was delivered runs to its end; the platform    *)
(* fires a set alarm and runs its handler to its end.  Nothing makes a     *)
(* dead commit's writes land, and nobody has to call.                      *)
(***************************************************************************)
FairSpec == Spec /\ WF_vars(Commit) /\ WF_vars(Alarm)
-----------------------------------------------------------------------------
(***************************************************************************)
(* Properties                                                              *)
(***************************************************************************)
Ids == 1 .. MaxTries
Chains == {ch \in UNION {[1 .. n -> Ids] : n \in 0 .. MaxTries} :
             \A i, j \in DOMAIN ch : i < j => ch[i] < ch[j]}
Blobs == [id : Ids, key : Keys]
OneAnEpoch(chains) == \A x, y \in chains : Epoch(x) = Epoch(y) => x = y

(* Every variable holds a value of the shape the code gives it; an epoch has one
   manifest slot, one event slot and one pending-event record. *)
TypeOK ==
  /\ current \in Chains
  /\ \A m \in manifests : /\ m.chain \in Chains \ {<<>>}
                          /\ m.req \in Requests
                          /\ DOMAIN m.entries \subseteq Keys
                          /\ \A k \in DOMAIN m.entries :
                               m.entries[k] \in [version : Nat \ {0}, blob : Blobs, kid : 0 .. kek]
  /\ OneAnEpoch({m.chain : m \in manifests})
  /\ blobs \subseteq Blobs
  /\ events \subseteq Chains /\ OneAnEpoch(events)
  /\ pendingEvents \subseteq Chains /\ OneAnEpoch(pendingEvents)
  /\ pendingOutcomes \subseteq Chains
  /\ refused \subseteq Chains /\ alerts \subseteq refused
  /\ kek \in 0 .. KekMax

(* A reader that follows the pointer finds its manifest and every blob of it,
   whatever commits died half-way and however late their writes landed (as long
   as the project was never deleted from under it). *)
PointerResolves ==
  purges = 0 /\ current # <<>> =>
    /\ Resolves(current)
    /\ LET entries == ManifestOf(current).entries
       IN  \A k \in DOMAIN entries : entries[k].blob \in blobs

(* The pointer goes from an epoch to the next one, whose manifest was built on
   it: no commit is lost or forked off, by a dead commit's late CAS either.  Only
   a DELETE of the project starts over. *)
LinearHistory ==
  [][current' = <<>> \/ (Len(current') = Len(current) + 1 /\ IsPrefix(current, current'))]_current

(* The audit rows say what happened: an outcome row only of a commit the pointer
   named, a deny row only of one it never did. *)
LedgerTellsTruth ==
  \A row \in ledger :
    /\ row.what = "outcome" => row.chain \in committed
    /\ row.what = "deny" => row.chain \notin committed

Attempted == {row.chain : row \in {x \in ledger : x.what = "attempt"}}

(* No object of a commit is in the store without the commit's attempt row. *)
AttemptFirst ==
  /\ \A m \in manifests : m.chain \in Attempted
  /\ \A b \in blobs : \E ch \in Attempted : Last(ch) = b.id

(* An answered commit has its outcome rows, or a record that will get them, unless
   the audit DO refused them for good - also when the project was deleted and its
   epochs were given out again. *)
Accounted(chain) == OutcomeRow(chain) \in ledger \/ chain \in pendingOutcomes \cup refused

AckedAccounted == \A ch \in acked : Accounted(ch)

(* What is pending has an alarm that will drain it. *)
PendingIsArmed ==
  pendingEvents \cup pendingOutcomes # {} => alarm \/ apc # "idle"

(* A request that pins an epoch is committed at most once, however often it is
   sent again. *)
PinnedOnce ==
  \A m, n \in manifests :
    /\ purges = 0
    /\ m.chain \in committed /\ n.chain \in committed
    /\ m.req = n.req /\ m.req.ifEpoch # None
    => m = n

(* Every answered commit is settled in the end: its outcome is in the ledger,
   unless the audit DO refused it for good, and its pointer event is written. *)
Settled(chain) ==
  /\ OutcomeRow(chain) \in ledger \/ chain \in refused
  /\ chain \in events

EventuallySettled == []<>(\A ch \in acked : Settled(ch))

(* A commit the pointer names is accounted for even if the object dies after the
   CAS: whatever blows up then is pending, and the alarm drains it. *)
CommittedAccounted == pc = "idle" => \A ch \in committed : Accounted(ch)

(* A store write is one epoch or none: with no commit running and none of its
   writes on the way, no manifest is stored that the pointer does not lead to. *)
OneEpochOrNone ==
  pc = "idle" /\ limbo = {} /\ ~Purging =>
    \A m \in manifests : Epoch(m.chain) <= Epoch(current)
-----------------------------------------------------------------------------
(***************************************************************************)
(* The invariant the theorems of ProjectWriterProofs rest on.              *)
(***************************************************************************)
(* The places of a commit: before its CAS; once its manifest is made; once its
   attempt row is in; after its CAS. *)
BeforeCas == {"manifest", "attempt", "blobs", "slot", "cas"}
AfterCas == {"outcome", "event", "escrow"}
Announced == {"blobs", "slot", "cas"} \cup AfterCas
Built == {"attempt"} \cup Announced

(* A chain that ends in a commit begun. *)
Named(chain) == chain \in Seq(Nat) /\ chain # <<>> /\ Last(chain) \in 1 .. tries

LateCas == {w \in limbo : w.kind = "current"}
Denied == {row.chain : row \in {x \in ledger : x.what = "deny"}}

(* What a commit appends to is what it read. *)
CommitShape ==
  /\ tries \in Nat
  /\ current \in Seq(Nat)
  /\ c = [id |-> c.id, req |-> c.req, prev |-> c.prev, chain |-> c.chain,
          entries |-> c.entries, todo |-> c.todo]
  /\ c.prev \in Seq(Nat)
  /\ pc \in {"idle"} \cup BeforeCas \cup AfterCas
  /\ pc # "idle" => c.id \in 1 .. tries
  /\ pc \in Built => c.chain = Append(c.prev, c.id)

(* And so in the CAS it left behind. *)
LateShape ==
  \A w \in LateCas :
    /\ w.prev \in Seq(Nat)
    /\ \E id \in 1 .. tries : w.chain = Append(w.prev, id)

(* The handler is at the outcomes it has listed. *)
Drains == {"outcomes", "refused", "alert"}

AlarmShape ==
  /\ apc \in {"idle", "events"} \cup Drains
  /\ al = [todo |-> al.todo, done |-> al.done, left |-> al.left]
  /\ apc # "alert" /\ al.done # None => al.done \in al.todo

Shape == CommitShape /\ LateShape /\ AlarmShape

(* A commit that was denied has no CAS left that could land, and whatever the
   ledger says or will say the outcome of is committed. *)
Truth ==
  /\ \A ch \in committed \cup Denied : Named(ch)
  /\ \A ch \in Denied :
       /\ ch \notin committed
       /\ \A w \in LateCas : w.chain # ch
       /\ pc # "idle" => Last(ch) # c.id
  /\ pc \in BeforeCas =>
       /\ \A ch \in committed : Last(ch) # c.id
       /\ \A w \in LateCas : Last(w.chain) # c.id
  /\ \A row \in ledger : row.what = "outcome" => row.chain \in committed
  /\ pc \in AfterCas => c.chain \in committed
  /\ pendingOutcomes \subseteq committed
  /\ apc \in Drains => al.todo \subseteq committed

(* A record is dropped only for a commit with its rows, or refused. *)
Account ==
  /\ AckedAccounted
  /\ pc \in {"event", "escrow"} => Accounted(c.chain)
  /\ apc = "outcomes" /\ al.done # None => OutcomeRow(al.done) \in ledger
  /\ apc \in {"refused", "alert"} => al.done \in refused
  /\ alerts \subseteq refused

(* The attempt row is there before the first object is sent. *)
Attempts ==
  /\ AttemptFirst
  /\ pc \in Announced => c.chain \in Attempted
  /\ pc \in Built => \A b \in c.todo : b.id = c.id
  /\ \A w \in limbo :
       /\ w.kind = "manifest" => w.manifest.chain \in Attempted
       /\ w.kind = "blob" => \E ch \in Attempted : Last(ch) = w.blob.id

(* A record the running alarm handler has not listed has an alarm of its own. *)
Armed ==
  /\ PendingIsArmed
  /\ apc = "events" => pendingEvents \subseteq al.todo \/ alarm \/ al.left
  /\ apc \in Drains => \/ pendingEvents = {} /\ pendingOutcomes \subseteq al.todo
                       \/ alarm \/ al.left

WriterInv == Shape /\ Truth /\ Account /\ Attempts /\ Armed
-----------------------------------------------------------------------------
(***************************************************************************)
(* The invariant the theorems of ProjectStoreProofs rest on: what R2 and    *)
(* the object hold.                                                        *)
(***************************************************************************)
(* A history of commits, none begun after the n-th. *)
History(chain, n) ==
  /\ chain \in Seq(Nat)
  /\ \A i \in 1 .. Len(chain) : i <= chain[i] /\ chain[i] <= n
  /\ \A i, j \in 1 .. Len(chain) : i < j => chain[i] < chain[j]

(* What was sealed under the n-th KEK or one before. *)
EntriesOK(entries, n) ==
  /\ DOMAIN entries \subseteq Keys
  /\ \A k \in DOMAIN entries :
       entries[k] \in [version : Nat \ {0}, blob : Blobs, kid : 0 .. n]

ManifestOK(m, n) ==
  /\ History(m.chain, MaxTries) /\ m.chain # <<>>
  /\ m.req \in Requests
  /\ EntriesOK(m.entries, n)
  /\ m.req.ifEpoch # None => Len(m.chain) = m.req.ifEpoch + 1

WriteOK(w) ==
  /\ w.kind = "blob" => w.blob \in Blobs
  /\ w.kind = "manifest" => ManifestOK(w.manifest, kek)
  /\ w.kind = "current" => History(w.chain, tries)
  /\ w.kind = "event" => History(w.event, MaxTries)

OneSlot == \A m, n \in manifests : Epoch(m.chain) = Epoch(n.chain) => m = n

Counted == tries \in 0 .. MaxTries /\ kek \in 0 .. KekMax /\ purges \in Nat

StoresOK ==
  /\ History(current, tries)
  /\ \A m \in manifests : ManifestOK(m, kek)
  /\ OneSlot
  /\ blobs \subseteq Blobs
  /\ \A w \in limbo : WriteOK(w)

QueuesOK ==
  /\ \A ch \in events \cup pendingEvents \cup pendingOutcomes \cup refused \cup al.todo :
       History(ch, MaxTries)
  /\ OneAnEpoch(events) /\ OneAnEpoch(pendingEvents)

CommitOK ==
  /\ pc # "idle" => c.id \in 1 .. tries /\ History(c.prev, c.id - 1) /\ c.req \in Requests
  /\ pc \in Built => ManifestOK(Manifest, kek) /\ c.todo \subseteq Blobs

(* Blobs are stored before the manifest that names them, and the manifest before
   the pointer that names it, by a write that lands late too. *)
Stands(entries) == \A k \in DOMAIN entries : entries[k].blob \in blobs

Ordered ==
  /\ ~Purging
  /\ \A m \in manifests : Stands(m.entries)
  /\ \A w \in limbo : /\ w.kind = "manifest" => Stands(w.manifest.entries)
                      /\ w.kind = "current" => Resolves(w.chain)
  /\ current # <<>> => Resolves(current)
  /\ pc \in Built => \A k \in DOMAIN c.entries : c.entries[k].blob \in blobs \cup c.todo
  /\ pc \in {"slot", "cas"} => c.todo = {}
  /\ pc = "cas" => Resolves(c.chain)

StoreInv == Counted /\ StoresOK /\ QueuesOK /\ CommitOK /\ (purges = 0 => Ordered)

(* Both invariants, of which every safety property above is a consequence: the
   pointers, rows and queues of the writer under crashes, late writes and a
   deletion (commit, alarm, deleteProjectObjects). *)
IInv == WriterInv /\ StoreInv
=============================================================================
