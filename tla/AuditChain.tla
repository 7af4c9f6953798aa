----------------------------- MODULE AuditChain -----------------------------
(***************************************************************************)
(* AuditLogDO (worker/src/audit-do.ts): the one writer of the hash-chained *)
(* audit table.  The chain head lives in the Durable Object's storage, the *)
(* rows in D1, and no transaction spans the two.  An append is             *)
(*                                                                         *)
(*    intent in DO storage -> one D1 batch -> one DO storage transaction   *)
(*                                                                         *)
(* and the object can die, or lose the answer of the batch, between any    *)
(* two of them; a batch whose answer was lost may still land later.        *)
(*                                                                         *)
(* Hashes.  The hash of row n covers the hash of row n-1, so it commits to *)
(* rows 1..n.  SHA-256 is taken to be collision free: a pair {seq, hash}   *)
(* is modelled by the sequence of rows it commits to, seq being its        *)
(* length.  A row D1 holds whose stored hash is not what the chain rule    *)
(* gives has ok = FALSE.                                                   *)
(*                                                                         *)
(* Rows.  A row carries the ticket of the call that wrote it (key), that   *)
(* call's payload, its timestamp and its position in the call.  A payload  *)
(* is the number of rows it asks for, so two payloads differ in length.    *)
(* Rows of kind "legacy" are those the code before the intents left in D1. *)
(***************************************************************************)
EXTENDS Naturals, Sequences, SequencesExt

CONSTANTS
  Handlers,       \* concurrent requests inside the object
  IdemKeys,       \* durable idempotency keys
  RequestIds,     \* short-lived request ids
  Unkeyed,        \* callers that send neither
  OldKey,         \* a key whose receipt predates payload binding
  Payloads,       \* numbers of rows a call may ask for
  Times,          \* timestamps a call's rows may get
  AbandonedMax,   \* ABANDONED_MAX
  RecentMax,      \* RECENT_MAX
  ReadPage,       \* READ_PAGE
  LegacySuffixes, \* row sequences D1 may hold beyond the head at the start
  LateLegacy,     \* row sequences an old INSERT may still write after them
  MaxFails,       \* bound: crashes and lost D1 answers
  MaxRows,        \* bound: D1 rows after which only durable keys may append
  None, NoOne     \* no value, no handler

Durable(k) == k.kind \in {"idem", "reconcile"}
CallKeys == [kind : {"idem"}, id : IdemKeys]
              \cup [kind : {"request"}, id : RequestIds]
              \cup [kind : {"none"}, id : Unkeyed]
ReconcileKey(to) == [kind |-> "reconcile", id |-> to]

OldRow == [key |-> [kind |-> "idem", id |-> OldKey], pay |-> 1, ts |-> 0, i |-> 1, ok |-> TRUE]
Base == <<OldRow>>

(* What reading INTENT_KEY and RECONCILE_KEY gives when nothing is stored.  The
   commit of a page has no ticket either. *)
NoIntent == [key |-> [kind |-> "none", id |-> None], pay |-> 0, first |-> 0, last |-> <<>>]
NoPending == [from |-> <<>>, to |-> <<>>]

(* A sequence of rows, each one numbered within its call. *)
RowOK(r) == r.pay \in Nat /\ r.i \in 1 .. r.pay
Rows(s) == s \in Seq(Range(s)) /\ \A n \in DOMAIN s : RowOK(s[n])

ASSUME BoundsAssumption ==
  /\ AbandonedMax \in Nat \ {0}
  /\ RecentMax \in Nat \ {0}
  /\ ReadPage \in Nat \ {0}
  /\ MaxFails \in Nat
  /\ MaxRows \in Nat
  /\ Payloads \subseteq Nat \ {0}
  /\ Times \subseteq Nat
ASSUME AbsentAssumption ==
  /\ NoOne \notin Handlers /\ None \notin Nat
  /\ \A s \in LegacySuffixes \cup LateLegacy :
       Rows(s) /\ \A n \in 1 .. Len(s) : s[n].key.kind = "legacy"

VARIABLES
  \* Durable Object storage
  head,      \* HEAD_KEY
  intent,    \* INTENT_KEY
  abandoned, \* ABANDONED_KEY
  receipts,  \* RECEIPT_PREFIX*
  recent,    \* RECENT_KEY
  pending,   \* RECONCILE_KEY
  done,      \* RECONCILE_DONE_PREFIX*
  outbox,    \* escrow segments ever queued; EscrowOutbox models their push
  \* outside the object
  d1,        \* the rows of the D1 table, in seq order
  flight,    \* D1 batches sent and neither executed nor refused
  late,      \* an old INSERT that may still be executed
  \* memory of the running object
  lock,      \* the handler runExclusive lets run
  pc, job,   \* per handler: where it is, and its request
  tail,      \* per handler: the D1 tail recover read
  own,       \* per handler: the append it is making (ticket, links, new head)
  \* observation
  acked,     \* appends a caller was told are in the chain
  fails

storage == <<head, intent, abandoned, receipts, recent, pending, done>>
memory == <<lock, pc, job, tail, own>>
vars == <<storage, outbox, d1, flight, late, memory, acked, fails>>
-----------------------------------------------------------------------------
(* The rows a call writes after the head `from`. *)
CallRows(key, pay, ts) ==
  [n \in 1 .. pay |-> [key |-> key, pay |-> pay, ts |-> ts, i |-> n, ok |-> TRUE]]

(* The audit.reconcile row; its timestamp is fixed in the record. *)
ReconcileRow(to) ==
  [key |-> ReconcileKey(to), pay |-> 1, ts |-> 0, i |-> 1, ok |-> TRUE]

MakeIntent(key, pay, rows) ==
  [key |-> key, pay |-> pay, first |-> Len(head) + 1, last |-> head \o rows]

(* Mutations: the list keeps one entry fewer; the list is never cut. *)
LastNOneShort(s, n) == IF Len(s) < n THEN s ELSE SubSeq(s, Len(s) - n + 2, Len(s))
LastNUncut(s, n) == s

LastN(s, n) == IF Len(s) <= n THEN s ELSE SubSeq(s, Len(s) - n + 1, Len(s))

(* The receipts an append with this ticket would be answered from. *)
Receipts(key) ==
  IF key.kind = "request" THEN {r \in Range(recent) : r.key = key}
  ELSE IF Durable(key) THEN {r \in receipts : r.key = key}
  ELSE {}

Held == (IF intent = NoIntent THEN {} ELSE {intent}) \cup Range(abandoned)
HeldAtHead == {c \in Held : c.first = Len(head) + 1}

(* Mutation: the intent's seqs are compared, not its hash. *)
VerifiedBySeq(end) == Len(head) <= Len(end) /\ Len(end) <= Len(d1)

(* D1 holds exactly the rows from the head to `end`, and each one is what the
   chain rule gives. *)
Verified(end) ==
  /\ IsPrefix(head, end)
  /\ IsPrefix(end, d1)
  /\ \A n \in Len(head) + 1 .. Len(end) : end[n].ok

(* Mutation: only the last row of a commit is queued. *)
SegmentsLastOnly(from, to) == {[seq |-> Len(to), row |-> to[Len(to)]]}

Segments(from, to) ==
  {[seq |-> n, row |-> to[n]] : n \in Len(from) + 1 .. Len(to)}

(* commitHead: head, receipt, escrow outbox and intent in one transaction. *)
CommitHead(end, ticket) ==
  LET receipt == [key |-> ticket.key, head |-> end, pay |-> ticket.pay] IN
  /\ head' = end
  /\ receipts' = IF Durable(ticket.key)
                 THEN {r \in receipts : r.key # ticket.key} \cup {receipt}
                 ELSE receipts
  /\ recent' = IF ticket.key.kind = "request"
               THEN LastN(Append(recent, receipt), RecentMax)
               ELSE recent
  /\ intent' = NoIntent
  /\ outbox' = outbox \cup Segments(head, end)

Goto(h, label) == pc' = [pc EXCEPT ![h] = label]

(* The handler answers (200, 409 or 503) and runExclusive releases the lock. *)
Release(h) ==
  /\ lock' = NoOne
  /\ Goto(h, "idle")
  /\ job' = [job EXCEPT ![h] = None]
  /\ tail' = [tail EXCEPT ![h] = 0]
  /\ own' = [own EXCEPT ![h] = None]
-----------------------------------------------------------------------------
(***************************************************************************)
(* Requests.  runExclusive runs one handler at a time, so a request is     *)
(* modelled from the moment it holds the lock.                             *)
(***************************************************************************)
External == <<d1, flight, late>>
Observed == <<acked, fails>>

(* Mutation: requests are not serialized. *)
EnterUnlocked(h, request, label) ==
  /\ pc[h] = "idle"
  /\ lock' = h
  /\ job' = [job EXCEPT ![h] = request]
  /\ Goto(h, label)
  /\ UNCHANGED <<storage, outbox, External, tail, own, Observed>>

Enter(h, request, label) ==
  /\ lock = NoOne
  /\ lock' = h
  /\ job' = [job EXCEPT ![h] = request]
  /\ Goto(h, label)
  /\ UNCHANGED <<storage, outbox, External, tail, own, Observed>>

(* POST /append and /append-batch.  The bound on D1's rows is for the calls
   that may be repeated without end. *)
Call(h, key, pay) ==
  /\ (~Durable(key)) => Len(d1) + pay <= MaxRows
  /\ Enter(h, [op |-> "append", key |-> key, pay |-> pay], "recover")

(* POST /reconcile: the operator read {seq, hash} from D1 at some time, so the
   pin is D1 as it is now or as it was. *)
CallReconcile(h, n) ==
  /\ n \in 1 .. Len(d1)
  /\ Enter(h, [op |-> "reconcile", pin |-> SubSeq(d1, 1, n)], "lookup")

(***************************************************************************)
(* recover                                                                 *)
(***************************************************************************)
(* Mutation: recover does not resume a reconciliation. *)
PartWayNever == FALSE

(* An adoption that a reconciliation began is not complete. *)
PartWay == Len(head) < Len(pending.to)

(* One page of a pinned suffix, verified and committed. *)
CommitPage(to) ==
  LET n == IF Len(head) + ReadPage < Len(to) THEN Len(head) + ReadPage ELSE Len(to)
  IN  CommitHead(SubSeq(d1, 1, n), NoIntent)

(* A reconciliation stopped part-way: adoptPinned verifies what is left of the
   pinned suffix and goes on with its pages. *)
ResumeAdoption(h) ==
  /\ pc[h] = "recover"
  /\ PartWay
  /\ Verified(pending.to)
  /\ CommitPage(pending.to)
  /\ UNCHANGED <<abandoned, pending, done, External, memory, Observed>>

ReadTail(h) ==
  /\ pc[h] = "recover"
  /\ ~PartWay
  /\ tail' = [tail EXCEPT ![h] = Len(d1)]
  /\ Goto(h, "decide")
  /\ UNCHANGED <<storage, outbox, External, lock, job, own, Observed>>

(* Mutation: a pending reconciliation is left for later. *)
AfterRecoverSkip(h) == IF job[h].op = "append" THEN "append" ELSE "lookup"

(* Where a handler goes when the chain is settled: a pending reconciliation is
   finished before anything else. *)
AfterRecover(h) ==
  IF pending # NoPending THEN "finish"
  ELSE IF job[h].op = "append" THEN "append" ELSE "lookup"

Without(c) ==
  IF c = intent THEN abandoned
  ELSE RemoveAt(abandoned, CHOOSE n \in DOMAIN abandoned : abandoned[n] = c)

(* Mutation: the rows are committed without the intent's ticket. *)
AdoptNoTicket(c) ==
  /\ Verified(c.last)
  /\ CommitHead(c.last, NoIntent)
  /\ abandoned' = Without(c)

(* adoptHeldIntent: D1 holds exactly the rows of an intent that starts right
   after the head; they are committed with that intent's own ticket. *)
Adopt(c) ==
  /\ Verified(c.last)
  /\ CommitHead(c.last, c)
  /\ abandoned' = Without(c)

AdoptHeld(h) ==
  /\ pc[h] = "decide"
  /\ tail[h] > Len(head)
  /\ \E c \in HeldAtHead : Len(c.last) = tail[h] /\ Adopt(c)
  /\ Goto(h, AfterRecover(h))
  /\ UNCHANGED <<pending, done, External, lock, job, tail, own, Observed>>

(* Mutation: the intent is deleted. *)
AbandonIntentForget(h) ==
  /\ pc[h] = "decide"
  /\ tail[h] = Len(head)
  /\ intent # NoIntent
  /\ intent' = NoIntent
  /\ Goto(h, AfterRecover(h))
  /\ UNCHANGED <<head, abandoned, receipts, recent, pending, done, outbox, External,
                 lock, job, tail, own, Observed>>

(* D1 holds none of the intent's rows: it is given up but kept, for a batch that
   lands later. *)
AbandonIntent(h) ==
  /\ pc[h] = "decide"
  /\ tail[h] = Len(head)
  /\ intent # NoIntent
  /\ abandoned' = LastN(Append(abandoned, intent), AbandonedMax)
  /\ intent' = NoIntent
  /\ Goto(h, AfterRecover(h))
  /\ UNCHANGED <<head, receipts, recent, pending, done, outbox, External,
                 lock, job, tail, own, Observed>>

NothingToRecover(h) ==
  /\ pc[h] = "decide"
  /\ tail[h] = Len(head)
  /\ intent = NoIntent
  /\ Goto(h, AfterRecover(h))
  /\ UNCHANGED <<storage, outbox, External, lock, job, tail, own, Observed>>

(* chainBroken: D1 holds rows no intent covers, is behind the head, or no longer
   holds the pinned rows.  503 and an alert; nothing is written. *)
ChainBroken(h) ==
  /\ CASE pc[h] = "decide" ->
            /\ tail[h] # Len(head)
            /\ \A c \in HeldAtHead : Len(c.last) = tail[h] => ~Verified(c.last)
       [] pc[h] = "recover" ->
            /\ PartWay
            /\ ~Verified(pending.to)
       [] OTHER -> FALSE
  /\ Release(h)
  /\ UNCHANGED <<storage, outbox, External, Observed>>

(***************************************************************************)
(* finishReconcile                                                         *)
(***************************************************************************)
(* The audit.reconcile row is not in the chain yet: appendAt from the head. *)
WriteReconcileRow(h) ==
  /\ pc[h] = "finish"
  /\ Receipts(ReconcileKey(pending.to)) = {}
  /\ head = pending.to
  /\ intent' = MakeIntent(ReconcileKey(head), 1, <<ReconcileRow(head)>>)
  /\ own' = [own EXCEPT ![h] = intent']
  /\ Goto(h, "send")
  /\ UNCHANGED <<head, abandoned, receipts, recent, pending, done, outbox, External,
                 lock, job, tail, Observed>>

(* It is: an earlier run committed it, or recover has just adopted it. *)
ReconcileRowWritten(h) ==
  /\ pc[h] = "finish"
  /\ Receipts(ReconcileKey(pending.to)) # {}
  /\ Goto(h, "record")
  /\ UNCHANGED <<storage, outbox, External, lock, job, tail, own, Observed>>

(* The result is stored and the record cleared in one transaction. *)
RecordReconcile(h) ==
  /\ pc[h] = "record"
  /\ done' = done \cup {[from |-> pending.from, to |-> pending.to]}
  /\ pending' = NoPending
  /\ Goto(h, IF job[h].op = "append" THEN "append" ELSE "lookup")
  /\ UNCHANGED <<head, intent, abandoned, receipts, recent, outbox, External,
                 lock, job, tail, own, Observed>>

(***************************************************************************)
(* appendAt                                                                *)
(***************************************************************************)
(* Mutation: any payload is answered from the receipt. *)
MatchesAny(receipt, pay) == TRUE

(* A receipt written before payload binding has no payload to compare. *)
Matches(receipt, pay) == receipt.pay \in {None, pay}

(* The ticket was used: answered from the receipt. *)
Dedup(h) ==
  /\ pc[h] = "append"
  /\ \E r \in Receipts(job[h].key) :
       /\ Matches(r, job[h].pay)
       /\ own' = [own EXCEPT ![h] = [key |-> r.key, pay |-> r.pay, first |-> 0, last |-> r.head]]
  /\ Goto(h, "reply")
  /\ UNCHANGED <<storage, outbox, External, lock, job, tail, Observed>>

(* 409 IDEMPOTENCY_MISMATCH *)
Mismatch(h) ==
  /\ pc[h] = "append"
  /\ \E r \in Receipts(job[h].key) : ~Matches(r, job[h].pay)
  /\ Release(h)
  /\ UNCHANGED <<storage, outbox, External, Observed>>

PutIntent(h) ==
  /\ pc[h] = "append"
  /\ Receipts(job[h].key) = {}
  /\ \E ts \in Times :
       intent' = MakeIntent(job[h].key, job[h].pay, CallRows(job[h].key, job[h].pay, ts))
  /\ own' = [own EXCEPT ![h] = intent']
  /\ Goto(h, "send")
  /\ UNCHANGED <<head, abandoned, receipts, recent, pending, done, outbox, External,
                 lock, job, tail, Observed>>

SendBatch(h) ==
  /\ pc[h] = "send"
  /\ flight' = flight \cup {[by |-> h, first |-> own[h].first, last |-> own[h].last]}
  /\ Goto(h, "wait")
  /\ UNCHANGED <<storage, outbox, d1, late, lock, job, tail, own, Observed>>

(* D1 confirmed the batch. *)
CommitAppend(h) ==
  /\ pc[h] = "landed"
  /\ CommitHead(own[h].last, own[h])
  /\ Goto(h, IF own[h].key.kind = "reconcile" THEN "record" ELSE "reply")
  /\ UNCHANGED <<abandoned, pending, done, External, lock, job, tail, own, Observed>>

(* The primary key of an earlier row refuses the batch: nothing of it is
   written, and the handler answers 503 with its intent still in storage. *)
Conflict(h) ==
  /\ pc[h] = "wait"
  /\ \E b \in flight :
       /\ b.by = h
       /\ b.first <= Len(d1)
       /\ flight' = flight \ {b}
  /\ Release(h)
  /\ UNCHANGED <<storage, outbox, d1, late, Observed>>

Orphan(b) == [by |-> NoOne, first |-> b.first, last |-> b.last]

(* The batch throws for another reason, or its answer is lost, or the head
   commit throws: 503.  D1 may execute the batch before or after that, or
   never. *)
GiveUp(h) ==
  /\ pc[h] \in {"wait", "landed"}
  /\ fails < MaxFails
  /\ fails' = fails + 1
  /\ flight' = {IF b.by = h THEN Orphan(b) ELSE b : b \in flight}
  /\ Release(h)
  /\ UNCHANGED <<storage, outbox, d1, late, acked>>

Reply(h) ==
  /\ pc[h] = "reply"
  /\ acked' = IF job[h].op = "append"
              THEN acked \cup {[key |-> job[h].key, pay |-> job[h].pay, head |-> own[h].last]}
              ELSE acked
  /\ Release(h)
  /\ UNCHANGED <<storage, outbox, External, fails>>

(***************************************************************************)
(* reconcile                                                               *)
(***************************************************************************)
(* The pin was completed before; or an unfinished reconciliation is recovered
   first; or this one starts. *)
Lookup(h) ==
  /\ pc[h] = "lookup"
  /\ Goto(h, IF \E r \in done : r.to = job[h].pin THEN "reply"
             ELSE IF pending # NoPending THEN "recover"
             ELSE "check")
  /\ UNCHANGED <<storage, outbox, External, lock, job, tail, own, Observed>>

(* The pin must be D1's last row, beyond the head. *)
CheckPin(h) ==
  /\ pc[h] = "check"
  /\ job[h].pin = d1
  /\ Len(job[h].pin) > Len(head)
  /\ Goto(h, "overlap")
  /\ UNCHANGED <<storage, outbox, External, lock, job, tail, own, Observed>>

(* Rows a held intent covers are that append's own: adopted first, with its
   ticket, as often as there are such intents. *)
AdoptOverlap(h) ==
  /\ pc[h] = "overlap"
  /\ \E c \in HeldAtHead : Len(c.last) <= Len(job[h].pin) /\ Adopt(c)
  /\ UNCHANGED <<pending, done, External, memory, Observed>>

Adoptable(pin) == {c \in HeldAtHead : Len(c.last) <= Len(pin) /\ Verified(c.last)}

(* The record is durable before the first page moves the head. *)
PutReconcileRecord(h) ==
  /\ pc[h] = "overlap"
  /\ HeldAtHead = {}
  /\ Len(job[h].pin) > Len(head)
  /\ Verified(job[h].pin)
  /\ pending' = [from |-> head, to |-> job[h].pin]
  /\ Goto(h, "pages")
  /\ UNCHANGED <<head, intent, abandoned, receipts, recent, done, outbox, External,
                 lock, job, tail, own, Observed>>

(* 409 RECONCILE_REFUSED *)
RefusePin(h) ==
  /\ CASE pc[h] = "check" ->
            job[h].pin # d1 \/ Len(job[h].pin) <= Len(head)
       [] pc[h] = "overlap" ->
            /\ Adoptable(job[h].pin) = {}
            /\ \/ HeldAtHead # {}
               \/ Len(job[h].pin) = Len(head)
               \/ ~Verified(job[h].pin)
       [] OTHER -> FALSE
  /\ Release(h)
  /\ UNCHANGED <<storage, outbox, External, Observed>>

(* adoptPinned: page by page, a commit each. *)
AdoptPage(h) ==
  /\ pc[h] = "pages"
  /\ CommitPage(pending.to)
  /\ Goto(h, IF Len(head) + ReadPage < Len(pending.to) THEN "pages" ELSE "finish")
  /\ UNCHANGED <<abandoned, pending, done, External, lock, job, tail, own, Observed>>
-----------------------------------------------------------------------------
(***************************************************************************)
(* D1, crashes                                                             *)
(***************************************************************************)
Suffix(b) == SubSeq(b.last, b.first, Len(b.last))

(* D1 executes a batch: all its rows, if none of their seqs is taken. *)
LandBatch(b) ==
  /\ b.first = Len(d1) + 1
  /\ d1' = d1 \o Suffix(b)
  /\ flight' = flight \ {b}
  /\ pc' = IF b.by = NoOne THEN pc ELSE [pc EXCEPT ![b.by] = "landed"]
  /\ UNCHANGED <<storage, outbox, late, lock, job, tail, own, Observed>>

(* The last INSERT of the pre-intent code is executed late. *)
LandLate ==
  /\ late # None
  /\ late.first = Len(d1) + 1
  /\ d1' = d1 \o late.rows
  /\ late' = None
  /\ UNCHANGED <<storage, outbox, flight, memory, Observed>>

(* The object is evicted or reset: its memory is gone, its storage is not, and
   D1 may still execute what it sent. *)
Crash ==
  /\ fails < MaxFails
  /\ fails' = fails + 1
  /\ lock # NoOne
  /\ lock' = NoOne
  /\ pc' = [h \in Handlers |-> "idle"]
  /\ job' = [h \in Handlers |-> None]
  /\ tail' = [h \in Handlers |-> 0]
  /\ own' = [h \in Handlers |-> None]
  /\ flight' = {Orphan(b) : b \in flight}
  /\ UNCHANGED <<storage, outbox, d1, late, acked>>

Init ==
  /\ head = Base
  /\ intent = NoIntent
  /\ abandoned = <<>>
  /\ receipts = {[key |-> OldRow.key, head |-> Base, pay |-> None]}
  /\ recent = <<>>
  /\ pending = NoPending
  /\ done = {}
  /\ outbox = Segments(<<>>, Base)
  /\ \E s \in LegacySuffixes : d1 = Base \o s
  /\ flight = {}
  /\ late \in {None} \cup [first : {Len(d1) + 1}, rows : LateLegacy]
  /\ lock = NoOne
  /\ pc = [h \in Handlers |-> "idle"]
  /\ job = [h \in Handlers |-> None]
  /\ tail = [h \in Handlers |-> 0]
  /\ own = [h \in Handlers |-> None]
  /\ acked = {}
  /\ fails = 0

Recover(h) ==
  \/ ResumeAdoption(h) \/ ReadTail(h) \/ AdoptHeld(h) \/ AbandonIntent(h)
  \/ NothingToRecover(h) \/ ChainBroken(h)
  \/ WriteReconcileRow(h) \/ ReconcileRowWritten(h) \/ RecordReconcile(h)

AppendAt(h) ==
  \/ Dedup(h) \/ Mismatch(h) \/ PutIntent(h) \/ SendBatch(h)
  \/ CommitAppend(h) \/ Conflict(h) \/ Reply(h)

Reconcile(h) ==
  \/ Lookup(h) \/ CheckPin(h) \/ AdoptOverlap(h) \/ PutReconcileRecord(h)
  \/ RefusePin(h) \/ AdoptPage(h)

Run(h) == Recover(h) \/ AppendAt(h) \/ Reconcile(h)

Next ==
  \/ \E h \in Handlers :
       \/ \E key \in CallKeys, pay \in Payloads : Call(h, key, pay)
       \/ \E n \in 1 .. Len(d1) : CallReconcile(h, n)
       \/ Run(h)
       \/ GiveUp(h)
  \/ \E b \in flight : LandBatch(b)
  \/ LandLate
  \/ Crash

Spec == Init /\ [][Next]_vars

(***************************************************************************)
(* Fairness.  A handler that holds the lock runs on; D1 executes or        *)
(* refuses a batch whose sender still waits; runExclusive is a queue, so a *)
(* caller that keeps retrying keeps getting its turn, and so does an       *)
(* operator who pins D1's last row.  Nothing makes the batch of a dead     *)
(* handler land.                                                           *)
(***************************************************************************)
Fairness ==
  /\ \A h \in Handlers :
       /\ WF_vars(Run(h))
       /\ WF_vars(\E b \in flight : b.by = h /\ LandBatch(b))
  /\ \A k \in IdemKeys :
       SF_vars(\E h \in Handlers, pay \in Payloads :
                 Call(h, [kind |-> "idem", id |-> k], pay))
  /\ SF_vars(\E h \in Handlers : CallReconcile(h, Len(d1)))

FairSpec == Spec /\ Fairness
-----------------------------------------------------------------------------
(***************************************************************************)
(* Properties                                                              *)
(***************************************************************************)
Labels == {"idle", "recover", "decide", "finish", "append", "send", "wait", "landed",
           "record", "lookup", "check", "overlap", "pages", "reply"}

IntentOK(c) == c.first \in Nat \ {0} /\ Rows(c.last) /\ c.first <= Len(c.last)

(* Every variable holds a value of the shape the storage keys and the handler's
   locals have; the ring and the abandoned list respect their caps. *)
TypeOK ==
  /\ Rows(head) /\ Rows(d1)
  /\ intent = NoIntent \/ IntentOK(intent)
  /\ abandoned \in Seq(Range(abandoned)) /\ Len(abandoned) <= AbandonedMax
  /\ \A c \in Range(abandoned) : IntentOK(c)
  /\ recent \in Seq(Range(recent)) /\ Len(recent) <= RecentMax
  /\ Rows(pending.to)
  /\ \A b \in flight : /\ b = [by |-> b.by, first |-> b.first, last |-> b.last]
                      /\ b.by \in Handlers \cup {NoOne}
                      /\ IntentOK(b)
  /\ late = None \/ Rows(late.rows)
  /\ lock \in Handlers \cup {NoOne}
  /\ pc \in [Handlers -> Labels]
  /\ DOMAIN job = Handlers /\ DOMAIN own = Handlers /\ DOMAIN tail = Handlers
  /\ fails \in 0 .. MaxFails

(* The head is always on the chain D1 holds: no crash, lost answer or late
   batch makes the object commit rows D1 does not have in those places. *)
HeadOnD1 == IsPrefix(head, d1)

(* The head only ever grows: a committed row is never replaced or dropped. *)
HeadOnlyExtends == [][IsPrefix(head, head')]_head

(* What makes HeadOnD1 inductive, said of every moment between two awaits: one
   handler is between its recover and its answer; the append it makes starts at
   the head, and when D1 has confirmed it, D1 holds its rows in their places;
   a batch D1 may still execute was built on rows D1 holds, and is its sender's;
   a pinned suffix is D1's. *)
OneAtATime == \A h \in Handlers : pc[h] # "idle" => lock = h

RequestsOK ==
  \A h \in Handlers :
    /\ pc[h] # "idle" /\ job[h].op = "append" => job[h].pay \in Payloads
    /\ pc[h] = "append" => job[h].op = "append"
    /\ pc[h] = "overlap" => Rows(job[h].pin)

OwnStartsAtHead ==
  \A h \in Handlers :
    pc[h] \in {"send", "wait", "landed"} =>
      /\ IntentOK(own[h])
      /\ own[h].first = Len(head) + 1
      /\ IsPrefix(head, own[h].last)

LandedOnD1 ==
  \A h \in Handlers : pc[h] = "landed" => IsPrefix(own[h].last, d1)

FlightBuiltOnD1 ==
  \A b \in flight :
    /\ IsPrefix(SubSeq(b.last, 1, b.first - 1), d1)
    /\ b.by # NoOne => /\ pc[b.by] = "wait"
                       /\ b.first = own[b.by].first
                       /\ b.last = own[b.by].last

PinnedOnD1 ==
  /\ IsPrefix(pending.to, d1)
  /\ \A h \in Handlers :
       pc[h] = "pages" => /\ Rows(pending.to)
                         /\ IsPrefix(pending.to, d1)
                         /\ Len(head) < Len(pending.to)

ChainInv ==
  /\ HeadOnD1
  /\ OneAtATime /\ RequestsOK
  /\ OwnStartsAtHead /\ LandedOnD1
  /\ FlightBuiltOnD1
  /\ PinnedOnD1

(* The rows of a durable key are in the chain once, together, complete and all
   of one call, however often it was retried, and whichever of its attempts
   landed. *)
AtMostOnce ==
  \A n, m \in DOMAIN head :
    /\ n < m
    /\ head[n].key = head[m].key
    /\ Durable(head[n].key)
    => /\ head[m].i - head[n].i = m - n
       /\ head[m].pay = head[n].pay
       /\ head[m].ts = head[n].ts

(* A caller that was told its append is in the chain can find it there: the
   acknowledged head is a prefix of the chain and ends with the call's rows,
   with the payload that was sent. *)
AckedIsThere ==
  \A a \in acked :
    /\ IsPrefix(a.head, head)
    /\ Last(a.head).key = a.key
    /\ Last(a.head).pay = Last(a.head).i
    /\ a.key # OldRow.key => Last(a.head).pay = a.pay

(* A row no call wrote is in the chain only below a pin an operator gave, and
   the row that records that pin is the very next one. *)
ForeignRowsArePinned ==
  \A n \in DOMAIN head :
    head[n].key.kind = "legacy" =>
      \E r \in done \cup {pending} :
        /\ Len(r.from) < n /\ n <= Len(r.to)
        /\ IsPrefix(r.from, head)
        /\ Len(head) > Len(r.to) =>
             head[Len(r.to) + 1].key = ReconcileKey(r.to)

(* Whichever way a row entered the chain - its own commit, an adopted intent, a
   page of a pinned suffix - its segment was queued for the escrow with it, and
   no other segment ever is. *)
EscrowHoldsChain == outbox = Segments(<<>>, head)

(* No row is ever written under the head, and no batch whose seqs are free can
   land unless the object still holds its intent: given up, not forgotten. *)
AbandonedNotForgotten ==
  \A b \in flight :
    b.first > Len(d1) => \E c \in Held : c.first = b.first /\ c.last = b.last

(* A canceled append never blocks the ones after it for good: it never happens
   that, with nobody running and no batch left to land, D1's rows beyond the
   head can neither be recovered by the next append nor reconciled. *)
Stuck ==
  /\ lock = NoOne
  /\ Len(d1) > Len(head)
  /\ HeldAtHead # {}
  /\ \A c \in HeldAtHead : ~Verified(c.last)

NeverStuck == ~Stuck

(* A reconciliation is owed from its record until its row is committed. *)
Owed == IF Receipts(ReconcileKey(pending.to)) # {} THEN NoPending.to ELSE pending.to

(***************************************************************************)
(* What makes the ledger's promises inductive.  Whatever may still become  *)
(* part of the chain - a held intent, a batch D1 may execute, the rows D1  *)
(* holds beyond the head - is one call's, or a pinned suffix.              *)
(***************************************************************************)
Legacy(row) == row.key.kind = "legacy"

OneCallFrom(s, first) ==
  /\ Len(s) = first + s[first].pay - 1
  /\ ~Legacy(s[first])
  /\ \A n \in first .. Len(s) :
       s[n].key = s[first].key /\ s[n].pay = s[first].pay /\ s[n].ts = s[first].ts
         /\ s[n].i = n - first + 1

(* A held intent was built on the head of its time.  If that is still the head,
   its key is unused, and it is the row that closes the owed reconciliation, or
   none is owed. *)
HeldOK ==
  \A c \in Held :
    /\ OneCallFrom(c.last, c.first)
    /\ c.last[c.first].key = c.key /\ c.last[c.first].pay = c.pay
    /\ c.first <= Len(head) + 1
    /\ c.key.kind = "reconcile" =>
         /\ c.key = ReconcileKey(c.key.id) /\ c.pay = 1
         /\ Rows(c.key.id) /\ IsPrefix(c.key.id, c.last)
         /\ c.first = Len(c.key.id) + 1 /\ c.first > 1
    /\ c.first = Len(head) + 1 =>
         /\ IsPrefix(head, c.last)
         /\ Durable(c.key) => Receipts(c.key) = {}
         /\ Owed = IF c.key.kind = "reconcile" THEN head ELSE NoPending.to

IntentAtHead == intent # NoIntent => intent.first = Len(head) + 1

(* A receipt names a prefix of the chain that ends with its call's rows; every
   durable key in the chain has one. *)
ReceiptsOK ==
  /\ \A r \in receipts \cup Range(recent) :
       /\ Rows(r.head) /\ Len(r.head) > 0 /\ IsPrefix(r.head, head)
       /\ LET end == r.head[Len(r.head)] IN
            /\ end.key = r.key /\ end.pay = end.i
            /\ r.key # OldRow.key => end.pay = r.pay
       /\ r.key.kind = "reconcile" =>
            IsPrefix(r.key.id, r.head) /\ Len(r.head) = Len(r.key.id) + 1
  /\ \A n \in DOMAIN head : Durable(head[n].key) => Receipts(head[n].key) # {}

(* Until its row is written a reconciliation leads on from the head, and no
   append is held before the pin is reached. *)
PendingOK ==
  /\ Rows(pending.from) /\ IsPrefix(pending.from, head)
  /\ pending # NoPending => Len(pending.to) > 0
  /\ Owed # NoPending.to => Len(head) <= Len(pending.to)
  /\ PartWay => HeldAtHead = {}

DoneOK ==
  \A r \in done : /\ Rows(r.from) /\ Rows(r.to) /\ Len(head) > Len(r.to)
                  /\ head[Len(r.to) + 1].key = ReconcileKey(r.to)

(* A batch that may still land at the head has an intent to adopt its rows
   with; once landed, it is followed by legacy rows at most. *)
FlightOK ==
  \A b \in flight : /\ b.first <= Len(head) + 1
                    /\ OneCallFrom(b.last, b.first)
                    /\ b.first = Len(head) + 1 => HeldAtHead # {}

BeyondHead ==
  \/ \A n \in Len(head) + 1 .. Len(d1) : Legacy(d1[n])
  \/ /\ HeldAtHead # {}
     /\ \A n \in Len(head) + d1[Len(head) + 1].pay + 1 .. Len(d1) : Legacy(d1[n])

LateOK == late # None => \A n \in 1 .. Len(late.rows) : Legacy(late.rows[n])

(* What a handler knows where it is. *)
HandlerOK(h) ==
  /\ pc[h] # "idle" /\ job[h].op = "append" => job[h].key \in CallKeys
  /\ pc[h] \in {"lookup", "check", "overlap"} => job[h].op # "append"
  /\ pc[h] \in {"append", "finish", "record"} => intent = NoIntent
  /\ pc[h] \in {"append", "check", "overlap"} => pending = NoPending
  /\ pc[h] \in {"decide", "finish"} => ~PartWay
  /\ pc[h] \in {"finish", "record"} => pending # NoPending
  /\ pc[h] = "record" => Receipts(ReconcileKey(pending.to)) # {}
  /\ pc[h] \in {"send", "wait", "landed"} =>
       /\ own[h] = intent /\ intent # NoIntent
       /\ intent.key.kind = "reconcile" => pending # NoPending
       /\ intent.key.kind # "reconcile" =>
            job[h].op = "append" /\ intent.key = job[h].key /\ intent.pay = job[h].pay
  /\ pc[h] = "reply" /\ job[h].op = "append" =>
       LET s == own[h].last IN
       /\ Rows(s) /\ Len(s) > 0 /\ IsPrefix(s, head)
       /\ s[Len(s)].key = job[h].key /\ s[Len(s)].pay = s[Len(s)].i
       /\ job[h].key # OldRow.key => s[Len(s)].pay = job[h].pay

HandlersOK == \A h \in Handlers : HandlerOK(h)

AckedOK == AckedIsThere /\ \A a \in acked : Rows(a.head)

LedgerInv ==
  /\ HeldOK /\ IntentAtHead /\ ReceiptsOK /\ PendingOK /\ DoneOK
  /\ FlightOK /\ BeyondHead /\ LateOK /\ HandlersOK
  /\ AtMostOnce /\ AckedOK /\ ForeignRowsArePinned

(* Every durable key that is retried is acknowledged in the end. *)
EventuallyAcked ==
  \A k \in IdemKeys : <>(\E a \in acked : a.key = [kind |-> "idem", id |-> k])

(* The promise to the callers (AuditLedger), under the mapping: the log is the
   head, what is owed is Owed. *)
Ledger == INSTANCE AuditLedger WITH log <- head, owed <- Owed, NoPin <- NoPending.to
ImplementsLedger == Ledger!Spec
=============================================================================
